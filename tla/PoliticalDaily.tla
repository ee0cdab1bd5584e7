--------------------------- MODULE PoliticalDaily ---------------------------
(* The political orchestrator (scripts/us/political/us_political_daily.py) under its lock:
   a run loads the run state, calls every source that is not cooling down, and saves the
   run state at the end; the House Clerk source keeps a set of filings it is done with
   (house_clerk/ingest.py, shared/ingest/state.py).  Processes overlap, crash, are dry
   runs; sources succeed, fail or answer with a Retry-After. *)
EXTENDS RunLock, Sequences, FiniteSets

CONSTANTS
  Daily, Weekly,   \* the sources of run_daily and those run_weekly adds, in order
  HouseClerk,      \* the source with a done set
  Cooldown,        \* --hourly-cooldown
  MaxRetry,        \* the longest Retry-After
  NumFilings,      \* filings the House publishes this year
  Tradeless        \* those in which the parser finds no trade

Filings     == 1 .. NumFilings
SourceNames == {Daily[i] : i \in DOMAIN Daily} \cup {Weekly[i] : i \in DOMAIN Weekly}

ASSUME PoliticalAssumption ==
  /\ Daily \in Seq(SourceNames) /\ Weekly \in Seq(SourceNames)
  /\ Cooldown \in Nat \ {0} /\ MaxRetry \in Nat /\ NumFilings \in Nat
  /\ Tradeless \subseteq Filings

VARIABLES
  runFile,    \* political_run_state.json: hours since last_ok, hours to retry_after_at
  seeded,     \* it holds a source
  run,        \* the run of each process
  doneFile,   \* the saved done set of the House Clerk source
  stored,     \* filings whose trades are in the database
  index,      \* filings in the House's index of the year
  asked,      \* history: hours each server still wants to be left alone
  forgot,     \* history: sources whose deferral died unsaved
  dryMarked   \* history: filings a dry run marked done

vars == <<lockVars, runFile, seeded, run, doneFile, stored, index, asked, forgot, dryMarked>>

RunStates   == [ok : 0 .. Cooldown, retry : 0 .. MaxRetry]
Modes       == {"daily", "hourly", "weekly"}
Blank       == [s \in SourceNames |-> [ok |-> Cooldown, retry |-> 0]]

NoRun == [pc |-> "none", mode |-> "daily", dry |-> FALSE, part |-> "daily", todo |-> <<>>,
          mem |-> Blank, done |-> {}, visit |-> {}, pending |-> {}]

Suffixes(s) == {SubSeq(s, i, Len(s)) : i \in 1 .. Len(s) + 1}

Runs ==
  [pc : {"none", "source", "filing", "rows", "marks", "metrics", "reload", "end"},
   mode : Modes, dry : BOOLEAN, part : {"daily", "weekly"},
   todo : Suffixes(Daily) \cup Suffixes(Weekly), mem : [SourceNames -> RunStates],
   done : SUBSET Filings, visit : SUBSET Filings, pending : SUBSET Filings]

TypeOK ==
  /\ LockTypeOK
  /\ runFile \in [SourceNames -> RunStates]
  /\ seeded \in BOOLEAN
  /\ run \in [Procs -> Runs]
  /\ doneFile \subseteq Filings
  /\ stored \subseteq Filings
  /\ index \subseteq Filings
  /\ asked \in [SourceNames -> 0 .. MaxRetry]
  /\ forgot \subseteq SourceNames
  /\ dryMarked \subseteq Filings

-----------------------------------------------------------------------------
(* shared/runtime/state.py. *)

NotRecent(r, s) == r.mode = "hourly" => r.mem[s].ok >= Cooldown

\* should_run: retry_after_at has passed and, in hourly mode, last_ok is not recent.
ShouldRun(r, s) ==
  /\ r.mem[s].retry = 0
  /\ NotRecent(r, s)

MarkOk(mem, s)      == [mem EXCEPT ![s] = [ok |-> 0, retry |-> 0]]
MarkFail(mem, s, h) == IF h = 0 THEN mem ELSE [mem EXCEPT ![s].retry = h]

OlderUncapped(mem) == [s \in SourceNames |-> [mem[s] EXCEPT !.ok = @ + 1]]

Older(mem) == [s \in SourceNames |->
                 [ok |-> Hour(mem[s].ok, Cooldown),
                  retry |-> IF mem[s].retry = 0 THEN 0 ELSE mem[s].retry - 1]]

\* Deferrals only the memory of a run knows of.
Unsaved(r) == {s \in SourceNames : r.pc # "none" /\ r.mem[s].retry > runFile[s].retry}

-----------------------------------------------------------------------------
(* run_daily, run_hourly and run_weekly. *)

At(p, pc)  == stage[p] = "in" /\ run[p].pc = pc
Set(p, r)  == run' = [run EXCEPT ![p] = r]
Source(r)  == Head(r.todo)
Calling(p) == At(p, "source") /\ run[p].todo # <<>> /\ ShouldRun(run[p], Source(run[p]))
Next1(r)   == [r EXCEPT !.pc = "source", !.todo = Tail(r.todo),
                        !.done = {}, !.visit = {}, !.pending = {}]

sourceVars == <<doneFile, stored, index, dryMarked>>

\* An hourly run without any run state has nothing to do.
LoadState(p) ==
  \E mode \in Modes, dry \in BOOLEAN :
    /\ At(p, "none")
    /\ Set(p, IF mode = "hourly" /\ ~seeded THEN [NoRun EXCEPT !.pc = "end", !.mode = mode]
              ELSE [NoRun EXCEPT !.pc = "source", !.mode = mode, !.dry = dry,
                                 !.todo = Daily, !.mem = runFile])
    /\ UNCHANGED <<lockVars, runFile, seeded, sourceVars, asked, forgot>>

SkipSource(p) ==
  /\ At(p, "source") /\ run[p].todo # <<>> /\ ~ShouldRun(run[p], Source(run[p]))
  /\ Set(p, Next1(run[p]))
  /\ UNCHANGED <<lockVars, runFile, seeded, sourceVars, asked, forgot>>

\* _run_source for a source whose own state is not modelled: it returns, raises
\* RateLimitDeferred with the server's Retry-After, or raises something else.
CallSource(p) ==
  LET r == run[p]
      s == Source(r)
  IN  /\ Calling(p) /\ s # HouseClerk
      /\ \/ /\ Set(p, [Next1(r) EXCEPT !.mem = MarkOk(r.mem, s)])
            /\ UNCHANGED <<asked, forgot>>
         \/ /\ Set(p, Next1(r))
            /\ UNCHANGED <<asked, forgot>>
         \/ \E h \in 1 .. MaxRetry :
              /\ Set(p, [Next1(r) EXCEPT !.mem = MarkFail(r.mem, s, h)])
              /\ asked' = [asked EXCEPT ![s] = h]
              /\ forgot' = forgot \ {s}
      /\ UNCHANGED <<lockVars, runFile, seeded, sourceVars>>

\* save_run_state at the end of run_daily and of run_weekly: the whole dictionary.
SaveState(p) ==
  LET r == run[p]
  IN  /\ \/ At(p, "source") /\ r.todo = <<>> /\ r.part = "daily"
         \/ At(p, "metrics")
      /\ runFile' = r.mem
      /\ seeded' = TRUE
      /\ Set(p, [r EXCEPT !.pc = IF r.mode = "weekly" /\ r.part = "daily"
                                 THEN "reload" ELSE "end"])
      /\ UNCHANGED <<lockVars, sourceVars, asked, forgot>>

ReloadState(p) ==
  /\ At(p, "reload")
  /\ Set(p, [run[p] EXCEPT !.pc = "source", !.part = "weekly", !.todo = Weekly,
                           !.mem = runFile])
  /\ UNCHANGED <<lockVars, runFile, seeded, sourceVars, asked, forgot>>

\* The metrics snapshot between the last weekly source and the save: when it raises, main
\* reports EXIT_FATAL and nothing is saved.
Metrics(p) ==
  LET r == run[p]
  IN  /\ At(p, "source") /\ r.todo = <<>> /\ r.part = "weekly"
      /\ \/ /\ Set(p, [r EXCEPT !.pc = "metrics"])
            /\ UNCHANGED forgot
         \/ /\ Set(p, [r EXCEPT !.pc = "end", !.mem = runFile])
            /\ forgot' = forgot \cup Unsaved(r)
      /\ UNCHANGED <<lockVars, runFile, seeded, sourceVars, asked>>

Exit(p) ==
  /\ At(p, "end")
  /\ Unlink(p)
  /\ Set(p, NoRun)
  /\ UNCHANGED <<runFile, seeded, sourceVars, asked, forgot>>

\* The process is killed.
Crash(p) ==
  /\ Die(p)
  /\ Set(p, NoRun)
  /\ forgot' = forgot \cup Unsaved(run[p])
  /\ UNCHANGED <<runFile, seeded, sourceVars, asked>>

-----------------------------------------------------------------------------
(* ingest_house_clerk. *)

CallFresh(p) ==
  /\ Calling(p) /\ Source(run[p]) = HouseClerk
  /\ Set(p, [run[p] EXCEPT !.pc = "filing", !.visit = index])
  /\ UNCHANGED <<lockVars, runFile, seeded, sourceVars, asked, forgot>>

\* State(...) loads the done set, list_ptrs the index; a failed index download is logged
\* and leaves nothing to visit.
CallHouse(p) ==
  LET r == run[p]
  IN  /\ Calling(p) /\ Source(r) = HouseClerk
      /\ \E listed \in {index, {}} :
           Set(p, [r EXCEPT !.pc = "filing", !.done = doneFile, !.visit = listed])
      /\ UNCHANGED <<lockVars, runFile, seeded, sourceVars, asked, forgot>>

\* One filing, newest first: done before, not fetched or not parsed, parsed without
\* trades, or parsed with trades, whose rows may or may not fill the batch of 5000.
VisitFiling(p) ==
  \E f \in run[p].visit :
  LET r == run[p]
      left == [r EXCEPT !.visit = @ \ {f}]
      parsed == [left EXCEPT !.done = @ \cup {f}]
  IN  /\ At(p, "filing") /\ \A g \in r.visit : g <= f
      /\ \/ Set(p, left)
         \/ f \notin r.done /\ f \in Tradeless /\ Set(p, parsed)
         \/ /\ f \notin r.done /\ f \notin Tradeless
            /\ \E full \in BOOLEAN :
                 Set(p, [parsed EXCEPT !.pending = @ \cup {f},
                                       !.pc = IF full THEN "rows" ELSE "filing"])
      /\ UNCHANGED <<lockVars, runFile, seeded, sourceVars, asked, forgot>>

\* _flush: a dry run keeps its rows to itself.
WriteRows(p) ==
  LET r == run[p]
  IN  /\ At(p, "rows") \/ (At(p, "filing") /\ r.visit = {})
      /\ stored' = IF r.dry THEN stored ELSE stored \cup r.pending
      /\ Set(p, [r EXCEPT !.pc = "marks"])
      /\ UNCHANGED <<lockVars, runFile, seeded, doneFile, index, dryMarked, asked, forgot>>

\* State._save replaces the file by this process's set, or gives up after its retries.
\* With nothing left to visit the source has returned and is marked ok.
SaveMarks(p) ==
  LET r == run[p]
  IN  /\ At(p, "marks")
      /\ \/ /\ doneFile' = r.done
            /\ dryMarked' = IF r.dry THEN dryMarked \cup (r.done \ doneFile) ELSE dryMarked
         \/ UNCHANGED <<doneFile, dryMarked>>
      /\ Set(p, IF r.visit = {} THEN [Next1(r) EXCEPT !.mem = MarkOk(r.mem, HouseClerk)]
                ELSE [r EXCEPT !.pc = "filing", !.pending = {}])
      /\ UNCHANGED <<lockVars, runFile, seeded, stored, index, asked, forgot>>

MarksSavedAnyway(p) ==
  LET r == run[p]
  IN  /\ ~r.dry
      /\ At(p, "rows") \/ (At(p, "filing") /\ r.visit = {} /\ r.pending # {})
      /\ doneFile' = r.done
      /\ Set(p, Next1(r))
      /\ UNCHANGED <<lockVars, runFile, seeded, stored, index, dryMarked, asked, forgot>>

\* The database refuses a batch: the exception ends the source, not the run.
HouseFails(p) ==
  LET r == run[p]
  IN  /\ ~r.dry
      /\ At(p, "rows") \/ (At(p, "filing") /\ r.visit = {} /\ r.pending # {})
      /\ Set(p, Next1(r))
      /\ UNCHANGED <<lockVars, runFile, seeded, sourceVars, asked, forgot>>

-----------------------------------------------------------------------------
(* The world. *)

Publish ==
  /\ index # Filings
  /\ index' = index \cup {Cardinality(index) + 1}
  /\ UNCHANGED <<lockVars, runFile, seeded, run, doneFile, stored, asked, forgot, dryMarked>>

Tick ==
  /\ LockAges
  /\ runFile' = Older(runFile)
  /\ run' = [p \in Procs |-> IF run[p].pc = "none" THEN run[p]
                             ELSE [run[p] EXCEPT !.mem = Older(@)]]
  /\ asked' = [s \in SourceNames |-> IF asked[s] = 0 THEN 0 ELSE asked[s] - 1]
  /\ forgot' = {s \in forgot : asked[s] > 1}
  /\ UNCHANGED <<seeded, sourceVars>>

Enter(p) ==
  /\ TestLock(p) \/ OpenLock(p) \/ StampLock(p)
  /\ UNCHANGED <<runFile, seeded, run, sourceVars, asked, forgot>>

Init ==
  /\ LockInit
  /\ runFile = Blank
  /\ seeded = FALSE
  /\ run = [p \in Procs |-> NoRun]
  /\ doneFile = {}
  /\ stored = {}
  /\ index = {}
  /\ asked = [s \in SourceNames |-> 0]
  /\ forgot = {}
  /\ dryMarked = {}

Step(p) ==
  \/ Enter(p) \/ LoadState(p) \/ SkipSource(p) \/ CallSource(p) \/ SaveState(p)
  \/ ReloadState(p) \/ Metrics(p) \/ Exit(p)
  \/ CallHouse(p) \/ VisitFiling(p) \/ WriteRows(p) \/ SaveMarks(p) \/ HouseFails(p)

Next ==
  \/ \E p \in Procs : Step(p) \/ Crash(p)
  \/ Publish
  \/ Tick

Spec == Init /\ [][Next]_vars

-----------------------------------------------------------------------------
(* Properties. *)

Overlapped == raced \/ overran

\* A source is not called while the Retry-After its server gave has not passed, unless
\* the run that received it ended before it saved the run state, or runs overlapped.
CooldownKept ==
  \A p \in Procs : Calling(p) =>
    asked[Source(run[p])] = 0 \/ Source(run[p]) \in forgot \/ Overlapped

\* state.py:4 "the checkpoint is an optimization": a filing is marked done only when its
\* trades are stored or it has none, whatever crashed, failed or overlapped.  Only a dry
\* run marks filings whose trades were never written.
DoneIsStored == doneFile \subseteq stored \cup Tradeless \cup dryMarked

\* Marks are never lost, although each run replaces the file by its own set, unless
\* runs overlapped.
MarksKept == [][doneFile \subseteq doneFile' \/ Overlapped]_vars

=============================================================================
