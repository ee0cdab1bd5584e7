----------------------------- MODULE FecPasses -----------------------------
(***************************************************************************)
(* The FEC source of the weekly political run (fec/ingest.py, ingest_fec): *)
(* the committees of the candidates and of the corporate PACs, then the    *)
(* donations of each corporate PAC (mode A) and those to each principal    *)
(* campaign committee (mode B), for the active cycle.  Each stage has a     *)
(* state file of what is done.  The state file is flushed every so many    *)
(* units, whatever the buffers of rows hold at that time.                  *)
(*                                                                         *)
(* One process at a time: the orchestrator holds its lock (RunLock).        *)
(***************************************************************************)
EXTENDS Integers, FiniteSets

CONSTANTS
  Pacs,       \* corporate PACs
  Pccs,       \* principal campaign committees, one for each candidate
  None,       \* no committee
  Batch,      \* BATCH_SIZE
  DryRuns,    \* whether somebody tries --dry-run
  MaxFaults   \* bound on failed requests, failed writes and killed runs

FecAssumption ==
  /\ Batch \in Nat \ {0} /\ DryRuns \in BOOLEAN /\ MaxFaults \in Nat
  /\ None \notin Pacs \cup Pccs /\ Pacs \cap Pccs = {}

VARIABLES
  filed,       \* donations the FEC knows, <<donor, recipient>>
  committees,  \* table fec_committees: no row, a stub with a name only, or the row
  donated,     \* table campaign_donations
  marks,       \* the state file of each stage
  job,         \* the process
  faults,
  read,        \* history: <<unit, donation>> in the last reading of a unit by a real run
  orphaned,    \* history: donations that died in the buffer of a unit marked on disk
  unlisted,    \* history: committees that died in memory, their candidate marked on disk
  dried        \* history: <<stage, unit>> marked by a dry run

tables  == <<committees, donated>>
history == <<read, orphaned, unlisted, dried>>
vars    == <<filed, tables, marks, job, faults, history>>

Committees == Pacs \cup Pccs
Donations  == (Pacs \cup {None}) \X Pccs
Stages     == {"candidates", "a", "b"}
Units(stage) == IF stage = "a" THEN Pacs ELSE Pccs
Unit(d)    == IF job.stage = "a" THEN d[1] ELSE d[2]

Down == [pc |-> "down", stage |-> "candidates", dry |-> FALSE, todo |-> {}, done |-> {},
         unit |-> None, unread |-> {}, buf |-> {}, flat |-> {}, rich |-> {}, stubs |-> {}]

TypeOK ==
  /\ filed \subseteq Donations /\ donated \subseteq filed
  /\ committees \in [Committees -> {"absent", "stub", "row"}]
  /\ marks \in [candidates : SUBSET Pccs, a : SUBSET Pacs, b : SUBSET Pccs]
  /\ job \in [pc : {"down", "plan", "candidates", "sweep", "store", "units", "rows",
                    "committees", "stubs", "donations", "save"},
              stage : Stages, dry : BOOLEAN, todo : SUBSET Committees, done : SUBSET Committees,
              unit : Committees \cup {None}, unread : SUBSET Donations, buf : SUBSET Donations,
              flat : SUBSET Donations, rich : SUBSET Committees, stubs : SUBSET Pacs]
  /\ faults \in 0 .. MaxFaults
  /\ read \subseteq Committees \X Donations /\ orphaned \subseteq Donations
  /\ unlisted \subseteq Pccs /\ dried \subseteq Stages \X Committees

At(pc) == job.pc = pc
Kept(c) == committees[c] # "absent"
Fault == faults < MaxFaults /\ faults' = faults + 1

-----------------------------------------------------------------------------
(* ingest_fec, and the checkpoints of its stages. *)

Start ==
  /\ At("down")
  /\ \E dry \in {FALSE, DryRuns} : job' = [Down EXCEPT !.pc = "plan", !.dry = dry]
  /\ UNCHANGED <<filed, tables, marks, faults, history>>

Stage(stage) == [Down EXCEPT !.pc = "plan", !.stage = stage, !.dry = job.dry]

\* The units of a stage: every candidate, then the committees of the kind that have their row.
Targets(stage) ==
  {u \in Units(stage) : stage = "candidates" \/ committees[u] = "row"}

Plan ==
  /\ At("plan")
  /\ job' = [job EXCEPT !.pc = IF job.stage = "candidates" THEN "candidates" ELSE "units",
                        !.todo = Targets(job.stage) \ marks[job.stage],
                        !.done = marks[job.stage]]
  /\ UNCHANGED <<filed, tables, marks, faults, history>>

\* state.flush, in a dry run too.
Flush ==
  /\ marks' = [marks EXCEPT ![job.stage] = job.done]
  /\ dried' = IF job.dry
              THEN dried \cup ({job.stage} \X (job.done \ marks[job.stage])) ELSE dried

\* In the middle of a stage, every 100 candidates, 25 PACs or 50 committees.
FlushMarks ==
  /\ At("candidates") \/ At("units")
  /\ job.done # marks[job.stage]
  /\ Flush
  /\ UNCHANGED <<filed, tables, job, faults, read, orphaned, unlisted>>

\* The process ends with what its buffers hold.
Lost ==
  /\ job' = Down
  /\ orphaned' = orphaned \cup {d \in job.buf : ~job.dry /\ Unit(d) \in marks[job.stage]}
  /\ unlisted' = unlisted \cup {c \in job.rich : /\ ~job.dry /\ job.stage = "candidates"
                                                /\ c \in marks.candidates}

\* The process dies, or something raises outside the try of a unit.
Break ==
  /\ ~At("down") /\ Fault
  /\ Lost
  /\ UNCHANGED <<filed, tables, marks, read, dried>>

-----------------------------------------------------------------------------
(* ingest_fec_committees. *)

FetchCandidate(c) ==
  /\ At("candidates") /\ c \in job.todo
  /\ job' = [job EXCEPT !.todo = @ \ {c}, !.done = @ \cup {c}, !.rich = @ \cup {c}]
  /\ UNCHANGED <<filed, tables, marks, faults, history>>

CandidateFails(c) ==
  /\ At("candidates") /\ c \in job.todo /\ Fault
  /\ job' = [job EXCEPT !.todo = @ \ {c}]
  /\ UNCHANGED <<filed, tables, marks, history>>

\* The candidates are marked done on disk, their committees are still in memory.
CandidatesEnd ==
  /\ At("candidates") /\ job.todo = {}
  /\ Flush
  /\ job' = [job EXCEPT !.pc = "sweep"]
  /\ UNCHANGED <<filed, tables, faults, read, orphaned, unlisted>>

Sweep ==
  /\ At("sweep")
  /\ job' = [job EXCEPT !.pc = "store", !.rich = @ \cup Pacs]
  /\ UNCHANGED <<filed, tables, marks, faults, history>>

Upserted(cs) == [c \in Committees |-> IF c \in cs THEN "row" ELSE committees[c]]

\* In a dry run nothing is written.
StoreCommittees ==
  /\ At("store")
  /\ committees' = IF job.dry THEN committees ELSE Upserted(job.rich)
  /\ job' = Stage("a")
  /\ UNCHANGED <<filed, donated, marks, faults, history>>

-----------------------------------------------------------------------------
(* ingest_fec_donations_mode_a and ingest_fec_donations_mode_b. *)

DonationsOf(u) == {d \in filed : u = Unit(d)}

OpenUnitAfresh(u) ==
  /\ At("units") /\ u \in job.todo
  /\ job' = [job EXCEPT !.pc = "rows", !.todo = @ \ {u}, !.unit = u, !.unread = DonationsOf(u),
                        !.rich = {}, !.stubs = {}]
  /\ UNCHANGED <<filed, tables, marks, faults, history>>

OpenUnit(u) ==
  /\ At("units") /\ u \in job.todo
  /\ job' = [job EXCEPT !.pc = "rows", !.todo = @ \ {u}, !.unit = u, !.unread = DonationsOf(u)]
  /\ UNCHANGED <<filed, tables, marks, faults, history>>

\* A row without sub_id is passed over.
SkipRow(d) ==
  /\ At("rows") /\ d \in job.unread
  /\ job' = [job EXCEPT !.unread = @ \ {d}]
  /\ read' = IF job.dry THEN read ELSE read \ {<<job.unit, d>>}
  /\ UNCHANGED <<filed, tables, marks, faults, orphaned, unlisted, dried>>

\* A donation goes to the buffer and its committees to the two dictionaries: the donor always,
\* the recipient unless the record is flat, with its key but not the nested committee.  A full
\* buffer is written before the next row; a dry run empties it.
ReadRow(d) ==
  LET buf == job.buf \cup {d}
      full == Cardinality(buf) >= Batch
  IN  /\ At("rows") /\ d \in job.unread
      /\ \E flat \in {{}, {d}} :
           job' = [job EXCEPT !.pc = IF full /\ ~job.dry THEN "committees" ELSE @,
                              !.unread = @ \ {d},
                              !.buf = IF full /\ job.dry THEN {} ELSE buf,
                              !.flat = IF full /\ job.dry THEN {} ELSE (@ \ {d}) \cup flat,
                              !.rich = @ \cup {c \in {d[2]} : flat = {}},
                              !.stubs = @ \cup ({d[1]} \ {None})]
      /\ read' = IF job.dry THEN read ELSE read \cup {<<job.unit, d>>}
      /\ UNCHANGED <<filed, tables, marks, faults, orphaned, unlisted, dried>>

CloseUnit ==
  /\ At("rows") /\ job.unread = {}
  /\ job' = [job EXCEPT !.pc = "units", !.done = @ \cup {job.unit}, !.unit = None]
  /\ UNCHANGED <<filed, tables, marks, faults, history>>

\* After the last unit what is left is written.
UnitsEnd ==
  /\ At("units") /\ job.todo = {}
  /\ job' = [job EXCEPT !.pc = IF job.dry THEN "save" ELSE "committees"]
  /\ UNCHANGED <<filed, tables, marks, faults, history>>

\* _flush_committees, _flush_committee_stubs and _flush_donations, each a transaction.
WriteCommittees ==
  /\ At("committees")
  /\ committees' = Upserted(job.rich)
  /\ job' = [job EXCEPT !.pc = "stubs"]
  /\ UNCHANGED <<filed, donated, marks, faults, history>>

WriteStubs ==
  /\ At("stubs")
  /\ committees' = [c \in Committees |-> IF c \in job.stubs /\ ~Kept(c) THEN "stub" ELSE committees[c]]
  /\ job' = [job EXCEPT !.pc = "donations", !.rich = {}, !.stubs = {}]
  /\ UNCHANGED <<filed, donated, marks, faults, history>>

\* The foreign keys admit a donation whose committees have a row.
Admitted(d) == Kept(d[2]) /\ (d[1] # None => Kept(d[1]))

WriteDonations ==
  /\ At("donations") /\ \A d \in job.buf : Admitted(d)
  /\ donated' = donated \cup job.buf
  /\ job' = [job EXCEPT !.pc = IF job.unit = None THEN "save" ELSE "rows", !.buf = {},
                        !.flat = {}]
  /\ UNCHANGED <<filed, committees, marks, faults, history>>

\* What is raised while a unit is read ends the unit, not the stage: a failed request, or a
\* failed write, whose rows stay in the buffer and are written with the next row of a unit.
Abandoned == [job EXCEPT !.pc = "units", !.unit = None, !.unread = {}]

\* A refused batch ends the unit like any failed write, after the last unit the source.
DonationsRefused ==
  /\ At("donations") /\ \E d \in job.buf : ~Admitted(d)
  /\ \/ job.unit # None /\ job' = Abandoned /\ UNCHANGED <<orphaned, unlisted>>
     \/ job.unit = None /\ Lost
  /\ UNCHANGED <<filed, tables, marks, faults, read, dried>>

WriteFailsEmptied ==
  /\ At("committees") \/ At("stubs") \/ At("donations")
  /\ job.unit # None /\ Fault
  /\ job' = [Abandoned EXCEPT !.buf = {}, !.flat = {}]
  /\ UNCHANGED <<filed, tables, marks, history>>

WriteFails ==
  /\ At("committees") \/ At("stubs") \/ At("donations")
  /\ job.unit # None /\ Fault
  /\ job' = Abandoned
  /\ UNCHANGED <<filed, tables, marks, history>>

RequestFails ==
  /\ At("rows") /\ Fault
  /\ job' = Abandoned
  /\ UNCHANGED <<filed, tables, marks, history>>

Save ==
  /\ At("save")
  /\ Flush
  /\ job' = IF job.stage = "a" THEN Stage("b") ELSE Down
  /\ UNCHANGED <<filed, tables, faults, read, orphaned, unlisted>>

-----------------------------------------------------------------------------
\* A donation is filed with the FEC.
File(d) ==
  /\ d \notin filed
  /\ filed' = filed \cup {d}
  /\ UNCHANGED <<tables, marks, job, faults, history>>

Init ==
  /\ filed = {} /\ donated = {}
  /\ committees = [c \in Committees |-> "absent"]
  /\ marks = [candidates |-> {}, a |-> {}, b |-> {}]
  /\ job = Down
  /\ faults = 0
  /\ read = {} /\ orphaned = {} /\ unlisted = {} /\ dried = {}

Next ==
  \/ Start \/ Plan \/ FlushMarks \/ Break
  \/ \E c \in Pccs : FetchCandidate(c) \/ CandidateFails(c)
  \/ CandidatesEnd \/ Sweep \/ StoreCommittees
  \/ \E u \in Committees : OpenUnit(u)
  \/ \E d \in Donations : SkipRow(d) \/ ReadRow(d) \/ File(d)
  \/ CloseUnit \/ UnitsEnd \/ WriteCommittees \/ WriteStubs \/ WriteDonations \/ DonationsRefused
  \/ WriteFails \/ RequestFails \/ Save

Spec == Init /\ [][Next]_vars

-----------------------------------------------------------------------------
(* Properties. *)

\* The foreign keys of campaign_donations refuse a batch only for a recipient that came as a
\* key without its object: the committees of a stored donation have a row, those of a buffered
\* one have a row or are written before it, wherever an earlier unit or write failed.
BatchAdmissible ==
  /\ \A d \in donated : Admitted(d)
  /\ \A d \in job.buf : /\ Kept(d[2]) \/ d[2] \in job.rich \/ d \in job.flat
                        /\ d[1] # None => Kept(d[1]) \/ d[1] \in job.stubs

\* What a state file calls done is stored: the committee of the candidate, each donation that
\* the last reading of the unit gave with a sub_id.  Only a run that broke while the rows were in
\* memory and the mark was on disk, or a dry run, makes an exception.
DoneIsStored ==
  /\ \A c \in marks.candidates :
       \/ committees[c] = "row" \/ c \in unlisted \/ <<"candidates", c>> \in dried
       \/ job.stage = "candidates" /\ c \in job.rich
  /\ \A stage \in {"a", "b"}, r \in read :
       LET u == r[1] d == r[2] IN
       u \in Units(stage) \cap marks[stage] =>
         d \in donated \cup orphaned \cup job.buf \/ <<stage, u>> \in dried

=============================================================================
