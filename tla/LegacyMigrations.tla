-------------------------- MODULE LegacyMigrations --------------------------
(***************************************************************************)
(* The legacy Postgres database under `alembic upgrade` and `alembic        *)
(* downgrade`.  A command runs its revisions in one transaction            *)
(* (migrations/env.py); meanwhile the collectors go on writing, and what    *)
(* they commit is seen by the next statement.  Revisions 016 and 022 count, *)
(* copy, count again and drop.                                             *)
(*                                                                         *)
(* One write of a collector is followed; it may come at any revision, and   *)
(* between the statements of 016 and 022.                                  *)
(***************************************************************************)
EXTENDS LegacyRevisions, LegacyMetadata

LOCAL INSTANCE SequencesExt

CONSTANT Stops  \* the revisions that commands ask for

MigrationsAssumption == Stops \subseteq 0 .. HeadRevision

VARIABLES
  db,       \* the committed database
  work,     \* the database as the transaction sees it
  cmd,      \* the command: where from and where to, and what became of it
  stage,    \* of 016 and 022: "" outside
  counted,  \* rows counted before they are copied
  copied,   \* rows copied
  wrote,    \* the write that is followed: {} if there was none yet
  since     \* history: lowest and highest revision since, and whether it fell into a command

txn  == <<work, stage, counted, copied>>
fate == <<wrote, since>>
vars == <<db, cmd, txn, fate>>

Stages    == {"", "counted", "copied", "checked"}
NoCommand == [from |-> 0, to |-> 0, end |-> "none"]

Running == cmd.end = "running"
Upward  == cmd.to > cmd.from
Due     == IF Upward THEN work.rev + 1 ELSE work.rev
Moves   == Running /\ Upward /\ Due \in {16, 22} /\ work.rev < cmd.to

-----------------------------------------------------------------------------
(* Archive rows and bars. *)

Spot        == {"EQ", "BE", "INDEX"}
Classes     == Spot \cup {"FUT"}
BarTables   == {Bars1min, Bars5min, BarsDaily}
BarsOf(c)   == {<<t, <<c, "regular">>>> : t \in BarTables} \cup {<<Bars5min, <<c, "pre">>>>}

\* 016 and 022 refuse what they cannot place; 022 looks at the types of candles_1min alone.
Strange(d, r) ==
  \/ r[1] \in {RawArchive, Responses} /\ r[2] \notin Rows(d, Endpoints)
  \/ r[1] = Bars1min /\ r[2][1] \in Spot \ {"EQ", "INDEX"}

Sources(revision) == IF revision = 16 THEN {RawArchive, Responses} ELSE BarTables
SourceRows(d, revision) == {r \in d.rows : r[1] \in Sources(revision)}

\* Where 022 routes a bar, if anywhere.
FactsOf(class) ==
  CASE class = "EQ"    -> {Market("fact_equity")}
    [] class = "INDEX" -> {Market("fact_index")}
    [] class = "FUT"   -> {Market("fact_futures")}
    [] OTHER           -> {}

\* 016 joins the endpoints; of the bars only candles_5min is asked for its session.
Routed(r) ==
  IF r[1] \notin BarTables THEN {<<Audit, r[2]>>} \cap ({Audit} \X Codes(DOMAIN VendorOf))
  ELSE {<<t, <<r[2][1], IF r[1] = Bars5min THEN r[2][2] ELSE "regular">>>>
          : t \in FactsOf(r[2][1])}

\* Down016: a row of the audit archive goes to one of the old archives, with its vendor's code
\* for a source, and stays in the audit archive as well.
SplitOf(r) == <<IF VendorOf[r[2][1]] = "upstox" THEN Responses ELSE RawArchive,
                <<VendorOf[r[2][1]]>>>>

Split(d) == [d EXCEPT !.rows = @ \cup {SplitOf(r) : r \in {q \in d.rows : q[1] = Audit}}]

-----------------------------------------------------------------------------
(* Commands. *)

Begin ==
  /\ ~Running
  /\ \E to \in Stops \ {db.rev} : cmd' = [from |-> db.rev, to |-> to, end |-> "running"]
  /\ work' = db
  /\ UNCHANGED <<db, stage, counted, copied, fate>>

Idle == work' = NoDb /\ stage' = "" /\ counted' = {} /\ copied' = {}

\* The transaction is rolled back.
RollBack(end) == cmd' = [cmd EXCEPT !.end = end] /\ Idle /\ UNCHANGED <<db, fate>>
Fail          == RollBack("failed")

\* One revision, but for the moves of 016 and 022.
Revise ==
  /\ Running /\ work.rev # cmd.to /\ ~(Moves /\ stage # "checked")
  /\ LET r    == Due
         done == Executed(work, IF Upward THEN Revision[r].up ELSE Revision[r].down)
         next == [(IF ~Upward /\ r = 16 THEN Split(done) ELSE done)
                    EXCEPT !.rev = IF Upward THEN r ELSE r - 1]
     IN  IF ~done.ok THEN Fail
         ELSE /\ work' = next
              /\ stage' = "" /\ counted' = {} /\ copied' = {}
              /\ UNCHANGED <<db, cmd, fate>>

\* The checks before the move, and the counts.
CountRows ==
  /\ Moves /\ stage = ""
  /\ IF \E r \in SourceRows(work, Due) : Strange(work, r) THEN Fail
     ELSE /\ stage' = "counted"
          /\ counted' = SourceRows(work, Due)
          /\ UNCHANGED <<db, work, cmd, copied, fate>>

\* 022 passes over a table that was empty when it was counted; 016 cannot insert a row_id that
\* the audit archive has already.
CopyRows ==
  /\ Moves /\ stage = "counted"
  /\ LET rows  == SourceRows(work, Due)
         clash == Due = 16 /\ rows # {} /\ Rows(work, Audit) # {}
     IN  \/ clash /\ Fail
         \/ /\ ~clash
            /\ \E passed \in SUBSET (IF Due = 22 THEN rows \ counted ELSE {}) :
                 copied' = UNION {Routed(r) : r \in rows \ passed}
            /\ work' = [work EXCEPT !.rows = @ \cup copied']
            /\ stage' = "copied"
            /\ UNCHANGED <<db, cmd, counted, fate>>

\* The parity gate compares the number of rows counted with the number copied.
NoGate == TRUE
Parity == (counted = {}) = (copied = {})

CheckCounts ==
  /\ Moves /\ stage = "copied"
  /\ IF Parity
     THEN stage' = "checked" /\ UNCHANGED <<db, work, cmd, counted, copied, fate>>
     ELSE Fail

Upto(n) == [since EXCEPT !.low = IF n < @ THEN n ELSE @, !.high = IF n > @ THEN n ELSE @]

Commit ==
  /\ Running /\ work.rev = cmd.to
  /\ db' = work
  /\ cmd' = [cmd EXCEPT !.end = "done"]
  /\ Idle
  /\ since' = IF wrote = {} THEN since ELSE Upto(work.rev)
  /\ UNCHANGED wrote

\* The command is interrupted, or its connection lost.
Interrupt ==
  /\ Running
  /\ RollBack("stopped")

-----------------------------------------------------------------------------
(* Collectors. *)

\* Writes to the archives, of a bar with its instrument, and of a legislator with a trade or term.
ArchiveWrites ==
  {{<<RawArchive, <<c>>>>} : c \in {"house_clerk", "senate_efd_ptr", "lda_probe", "unknown"}}
    \cup {{<<Responses, <<"upstox">>>>}}
    \cup {{<<Audit, <<c>>>>} : c \in SeededEndpoints012}

Underlying(c) == <<Ref("instruments"), <<IF c = "FUT" THEN "EQ" ELSE c>>>>
BarWrites     == UNION {{{Underlying(c), b} : b \in BarsOf(c)} : c \in Classes}

PoliticalWrites ==
  {{VanTaylor}, {VanTaylor, <<Political("legislator_terms"), <<"long party">>>>}}
    \cup {{VanTaylor, <<Trades, <<k>>>>}
            : k \in {"coded", "of two sources", "of no endpoint", "untyped"}}

\* What the schema of its time lets a collector write.
Writable(r) ==
  /\ r[1] \in db.tables
  /\ r[1] = Audit => db.rev >= 16
  /\ r[2] = <<"coded">> => db.rev >= 8
  /\ r[2] = <<"long party">> => db.rev >= 9
  /\ r[2] = <<"of two sources">> => db.rev >= 10
  /\ r[2] = <<"of no endpoint">> => db.rev < 23
  /\ r[2] = <<"untyped">> => db.rev >= 27

\* The transaction has altered t.
Shape(d, t)  == <<t \in d.tables, {p \in d.refs : p[1] = t}, {p \in d.indexes : p[1] = t}>>
Locked(t)    == Running /\ Shape(work, t) # Shape(db, t)

Write ==
  /\ wrote = {} /\ (Running => stage # "")
  /\ \E w \in ArchiveWrites \cup BarWrites \cup PoliticalWrites :
       /\ \A r \in w : Writable(r) /\ ~Locked(r[1])
       /\ wrote' = w
       /\ db' = [db EXCEPT !.rows = @ \cup w]
       /\ work' = IF Running THEN [work EXCEPT !.rows = @ \cup w] ELSE work
  /\ since' = [low |-> db.rev, high |-> db.rev, late |-> Running]
  /\ UNCHANGED <<cmd, stage, counted, copied>>

-----------------------------------------------------------------------------

Init ==
  /\ db = NoDb /\ work = NoDb
  /\ cmd = NoCommand
  /\ stage = "" /\ counted = {} /\ copied = {}
  /\ wrote = {}
  /\ since = [low |-> 0, high |-> 0, late |-> FALSE]

Next ==
  \/ Begin \/ Revise \/ CountRows \/ CopyRows \/ CheckCounts \/ Commit \/ Interrupt
  \/ Write

Spec == Init /\ [][Next]_vars

-----------------------------------------------------------------------------
(* Properties. *)

\* The foreign keys that the downgrade of 026 does not make again.
Dropped026 == {Ref("instruments")} \X DroppedColumns026

\* Whatever commands have run, a database at a revision has the schemas and tables of one
\* that was upgraded to it from nothing, and its foreign keys but those that 026 drops for
\* good; and at the head they are those of the metadata in storage/schemas.
SchemaFits ==
  LET fresh == Fresh(db.rev)
  IN  /\ db.schemas = fresh.schemas /\ db.tables = fresh.tables
      /\ db.refs \ Dropped026 = fresh.refs \ Dropped026
      /\ db.indexes \subseteq fresh.indexes
      /\ db.rev = HeadRevision => db.tables = MetadataTables /\ db.refs = MetadataRefs

Vendor(r) == IF r[2][1] \in DOMAIN VendorOf THEN VendorOf[r[2][1]] ELSE r[2][1]

\* The row w, as the revision has it.
Stored(w) ==
  \/ w \in db.rows
  \/ /\ w[1] \in {RawArchive, Responses, Audit}
     /\ \E r \in db.rows : r[1] \in {RawArchive, Responses, Audit} /\ Vendor(r) = Vendor(w)
  \/ w[1] \in BarTables /\ w[2][1] = "EQ" /\ <<Market("fact_equity"), w[2]>> \in db.rows
  \/ w[1] \in BarTables /\ w[2][1] = "INDEX" /\ <<Market("fact_index"), w[2]>> \in db.rows
  \/ w[1] \in BarTables /\ w[2][1] = "FUT" /\ <<Market("fact_futures"), w[2]>> \in db.rows

\* The table of w, or the one that 016 makes for it again, has been dropped by a downgrade.
Undone(w) ==
  LET t == IF w[1] = Audit THEN SplitOf(w)[1] ELSE w[1]
  IN  \A r \in since.low .. HeadRevision : t \in Fresh(r).tables => r > since.low

\* A row outlives every upgrade and downgrade: an archived response keeps its vendor, a bar
\* its class and session.  Three kinds of rows do not: those written while 016 or 022 runs,
\* those of a table whose revision is undone, and the probes that 017 purges.
RowsKept ==
  \A w \in wrote :
    \/ Stored(w)
    \/ since.late
    \/ Undone(w)
    \/ w[2] \in Codes(ProbeEndpoints) /\ since.high >= 17

\* docs/architecture/database.md:57: the schema is set up by `alembic upgrade head`.
SetupWorks == cmd.from = 0 /\ cmd.to = HeadRevision => cmd.end # "failed"

=============================================================================
