----------------------------- MODULE TargetWaves -----------------------------
(***************************************************************************)
(* What the waves of ClickHouse v2 do to the data: the schema files make    *)
(* the tables, the backfill files copy the legacy rows, file after file,    *)
(* and may be run again at any time.  A backfill validates before it        *)
(* starts.  Who may run a command when, and the journal, are left to        *)
(* MigrationRunner.                                                         *)
(*                                                                         *)
(* One statement of the backfill is followed, with one row of its legacy    *)
(* table and the row of reference data (an instrument, say) whose approved  *)
(* mapping it joins.  A version stands for a time, and for the contents of  *)
(* a row (its hash) written at that time.                                   *)
(***************************************************************************)
EXTENDS TargetTables, Integers, FiniteSets

CONSTANTS
  MaxTime,  \* bound on the events that a version tells apart
  Through   \* the waves that commands are given with --through-wave

WavesAssumption == MaxTime \in Nat /\ Through \subseteq 0 .. 9

VARIABLES
  made,    \* names of the tables there are
  lane,    \* the statement that is followed
  row,     \* its legacy row: when written (0: not yet), and its columns that may move
  ref,     \* when the reference row was written
  maps,    \* candidates and approved mappings of the reference row
  held,    \* rows in v2
  job,     \* the command that runs
  settled, \* history: through which wave a backfill has completed, nothing having changed
  now      \* the time

sources == <<row, ref, maps>>
vars    == <<made, lane, sources, held, job, settled, now>>

-----------------------------------------------------------------------------
(* Rows. *)

Moving == {"source_hash", "version", "raw_id", "ingested_at"}

\* What of r identifies it in the table t.
KeyIn(t, r) ==
  <<IF lane.free \cap t.key # {} THEN r.as ELSE 0, IF Moving \cap t.key # {} THEN r.at ELSE 0>>

Final(name) == {h \in held : h.in = name}

\* ReplacingMergeTree: of two rows with one key the newer stays, of equals the later.
Merged(h) ==
  IF Named(h.in).latest
  THEN IF \E g \in Final(h.in) : g.key = h.key /\ g.version > h.version THEN held
       ELSE {g \in held : g.in # h.in \/ g.key # h.key} \cup {h}
  ELSE held \cup {[h EXCEPT !.key = <<"copy", Cardinality(Final(h.in))>>]}

Entry(name, r, version) == [in |-> name, key |-> KeyIn(Named(name), r), version |-> version, at |-> r.at]

Newest(a, b) == IF a > b THEN a ELSE b

Approved == {m \in maps : m.ok}
Joined   == CASE lane.match = "none" -> {[of |-> 0, at |-> 0, ok |-> TRUE]}
              [] lane.match = "key"  -> Approved
              [] OTHER               -> {m \in Approved : m.of = ref}

\* The row of the target that the statement's LEFT JOIN finds: its version and contents.
Found ==
  LET rows == {h \in Final(lane.into) :
                 ~Named(lane.into).latest \/ h.key = KeyIn(Named(lane.into), row)}
  IN  IF rows = {} THEN [version |-> 0, at |-> 0]
      ELSE LET h == CHOOSE h \in rows : TRUE IN [version |-> h.version, at |-> h.at]

VersionOf(m) ==
  CASE lane.admit = "newest" -> Newest(row.at, m.at)
    [] lane.admit = "hash"   -> Newest(row.at, Found.version + 1)
    [] OTHER                 -> row.at

Unguarded(m) == TRUE
Admitted(m) ==
  \/ Found.at = 0
  \/ lane.admit \in {"version", "newest"} /\ VersionOf(m) > Found.version
  \/ lane.admit = "hash" /\ Found.at # row.at
  \/ lane.admit = "all"

\* The statement: of the rows it selects the one of the highest version will be the last.
Selected == IF row.at = 0 THEN {} ELSE {m \in Joined : Admitted(m)}

Inserted ==
  IF Selected = {} THEN held
  ELSE LET m == CHOOSE m \in Selected : \A n \in Selected : VersionOf(n) <= VersionOf(m)
       IN  Merged(Entry(lane.into, row, VersionOf(m)))

Copied ==
  LET targets == {c \in Copies : c[1] = lane.into}
      copy(h, c) == [h EXCEPT !.in = c[2]]
  IN  IF \E c \in targets : \E h \in Final(c[1]) : TRUE
      THEN LET c == CHOOSE c \in targets : TRUE
               new == {copy(h, c) : h \in Final(c[1])}
           IN  {g \in held : g.in # c[2] \/ \A h \in new : g.key # h.key \/ g.version > h.version}
               \cup {h \in new : \A g \in Final(c[2]) : g.key # h.key \/ g.version <= h.version}
      ELSE held

-----------------------------------------------------------------------------
(* Legacy writers, the resolver and its reviewer. *)

Tick == now' = now + 1 /\ now < MaxTime

\* Something changed: a backfill has not been repeated since.  (What comes between two schema
\* files might as well come before them.)
Changed ==
  /\ job.pc = "run" => job.phase = "backfill"
  /\ settled' = 0 /\ job' = [job EXCEPT !.quiet = FALSE]

Self == lane.refs = {lane.from}

\* Archived responses are never rewritten; a new hash needs a new mapping.
WriteRow ==
  /\ Tick /\ Changed
  /\ row.at = 0 \/ lane.from # "raw_http_archive"
  /\ (Self \/ lane.refs = {} \/ ref > 0)
  /\ \E as \in {row.as} \cup {other \in 1 .. 2 : lane.free # {}} : row' = [at |-> now + 1, as |-> as]
  /\ ref' = IF Self THEN now + 1 ELSE ref
  /\ UNCHANGED <<made, lane, maps, held>>

WriteReference ==
  /\ Tick /\ Changed
  /\ lane.refs # {} /\ ~Self
  /\ ref' = now + 1
  /\ UNCHANGED <<made, lane, row, maps, held>>

\* stage_candidates: a candidate for a hash that has none; of codes and sources the row itself.
StagedRows == {"ref.currencies", "ref.countries", "ref.exchanges", "ref.sources"}

Stage ==
  /\ Changed
  /\ Crosswalk \cup Enrichment \cup {"ref.sources"} \subseteq made
  /\ ref > 0 /\ \A m \in maps : m.of # ref
  /\ maps' = maps \cup {[of |-> ref, at |-> now, ok |-> FALSE]}
  /\ held' = IF lane.into \in StagedRows /\ Final(lane.into) = {} /\ row.at > 0
             THEN Merged(Entry(lane.into, row, row.at)) ELSE held
  /\ UNCHANGED <<made, lane, row, ref, now>>

\* approve_candidates: whatever is staged.
Approve ==
  /\ Tick /\ Changed
  /\ \E m \in maps : ~m.ok
  /\ maps' = {IF m.ok THEN m ELSE [m EXCEPT !.ok = TRUE, !.at = now + 1] : m \in maps}
  /\ UNCHANGED <<made, lane, row, ref, held>>

-----------------------------------------------------------------------------
(* Commands. *)

Idle == [pc |-> "idle", phase |-> "schema", through |-> 0, file |-> 1, quiet |-> FALSE]

\* The validations of the waves up to w, each a query that finds violations.  Those on what v2
\* holds already, such as periods that overlap, only ever keep a command from starting.
NoUnapproved == \A m \in maps : m.ok

Wave01Current ==
  lane.refs \cap {"ref_instruments", "ref_contracts", "alt_political_legislators",
                  "ref_countries", "ref_exchanges"} # {}
    => ref = 0 \/ \E m \in Approved : m.of = ref

Wave04Current ==
  lane.refs \cap {"alt_political_trades", "alt_political_house_filings",
                  "alt_political_committees"} # {}
    => ref = 0 \/ \E m \in Approved : m.of = ref

NoStaleCheck(w) == NoUnapproved

Valid(w) ==
  /\ NoUnapproved
  /\ w >= 1 => Wave01Current
  /\ w >= 4 => Wave04Current

\* The tables they read: one that is missing is a violation too.
Validated(w) ==
  Names(Wave00)
    \cup (IF w >= 1 THEN Reference \cup {"ref.currencies", "ref.contracts", "ref.entities"} ELSE {})
    \cup (IF w >= 4 THEN {"alt.political_trades", "alt.political_committee_memberships"} ELSE {})

FilesOf(phase) == CASE phase = "schema"   -> SchemaFiles
                    [] phase = "backfill" -> BackfillFiles
                    [] OTHER              -> RbacFiles

Applied(i) == Names(SchemaFiles[i].creates) \subseteq made

\* apply: the validations come first; a schema file that was applied is skipped.
Begin ==
  /\ job.pc = "idle"
  /\ \E phase \in {"schema", "backfill", "rbac"}, through \in Through :
       /\ phase = "schema" => \E i \in DOMAIN SchemaFiles : SchemaFiles[i].wave <= through /\ ~Applied(i)
       /\ phase = "backfill" => Validated(through) \subseteq made /\ Valid(through)
       /\ job' = [Idle EXCEPT !.pc = "run", !.phase = phase, !.through = through, !.quiet = TRUE]
  /\ UNCHANGED <<made, lane, sources, held, settled, now>>

Files   == FilesOf(job.phase)
Ended   == job.file \in DOMAIN Files => Files[job.file].wave > job.through
Current == Files[job.file]
Going(phase) == job.pc = "run" /\ job.phase = phase /\ ~Ended
Proceed == job' = [job EXCEPT !.file = @ + 1]

SchemaFile ==
  /\ Going("schema")
  /\ Current.needs \subseteq made
  /\ made' = made \cup Names(Current.creates)
  /\ Proceed
  /\ UNCHANGED <<lane, sources, held, settled, now>>

Needed == Current.joins \cup {s.into : s \in Current.statements}

BackfillFile ==
  /\ Going("backfill")
  /\ Needed \subseteq made
  /\ held' = IF lane \in Current.statements THEN Inserted
             ELSE IF Current.wave = 9 THEN Copied ELSE held
  /\ Proceed
  /\ UNCHANGED <<made, lane, sources, settled, now>>

RbacFile ==
  /\ Going("rbac")
  /\ "meta.schema_migrations" \in made
  /\ Proceed
  /\ UNCHANGED <<made, lane, sources, held, settled, now>>

Complete ==
  /\ job.pc = "run" /\ Ended
  /\ job' = Idle
  /\ settled' = IF job.phase = "backfill" /\ job.quiet THEN Newest(settled, job.through) ELSE settled
  /\ UNCHANGED <<made, lane, sources, held, now>>

\* A table is missing, a statement fails, or the process is killed.
Abort ==
  /\ job.pc = "run"
  /\ job' = Idle
  /\ UNCHANGED <<made, lane, sources, held, settled, now>>

-----------------------------------------------------------------------------

Init ==
  /\ made = {}
  /\ lane \in Loads
  /\ row = [at |-> 0, as |-> 1] /\ ref = 0 /\ maps = {}
  /\ held = {}
  /\ job = Idle
  /\ settled = 0 /\ now = 0

Next ==
  \/ WriteRow \/ WriteReference \/ Stage \/ Approve
  \/ Begin \/ SchemaFile \/ BackfillFile \/ RbacFile \/ Complete \/ Abort

Spec == Init /\ [][Next]_vars

-----------------------------------------------------------------------------
(* Properties. *)

\* Columns that do not come from the legacy row, or never change.
Fixed == {"ref.currencies", "ref.sources", "raw.archive"}

Reaches(s) == {s.into} \cup (IF settled >= 9 THEN {c[2] : c \in {c \in Copies : c[1] = s.into}} ELSE {})

\* docs/operations/clickhouse-v2-data-completion.md:96 "reruns compare source hashes and
\* versions": a backfill whose validations passed, and during which nothing was written or
\* approved, has left no row behind, whatever was aborted or written before it; and no legacy
\* row is there twice, unless it changed a column of the key.  The schema files before it find
\* every table that they alter or that a view of theirs reads.
BackfillComplete ==
  /\ Going("schema") => Current.needs \subseteq made
  /\ settled >= Wave(lane) /\ row.at > 0 =>
       \A name \in Reaches(lane) :
         \E h \in Final(name) : h.at = row.at \/ lane.into \in Fixed
  /\ \A name \in {lane.into} \cup {c[2] : c \in Copies} :
       lane.free \cap Named(name).key = {} => Cardinality(Final(name)) <= 1

\* docs/operations/clickhouse-v2-data-completion.md:87 "rerun the backfill to verify logical
\* idempotency": repeating a backfill that has settled changes no row.
RerunSettles == [][Going("backfill") /\ Current.wave <= settled /\ job' # Idle => held' = held]_vars

=============================================================================
