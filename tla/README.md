# TLA+ models of FactorLab

FactorLab collects market and political data into ClickHouse (and, in its older half,
Postgres) and serves it over a read-only API. Most of the repository is fetching,
normalising and showing data; what this directory models are the parts in which an
unlucky order of events can lose data, hide it, or break a host.

| part | code | module | proofs |
|---|---|---|---|
| recovery of US candle series | `scripts/factlab_us_clickhouse.py`, `storage/v2_us.py`, `sources/schwab/market.py` | `UsRecovery` | `UsRecoveryProofs` |
| runner of the ClickHouse v2 migrations | `scripts/migrate_clickhouse_v2.py`, `sql/clickhouse/v2/wave_00_schema.sql` | `MigrationRunner`, abstract `MigrationLog` | `MigrationsProofs` |
| what the waves of v2 create and copy | `sql/clickhouse/v2/*.sql`, `scripts/stage_...`, `approve_...` | `TargetTables`, `TargetWaves` | `MigrationsProofs` |
| Alembic chain of the legacy Postgres | `migrations/versions/*.py`, `migrations/env.py`, `storage/schemas/*.py` | `LegacyRevisions`, `LegacyMetadata`, `LegacyMigrations` | |
| the nightly political job (v2) | `scripts/factlab_political_bootstrap.py`, `sources/political/house_clerk.py`, `storage/v2_political.py` | `PoliticalIngest` | `WarehouseJobsProofs` |
| IBKR portfolio snapshot | `us_portfolio_ibkr_snapshot.py`, `sources/ibkr/`, `shared/ingest/provider.py` | `BrokerSnapshot` | `WarehouseJobsProofs` |
| releases and rollbacks of the host | `deploy/scripts/*.sh` | `ReleaseDeploy` | `CutoverProofs` |
| review of political corrections, wave 4 backfill | `scripts/stage_...`, `resolve_...`, `approve_...`, `wave_04_*.sql` | `CorrectionReview` | `CutoverProofs` |
| exchange of the operational tables | `scripts/cutover_clickhouse_v2.py`, wave 9 | `TableCutover` | `CutoverProofs` |
| lock of the orchestrators | `shared/runtime/lock.py` | `RunLock` | `PoliticalDailyProofs` |
| legacy political orchestrator, House Clerk backfill | `scripts/us/political/us_political_daily.py`, `shared/runtime/state.py`, `shared/ingest/state.py`, `house_clerk/ingest.py` | `PoliticalDaily` (extends `RunLock`) | `PoliticalDailyProofs` |
| India minute collector | `scripts/factlab_india_clickhouse_5min.py`, `upstox/candles.py` | `IndiaCollector` | `CollectorsProofs` |
| which series are collected | `factlab_us_universe.py`, `factlab_india_clickhouse_premarket.py`, `storage/v2_reference.py`, `v2_us.py`, `v2_india.py` | `UsUniverse`, `IndiaUniverse` over `MarketReference` | `CollectorsProofs` |
| Congress.gov passes | `congress_gov/ingest.py` | `BillPasses` | `ProviderClientsProofs` |
| FEC stages | `fec/ingest.py` | `FecPasses` | `ProviderClientsProofs` |
| lobbying disclosures | `lda/ingest.py` | `LdaPass` | `ProviderClientsProofs` |
| HTTP client, key pools | `shared/ingest/http.py`, `fec/client.py`, `congress_gov/client.py`, `lda/client.py` | `ApiClient` | `ProviderClientsProofs` |
| the Schwab token's way to the collectors | the two Cloudflare workers, `scripts/cloudflare_secrets_agent.py` | `BrokerTokens` | `ProviderClientsProofs` |
| data catalog of the API | `api/catalog.py`, `api/hub.py`, `api/schema_map.py` | `CatalogService` | `ReadApiProofs` |
| lists of the API, page by page | `api/india.py`, `us.py`, `political.py`, `india_hub.py`, `*_observability.py` | `ReadPages` | `ReadApiProofs` |
| pages that judge a session | the same, `api/hub.py` | `ReadStatus` | `ReadApiProofs` |

Six modules put components side by side: `WarehouseJobs`, `Migrations`, `Cutover`,
`Collectors`, `ProviderClients` and `ReadApi`. The components they join are separate processes that
write disjoint state, so that an interleaving of two of them shows nothing that each does
not show alone; the composition chooses one component at the start and the others rest.
Its state space is the sum of theirs and not the product, and each property is the one of
the component's module, or the conjunction of those of several. What does interact is
modelled in one module: the orchestrator extends the lock it takes and holds the state
file of its sources, the agent and the two workers are one module, the migration log is
refined by the runner, the collector of a market and those who decide what it collects
share the rows of `MarketReference`, overlapping invocations of one script are processes
of one module.

A run is a module with a `.cfg`: an `MC...` module, or the component itself where it needs
no definition of its own (`warehouse`, `clients`, `release_marked`, `bills_listed`, `lda_reruns`). `PROJECT.json` lists the runs, the
hazards with their lines, the line range behind every definition, a mutation of the code
for every checked property, the findings and the theorems.

    tlc -workers 2 -config MCUsRecovery.cfg MCUsRecovery     # a run
    tlapm UsRecoveryProofs.tla                               # a proof module

## The system

* **US collector** (one process, `flock` in `main`). State: the rows of `market.bars`,
  `meta.session_coverage` and `meta.recovery_state` per series; in memory the daily and
  the minute queue, retry times, the daily target and the ranking week. Operations:
  `collect` (fetch, write bars, record coverage, save state), queueing, live polling.
  Correct when no missing session is forgotten and everything heals.
* **US universe resolver.** Validates the constituents of indexes, writes their reference
  rows and publishes the expected series, which the US collector polls and from which it
  ranks and prunes its minute tier. Two writers of one list without a lock. Correct when
  the list is one universe as a whole and names only what can be stored.
* **India collector and universe.** Configures a universe once a day from the day's
  instrument master, while a job before the session writes references in the same tables;
  recovers from the last bar of each series, polls every minute or five with one Upstox
  session. Correct when what is active is what is polled and can be stored, and a hole has
  a cause that recovery could do nothing about.
* **Migration runner.** State: a lock table in ClickHouse, the journal
  `meta.schema_migrations`, `meta.migration_runs`, and the schema itself. Several
  operators may start it; ClickHouse has no transactions around the statements.
  Correct when one runner works at a time, waves are applied in order and the journal
  is true. The **waves** copy legacy rows that are still being written and that join
  mappings under review. Correct when a backfill that completed left nothing behind.
* **Legacy Postgres.** 28 Alembic revisions in both directions, two of which move rows
  while collectors go on writing. Correct when every path ends in the schema of its
  revision and loses no row it does not announce.
* **Political job (v2).** A cron container under `flock`. State: `alt.political_filings`,
  `alt.political_trades`, `meta.ingestion_runs`. Correct when counts are backed by rows,
  each trade is stored and `success` means complete.
* **IBKR snapshot.** A daemon with slots per session, two Gateways, four data sets, a lock
  file. Fills are asked for over a day back and lost afterwards. Correct when a fill is
  lost only where the schedule, not a run that called itself successful, lost it.
* **Correction review, backfill and table cutover.** Commands of the move to v2: stage
  and approve corrections by content hash, load them, exchange three tables. Correct when
  a loaded fact keeps its decision and no exchange hides a row.
* **Release scripts.** State: the live bundle, containers, release records, the
  `v2-cutover-activated` marker, the cron entry, `current-release`. Run by a workflow or
  an operator, under `flock`, killed at any point. Correct when legacy writers never come
  back after the v2 activation and a rollback restores what was there.
* **Legacy political orchestrator and its sources.** A lock file, a run-state file with
  cooldowns and deferrals, per source state files of units that are done, next to
  batched Postgres writes. Correct when marks never run ahead of the tables.
* **HTTP clients.** Disk cache, retries, pools of keys. Correct when a deferral is due
  and a cached answer is as recent as its time to live promises.
* **Broker auth workers and secrets agent.** Token records in a key-value store,
  refreshed on read, rendered into two files on the host. Correct when a ready token is
  usable, a login is kept, and the collectors get a token again after any failure.
* **API.** Threads that share three expiring answers under nested locks and a few query
  slots; lists that clients read page by page; pages that judge a market session from
  several queries and a clock. Correct when shared answers are recent, computed once, and
  nobody waits for ever; when a walk over a list that is being written misses nothing that
  stays; when a page does not report a lack that is none.
* **The rest:** shared libraries (run status, watermarks, notification dedup, pacing),
  the web UI, EDGAR and identity scripts.

Interactions: the collectors and the jobs write through the storage classes into tables
the migration runner creates; the release scripts start and stop all of them; the agent
hands them passwords and tokens; the resolver hands the US collector its universe; cron
starts the political jobs, and the release scripts install cron; the orchestrator calls
its sources in turn and the sources call the HTTP clients.

The hard behaviours: several durable writes in a row without a transaction, with a
crash, an error or another process between two of them; state that is only in memory and
rebuilt from the store after a restart; marks in a file about rows in a database; locks
that expire, are stolen or are not checked when released; values read before a lock is
taken; two fields written one after the other and read without a lock; rows replaced by
versions of themselves; scripts killed half way whose leftovers the next run takes for
the normal state. `PROJECT.json` lists them line by line, with the properties that would
notice.

## UsRecovery

One series, `resolution` "daily" or "1min". Sessions are named by their **age** in
trading sessions, so that time can go on for ever on a finite state space: `NextDay`
shifts every per-session table by one. `Retention` stands for the 60-day minute window
and the depth of daily history, `Week` for the seven days of the checkpoint overlap and
of the full refresh. The age of the last full refresh counts midnights, the code compares
instants: on the day on which seven days are over the refresh falls due at any time of
that day, or only after its collects (`RefreshFallsDue`).

| model | code |
|---|---|
| `bars`, `cov`, `st` | `market.bars`, `meta.session_coverage`, `meta.recovery_state` |
| `st.hist/avail/checked/refreshed/err` | `history_complete`, `available_from`, `checked_through`, age of `full_refreshed_at`, class of `error` |
| `q`, `targeted` | membership in `pending`/`minute_pending` with `retry_at`; `daily_target`/`ranked_week` |
| `FetchAndWrite`, `RecordCoverage`, `SaveState` | the three durable writes of `collect` |
| `FetchFails`, `WriteFails`, `Crash` | its `except` branch (which may fail too), a restart |
| `EnqueueDaily`, `RankMinuteTier`, `MembershipChanges`, `RetryDue` | the queue code of `run_full` |
| `provider`, `Publish`, `BecomeCalm` | Schwab: a session is late, has invalid candles, or is good |

Abstractions: a session's bars are all there or not; `last_bar` is left out (it only
shortens a live poll); an error text is its class; a collect runs inside one phase of
the day, because the code uses the time read before it. The provider's history does not
shrink. `calm` counts days since the last fault and is capped by `CalmCap`.

Run `us_recovery` (Retention 5, Week 1: six session ages) checks

* `DailyNoSilentLoss`: a missing daily session since `available_from` is reported by the
  state or asked for by the next recovery;
* `CheckpointCovered`: the checkpoint does not pass a session without coverage row;
* `DailyHeals`: after the days of a fault-free week and two more, every completed session
  the provider has is stored. Of the two days one starts the calm; the other is for a
  refresh late on that day, which is not due early on the seventh day after it. With one
  day less TLC finds a hole that is still open. A hole must lie outside the overlap,
  with its gap masked by an invalid-candle note, when the calm week begins, and still be
  in the window when it ends, so that only the weekly full refresh can have repaired it:
  four calm days with a week of one, in a window of five. The property is bounded response
  stated as an invariant over `calm`; what it assumes is written into the guards: on a
  calm day every call works and the loop, which collects a queued series each second,
  has drained its queue by midnight. The theorem holds for every week and window.

To stay finite in minutes the run follows histories in which few sessions are in trouble
(`FewInTrouble`): at most one past session that the provider answers badly, at most one
that is missing (or stored, in a store that has none), and likewise for the rows of the
coverage record. Of the minute series, of which
the three properties say nothing, it follows only enough to fire every action: the
provider answers well and all or none of the past is stored. All three invariants are
theorems, for all histories, windows and weeks.

Run `us_minute_gap` is a counterexample to what the documentation says of the minute
series (see Findings).

## Migrations: MigrationRunner, TargetWaves, LegacyMigrations

**MigrationRunner and MigrationLog.** Every ClickHouse command of `command_apply`,
`migration_lock` and `execute_migration` is a step; runners interleave between commands.
The lock table is absent, empty, fresh or stale (older than the timeout, whether or not
its run still goes). `holder`, `stolen` and `ran` are history variables: who created the
lock table, whether a takeover dropped the lock of a live run, which statements of which
version were executed. Schema waves are `0 .. SchemaLast`, wave 0 creates the journal
table and then the runs table, `views` files count as schema as in `discover_migrations`;
backfill waves start at 1 and are always run again. A backfill starts only when the
validation queries could find the tables of wave 0. At most one file is edited during a
behaviour. `MaxFaults` bounds failed commands, deaths and server restarts together.

`MigrationLog` is what a forward-only runner promises: statements of a migration in the
order of its file, none before the earlier migrations are complete, nothing taken back,
"succeeded" recorded only when complete. `ImplementsLog` is its specification under the
mapping that forgets versions, locks and runs; it is checked as a property of the run
and proved (`Refines`), and holds with the lock stolen as well as without.

**TargetTables and TargetWaves.** `TargetTables` is the data of the SQL files: each table
of v2 with its sorting key and whether it keeps the newest version, each schema file with
what it creates and needs, each statement of a backfill with what it reads, joins,
compares and writes. `TargetWaves` follows one legacy row, its reference row and their
mappings through one statement (`lane`, chosen at the start among all of them) while
legacy writers, the stager and the reviewer go on and commands start, stop and are
repeated. ReplacingMergeTree is `Merged`: of the rows with one key the newest version
stays, of equal versions the last inserted. Columns of a key that are derived from contents
are `free`: a rewritten row may be copied under the key it had or under another, as the
periods of committee memberships are, which begin where role, status or rank change
(`wave_04_backfill.sql:119-206`). `settled` is history: through which wave the
last completed backfill went, with no write since. `BackfillComplete` and `RerunSettles` are
checked for three events and proved for any number; they hold only until v2 has writers of
its own (see "Known behaviours"). `BackfillComplete` lets a second copy of one legacy row
stand where the row has moved to another key.

**LegacyRevisions, LegacyMetadata, LegacyMigrations.** A revision is a sequence of
statements on tables, foreign keys, indexes, constraints and seeds, executed by a fold;
a command runs its revisions in one transaction. 016 and 022 count, copy and compare in
steps of their own, and a collector may commit between them. `SchemaFits` compares the
result of any path of commands with a fresh upgrade and, at the head, with the metadata in
`storage/schemas`; `RowsKept` follows one row.

Run `migrations`: two symmetric runners, two schema waves, two statements a file, one
fault; three events around a statement, commands to wave 4 or 9; Alembic commands to the
first and the last revision and to those around the revisions that move rows (`Stops`).
It checks `MutualExclusion` (at most one runner inside as long as no lock was taken from a
live one), `SucceededApplied` (the journal's "succeeded" is true even when locks were
stolen), `OneVersion` (the drift guard: statements executed for a wave come from one
version of its file; wave 0 runs before there is a journal to compare with),
`ImplementsLog`, `BackfillComplete`, `RerunSettles`, `SchemaFits` and `RowsKept`. One fault
is enough for each failure to meet each interleaving of two runs; three events are enough
for a write, its approval and a rewrite around two backfills. The second fault matters for
retries and the backfill phase of the runner for its gate: both are in run `warehouse`, with
one runner. The theorems about the three modules hold for all of these numbers.
`setup_works` is a counterexample (see Findings).

## WarehouseJobs: PoliticalIngest, BrokerSnapshot, the runner with retries

**PoliticalIngest.** Filings are numbered by filing date; the first `OldYear` belong to
year 1. `pdf[f]` is what the parser makes of the document (unreadable, or a number of
trades), `count[f]` the `trade_count` of the filing's current row, `rows[f]` the stored
versions of its trades (with or without a resolved entity, which is part of the table's
sort key), `status` the last `meta.ingestion_runs` row. The actions follow `main` and
`_run_ingestion`: start, index, `write_house_filings` (all counts to zero), then per
selected filing parse, write trades, write count; any step may fail or die. The reference
snapshot is part of `StartRun`: it changes nothing the properties see, except that it may
fail. `CountBacked`, `SuccessIsComplete`, and liveness, the first half of
`JobsSettle`: a filing that stays among the newest `Limit` readable ones is complete again and again (again and again,
because each run resets its count first). Filings out of reach are not promised anything:
more new filings in a day than the limit, an unreadable document above them or the turn of
the year put them there.

**BrokerSnapshot.** Time goes by in ticks of a day; a run is over within its tick. One fill
of one Gateway is followed: its age grows, each data set may fail by itself,
a run is `success`, `partial` or `failed`, the daemon sleeps, skips days without a session
and meets the lock file that a killed daemon left. `LossHasACause`: a fill is lost only
over a day without a session, or after a slot that had no successful run; a run that calls
itself successful has stored the fills of every Gateway. The documentation promises more
(see "Known behaviours").

Run `warehouse`: three filings, one in the old year, limit one, at most one trade, so that
filings leave the selection by newer ones and by the year's end; ticks of six hours with
the daemon's two slots, a look-back of a day, a lock that is stale after two ticks, at most
one closed day in a row; one runner with two faults, of whom the second half of
`JobsSettle` says that the schema is completed or he ends up in one of the two states `Wedged` names: a first run
stopped inside wave 0 leaves the journal without the runs table, into which every later
run begins by writing; or a file was edited.

Fairness: cron starts the political job daily and a job whose container lives goes on
(`WF(Job)`); from some point on there are no more crashes and only unreadable documents
fail. For the runner `WF(Proceed)` because a live process goes on; `SF(StartAll)` because
the operator or the deploy workflow starts the schema phase again whenever no run is
going; `WF(LockAges)` is the passage of time; `SF(ClearLock)` is the "inspect it manually"
of the error message: without it an ownerless lock refuses all runs for ever. The snapshot
needs none.

## Cutover: ReleaseDeploy, CorrectionReview, TableCutover

**ReleaseDeploy.** `script[p]` is an invocation of either script, with the flags it read
before taking the lock; `live` the bundle in `/opt/factorlab/deploy`; `running[s]` the
image of a service; `record[r]` what `releases/r` saved; `marker`, `cron` and `current`
the three files; `checked` a history variable: the v2 write check has passed. Each
command that changes the host is a step; `StepFails` leads to `on_error`, `Killed` to an
idle invocation with everything left as it was, the container being recreated perhaps
gone. `Restore` is `rollback()` and `rollback-release.sh`, which share their steps; where
they differ a guard asks which script it is (`by`). `Pause` is the operator who stops
legacy collection before the first activation; it is possible whenever the marker is
missing. Left out: the IBKR services (optional), the one-shot `bootstrap` container (it
may fail like the step it stands before), the pinned environment file (image and bundle
have the same name in the model), failures of `rm`/`cp` inside `rollback()`, whose
`set +e` goes on, other than by being killed there.

**CorrectionReview.** A revision of a row stands for its content hash; `crosswalk` and
`review` are the two tables of candidates and approvals, keyed by row and revision.
Every command holds the migration lock and its effect depends on nothing that changes
meanwhile, so it is one action; an insert goes out in blocks of 5000 and may stop at any
of them (`Written`). The backfill validates in two steps before it takes the lock and
loads in two statements after. A legacy writer may rewrite a row at any time. Left out:
theft of the lock (in `MigrationRunner`), the hash rewrites of legislators and
committees, and the PDF matching itself, which is the set `matched`.

**TableCutover.** Writes to a table are counted, a copy holds the writes up to its
number. The script reads layouts, compares, exchanges one table per statement and reads
the layouts again; invocations overlap and die. A second invocation that runs beside the
first may exchange a table back; the rows are then still under the public name, but not
the canonical key, and the script's own confirmation notices a mixed layout.

Run `cutover` checks `NoLegacyWriter`, `CronAfterWrites`, `CurrentVerified`,
`RestoredIsPrevious` (two invocations, two releases after a legacy stack without
`universe-us`, symmetric: two invocations are enough to overlap before the lock, two
releases for one to record the leftovers of another; record and rollback of a third
repeat the second), `FactKept` and `SuccessIsLoaded` (one trade, one filing, three
revisions of the trade, so that two can be approved together before the third; the
constraint `ThirdLate` lets the third come when the filing has been approved and no
canonical ID of the second is left staged), and
`ExchangeHidesNothing` (two tables, written twice, two invocations). `release_marked` is
a counterexample (see Findings).

## Collectors: RunLock, PoliticalDaily, IndiaCollector, UsUniverse, IndiaUniverse

**RunLock** has the file test, the truncating open, the write and the unlink as separate
steps. `raced` and `overran` are history: two processes were between test and write at
once, a run outlived `stale_seconds`. `OneRun`, mutual exclusion unless one of the two
happened, is what the lock can promise.

**PoliticalDaily** runs under it: load the run state, call each eligible source, save the
state once at the end (a weekly run saves twice and reloads between). `asked` is the
history of what servers asked for, `forgot` the deferrals that died unsaved. The House
Clerk source is modelled inside: newest filing first, trades in batches, the done set
replaced by the process's own copy, dry runs that mark too. `CooldownKept`: a source that
asked to be left alone is not called before, unless runs overlapped or the deferral died
with its run. `DoneIsStored` and `MarksKept`: a filing marked done is stored (except by a
dry run) and a mark is never lost, while runs do not overlap.

**IndiaCollector** follows one series through configuration, recovery in windows, polls
and sleeps. Recovery starts at the last stored bar of the series: a hole behind it is
never asked for again. `HolesExplained` says which holes there can be: sessions the
provider had nothing for, or sessions hidden by a poll on a date that ended without a
completed recovery; and that after a completed recovery nothing else is missing. Crashes,
failed windows, failed refreshes and holidays make no hole by themselves.

**MarketReference** is what `upsert_listing` leaves in the four reference tables, row by
row, and whether a bar of the listing can be written then. **UsUniverse**: several calls
of `sync_once` (resolve, write references, activate, deactivate), and the collector's
poll, prune and weekly ranking. **IndiaUniverse**: the collector's configuration on every
date (equities, futures, activation, failure at each insert) and the job before the
session. `SeriesKept` joins their invariants: the published list is one universe as a
whole unless two resolvers published into each other, what is active can be stored, the
minute tier follows the list; what is active is what the daemon polls, and it can be
stored. Assumed: a record's version and its insert are one step, and no load of an
instrument master lasts from one date to the next.

Run `collectors`: two orchestrators, one plain source a day and one a week beside the
House Clerk, two filings, one without trades; four session ages with windows of one
session, so that a recovery of three windows can be interrupted between any two; three
symbols, one on an exchange nobody knows, a tier of one, two futures of one symbol.
The constraint `Focus`: once two orchestrators have overlapped it follows only what the
done set can still show (daily runs up to the first source that succeeds, no deferral),
among the India sessions kept at most one is short or lapsed, the tier of the US
collector rests while two resolvers are at work, and the second begins when the series of
the former provider have been retired. Symmetric in the processes.

## ProviderClients: BillPasses, FecPasses, LdaPass, ApiClient, BrokerTokens

**BillPasses.** `marks` are the state files, `run.buf` the batch in memory, `run.done`
what is marked in memory. A unit is done once it is answered, whether the converters make
something of the answer or not (`Fetch`), and a hearing listed without jacket number or
chamber is passed over (`PassOver`); an entry of the bill list without congress, type or
number has no `bill_uid` and is no bill here. `wanting` names the units of which this was so the
last time. A run may break between any two writes; `dropped`, `torn` and
`dried` record which bills a break or a dry run cost, so that the properties can say that
nothing else does. `BillsKept`: a list marked done has its bills, and a bill whose policy
area is stored has the sponsor that its answer named. The loss of the primary sponsors
of a torn batch is real: pass B never comes back to these bills. `bills_listed` is a
counterexample (see Findings).

**FecPasses.** The stages with their buffers of donations (`buf`), committees to be
written first (`rich`, `stubs`) and flushes of the state file in the middle. A donation
takes its recipient's key from one field and the committee's row from a nested object that
may be missing (`flat`); a row without `sub_id` is passed over (`SkipRow`).
`BatchAdmissible`: every buffered donation but a flat one finds its recipient stored or
among the committees to be written before it, and each finds its donor so, whichever write
failed before; the foreign keys hold of what is stored. For a flat donation whose recipient
is unknown they refuse the batch (`DonationsRefused`, see "Known behaviours").
`DoneIsStored`: what a state file calls done is stored, as far as its last answer made a
row, except what died in memory between the flush of the mark and the flush of the rows
(`orphaned`, `unlisted`); it also states the marks of the Congress.gov passes.

**LdaPass.** Tables are counted in copies, since an activity gets a random key each time
it is read. `ParentsFirst`, part of `BatchAdmissible`, is about the keys from activities to
filings and from targets and lobbyists to activities; those to `lda_issue_codes` and
`lda_government_entities`, which revision 008 seeds and no collector writes, are not
modelled. Its liveness `LobbyingStored` is part of `ClientsRecover`, with that of the
hearings of Congress (`HearingsStored`: each is stored again and again but for those of a
dry run and those `wanting`); `lda_reruns` is a counterexample.

**ApiClient.** One fetch after the other: cache by age, retries, 429, the next key, the
pool's wait and its second cycle. Other processes use up keys (`Spend`), the provider
replaces pages (`Revise`), a crash tears the page being written. `DeferralIsDue`: a
source is deferred only after the wait and with every key refused since.
`AnswerIsRecent`: a page of the active period is never answered with a copy replaced
longer ago than its time to live.

**BrokerTokens.** A moment of expiry is held as the time left until it. A request the
agent gave up on may still run to its put (`late`). `TokensKept` has three parts:
`ReadyIsUsable` (what `token_ready` vouches for can be used), `LoginKept` (a login is not
undone by an older one, unless it fell between a request's read and its put) and
`HeldWhenCalm`; its liveness, that the collectors get a token again, is the rest of
`ClientsRecover`.

Run `clients`: two bills, one hearing, one break, dry runs; two PACs and a campaign
committee with batches of two; two lobbying filings; three keys; a token life of three
polling intervals with a refresh window of two, the smallest that covers the longest
sleep; one failed request, failed write or killed run of the FEC stages and of the lobbying
source (the theorems allow any number). The passes of Congress.gov share one process and
its order, no data but for the congress they are run on, so Congress.gov publishes bills or
hearings in a behaviour, not both (`OneKind`; the theorems need no such bound). This
restricts only what the provider does, which is under no fairness: the behaviours that are
left are those of a Congress.gov that never lists the other kind. Fairness, of the component that runs: a run goes on
(`WF(Proceed)`) and cron starts real daily runs again and again (`SF(Daily)`); the worker
answers (`Serve`), the agent takes its next step or is restarted by docker, and time passes
(`WF` each).

## ReadApi: CatalogService, ReadPages, ReadStatus

**CatalogService.** 
A request is the path of steps its thread has still to take: look at a shared answer
without its lock, take the lock, look again, load, take a query slot, query, stream. The
refresh of the markets gets the overview and the schema while it holds its own lock.
`age` and `left` are the two fields of the overview, `spent` the time since a thread looked
at them, counted up to `Late`. The schema is in the same least-recently-used cache as the markets' pages, but every request that puts a
page has just touched it, so only pages are evicted. A request may also be refused, or its query fail, at its first
step (`Refuse`). Not modelled: the text of the queries, the masking of cells, the time to
live of single pages.

**ReadPages.** One list, row by row: `key[r]` is what a row is sorted by before its
identifier, zero while the list has no such row. A page is one query: `CursorPage` asks for
`Limit + 1` rows after the last one answered and makes the next cursor of the last one it
answers, `OffsetPage` counts. Between two pages rows come, leave and change their key, and
midnight may pass, by which some lists choose their dates. `moved` is history: what changed
since the first page. `WalksComplete`: by a cursor each row that stays as it is is answered
exactly once; by an offset nothing old is missed in the lists of runs, which only grow at
the near end, and nothing is missed or repeated in a list that does not change. A US
cursor of a range that ends "today" is refused on the next day.

**ReadStatus.** A page is the sequence of its reads, and each read sees the database as it
is then: the series expected, the bars of the session, the counts of `session_coverage`,
the clock. Between two reads collectors write bars, the counts follow, series are activated
and retired, minutes pass. The verdicts (missing points, gaps, anomalies, quality, what the
overview complains of, staleness, the status of a US series) are functions of what was
read, judged with the page's last read. `VerdictsHold`: a page that reads the clock before
its queries reports as missing only what was due by that clock and is not there when the
last query is answered, and calls stale only what is; and a US series called complete has
every bar that is due, for which `us.py` reads the clock *after* the coverage rows and the
collector stores only minutes that are over. Pages with other orders of reads are modelled,
and fire in the run, but make no such promise (see "Known behaviours").

Nothing is shared between the three, so `ReadApi` serves one of them in a behaviour. Run
`catalog`: two threads, one slot, times to live of one unit, so that any passing of time
makes an answer expire, `Late` one; three rows with two sort keys, so that two of them tie,
in pages of one, so that a walk has up to four pages and every row can change between any
two; two series and a session of two minutes, so that a late bar can make up the number
for one that is missing. It checks `OverviewIsRecent`, `LoadIsDue`, `WalksComplete`,
`VerdictsHold` and, under `WF` for each thread's next step and `SF` for getting a lock that
is free again and again, `RequestsEnd`. The four safety properties are theorems.

## Findings

1. `us_minute_gap`: a minute gap is not retried after a restart or a new ranking
   (`docs/data-sources/11-us-schwab-ingestion.md:27` says it is).
2. `release_marked`: a failed second first-activation restores the bundle of a killed one
   and starts its v2 writers without the marker.
3. `bills_listed`: the congress in session is marked as completely listed by the first
   list pass that succeeds; bills introduced later are never listed.
4. `lda_reruns`: each daily run stores every activity of the year once more, because the
   conflict key is random.
5. `setup_works`: `alembic upgrade head` of an empty database, which
   `docs/architecture/database.md:56-57` gives as its set-up, always fails at revision 024
   and rolls everything back: the seed refers to a legislator no revision inserts.

Each is a run with one property and a TLC counterexample; `PROJECT.json` quotes the
lines on both sides.

### Known behaviours

What the models show besides, and no property promises away:

* US and India: `sync_contracts` of the v2 storage raises on index futures, which the real
  instrument master lists, so that the job before the session and the named mode fail;
  production uses the full mode. A delisted listing is never marked inactive. The pilot
  loop and the universe key one symbol differently and make two listings of it.
* Political job: the nightly index write resets `trade_count` of filings that are no
  longer parsed; a trade whose ticker resolves differently later gets a second row, since
  the sort key contains `entity_id`.
* Snapshots: `docs/operations/ibkr-gateway-setup.md:35` says one missed run loses no
  fills; over a day without a session, or between the slots 16:30 and 06:00, it may
  (`OneMissLosesNone` of `BrokerSnapshot`, which no run checks). The daemon overwrites
  the status of a run with "waiting" right after it reported.
* Committee memberships: `factlab_political_bootstrap.py:86` rewrites snapshots of today
  only, and a period of `wave_04_backfill.sql` begins where role, status or rank change. A
  snapshot that is rewritten with another role between two backfills, and back, leaves a
  period without end beside the true one. The overlap check (`wave_04_validate.sql:119-129`)
  does not see it while the older period is open; once that has an end, it refuses every
  further backfill from wave 4 on. `BackfillComplete` excuses the second copy.
* FEC: a batch that a foreign key refuses stays in the buffer, and with it every batch
  after it is refused until the recipient's row comes from another answer: each following
  unit ends at its next row, and after the last unit the source fails and the buffer is
  lost, with the marks that were flushed meanwhile.
* Congress.gov: a bill whose detail had no sponsor or made no row, and a hearing whose
  answer made none, is marked done and never asked for again.
* Waves: once v2 has writers of its own, repeating a backfill puts legacy contents over
  live rows whose `source_hash` is empty. `trade_count` of filings and the congress of
  committees are not refreshed when only trades or memberships change; memberships of a
  committee without a row are dropped in silence; staging writes `ref.*` rows before
  anybody approves.
* Alembic: after 016 nothing can be downgraded to the base (004 drops an index that is
  gone), and 016 cannot be repeated after its own downgrade; the parity gates of 016 and
  022 do not see rows committed between copy and drop; 026's downgrade does not restore
  two foreign keys; the head lacks none of the metadata's tables, the metadata lacks 025's
  three partial indexes.
* Lists: by offset, lists that may also change in the middle (instruments, legislators,
  tickers) can skip or repeat a row, and a filter by status makes old runs leave a list of
  runs. Freshness, gaps, coverage, anomalies and the rows of the catalog are not in a total
  order, so that their pages promise nothing. The hub's candles without a date start a new
  day at midnight, which ends a walk early. `get_ticker_summary` looks for its ticker in the
  first 1000 that match.
* Verdicts: an instrument's page and the hub's days read the clock last and may report the
  minute that has just begun as missing. `IndiaMetrics` expects whole sessions in the middle
  of the day. Counts of bars can be made up by bars outside the session or of the next
  minute, so that "complete" and "healthy" of the Indian pages are no promise; the hub's
  tolerance is 99 % (95 % during the session) anyway. The coverage page says "missing" at
  100 % when nothing is due. The status "running" of an Indian source hides a collector
  that died. The overview gives "target not met" as its reason also for staleness. The US
  dashboard reports a lack of a series that is retired between two of its queries.
* API: the slot of a CSV preview is released only in the `finally` of its generator; a
  generator that is closed before its first block keeps it. `CatalogService` lets a
  response start, as the server does.

## Proofs

All theorems hold for every value of the constants that satisfies the assumptions of their
modules; TLC evaluates these in the runs. They are as weak as the code: `RetentionAssumption`
(a week shorter than the window), the two `WavesAssumption`s and `LimitAssumption` (naturals, two statements a file),
`SnapshotAssumption` (at least two slots a day and a look-back of at least a day: with one
slot, a fill exactly as old as the look-back may fall out between two successful runs, and
`LossHasACause` is false), `ReleaseAssumption`, `CutoverAssumption`, `StaleAssumption`,
`PoliticalAssumption`, `CollectorsAssumption`, `PassesAssumption`, `ConstantsAssumption`,
`CatalogAssumption`, `ApiAssumption` (finite sets of rows and of series, pages and sessions
that are not empty), `StopsAssumption` (bounds, distinct names; waves 0 to 9). Nothing else is assumed.

Each proof module states an inductive invariant, checked by TLC first, shows that `Init`
implies it and that each action keeps it, one lemma or case per action, and derives the
properties with one temporal step. A property of a composition is proved of the
composition's specification: a step of another component leaves the invariant's variables
alone. What the arguments rest on:

* **UsRecoveryProofs.** `NoSilentLoss`, `CheckpointBehindCoverage`, `Heals`.
  `DailyNoSilentLoss` is not inductive: that the next window reaches a missing session
  depends on what lies outside the seven-day overlap. `IInv` says that beyond the overlap
  every session is stored or a recorded gap (`OlderKnown`, `OlderStored`), that a gap
  is a completed session no older than the provider's history (`GapsPublished`,
  `GapsReachable`, `AvailPublished`), and what a collect in flight knows (`JobSound`,
  `JobCovered`). Healing adds what each calm day achieves: the provider answers well
  (`CalmProvider`), every evening the queue is drained and the checkpoint follows
  (`CalmJob`, `CalmQueue`, `CalmCheckpoint`), and in the days of the bound falls a full
  refresh, at whatever hour it is due, that leaves the series `Healed` (`CalmRefresh`).
* **MigrationsProofs**, of the runner. `Exclusive`, `JournalSound`, `ForwardOnly`, `DriftGuarded`, and
  `Refines`: every step is a step of `MigrationLog` or leaves its state alone.
  `OwnsLock`: unless a lock was stolen, a runner inside the lock is its holder.
  `RunsSound`: a runner at statement k has executed the statements before it in its
  version of the file and has all earlier waves behind it. Neither needs the lock, so the
  journal stays true even when two runs overlap. The drift guard does not need it either:
  from wave 1 on the journal exists and names each version that a run has begun
  (`JournalExists`, `BegunJournalled`, `NoDrift`, `RanAsJournalled`).
  `RunnerAmongMigrations` states all of it for the composition.
* **MigrationsProofs**, of the waves. `SettledIsComplete`, `SettledIsIdempotent`, for each of
  the statements in the backfill files. The data of `TargetTables` enters through lemmas read
  off file by file: every statement fills a table of its own wave, joins mappings that the
  validations of that wave look at, and leaves the key alone but for its `free` columns
  (`Shape`, `StatementShape`); every table that is filled keeps the newest version under a key
  without contents or times (`Plain`), but for the archive; each schema file needs only what
  an earlier one makes. `WavesInv` is `RowInv`, what holds of the rows (they come from the
  legacy row, no key is held twice, versions that are times are neither from the future nor
  ahead of a rewrite, a copy is of a row that is still there or of an older version:
  `RowsHeld`, `KeysHeld`, `VersionsHeld`, `CopiesBehind`), and `Progress`, what a command that
  nothing has disturbed knows: its validations still pass, and each file behind it is
  `Reached`: the statement would insert nothing (`AllCopied` for wave 9). `Reached` is stronger
  than completeness, and is what makes both properties inductive: a statement with something to
  join leaves it (`InsertReaches`), validations that pass leave something to join
  (`ValidJoins`), and under it the statement changes nothing (`ReachedKept`). That the row of the
  highest version exists among those selected (`HighestSelected`) needs the well-ordering of
  the naturals.
* **WarehouseJobsProofs.** `CountsBacked`, `SuccessComplete`, and the same of the
  composition with `LossExplained`. `Counted` ties counts to documents and rows, `Parsing`
  says that what a run has selected and no longer has to do is complete, `InHand` what is
  known of the filing being parsed. Of the snapshots, `Young`: a fill whose loss nothing would
  excuse has seen at most one slot, in whose tick a run was killed, and as there are two
  slots a day it is less than a day old.
* **CutoverProofs.** For the releases `OneHolder` is the flock; `HostSound` and
  `RecordSound` hold at any moment, also for what a killed script leaves; `Sound(p)` says
  per position which flags are right (`Flagged`), that collection is quiet up to the marker
  (`Quiet`), which bundle is live (`Placed`), that the record exists (`Saved`) and how far a
  restore is (`Restoring`). For the review: the approved decisions on a row agree unless one
  batch approved two that differ (`Uniform`), a loaded fact has the decision of an approved
  correction (`Decided`), and a row that the backfill has behind it is loaded as it is now
  (`Loaded`); `FactKept` follows because approvals and identifiers stay (`Settled`,
  `IdsStay`). For the exchange: what an invocation has compared, and nobody has written to
  since, is equal on both sides, however often it is exchanged (`ExchangeInv`).
* **PoliticalDailyProofs.** `LockWorks`, `CooldownRespected`, `MarksAreBacked`,
  `MarksAreKept`. While nobody raced or overran the lock file belongs to the one process
  inside (`LockHeld`, `RunsInside`); the marks in memory are backed and contain those on
  disk (`Backed`, `MarksIncluded`); what a server asked for is in the file or in the memory
  of the run that heard it (`Deferrals`), also between the two saves of a weekly run
  (`Rereads`).
* **CollectorsProofs.** `ListsHold`: what a resolver has behind it is completely written
  (`Resolved`, `Prepared`), rows only grow (`Grown`), the tier is part of the list it was
  ranked from (`TierInv`), a load has written what it no longer has to do (`Loading`).
  `HistoryHolds`: an unloaded session has been passed by a later one only with a cause
  (`Unloaded`, `Passed`), and a recovery has loaded its windows so far (`Recovering`).
  `OrchestratorAmongCollectors` states what `PoliticalDailyProofs` proves for the composition.
* **ProviderClientsProofs.** One invariant per client: the shape of a run, pages kept and
  details bare until read (`RunShape`, `PagesKept`, `DetailsBare`); what was answered and is
  not written yet in the buffer (`Unwritten`, `DoneSoFar`); parents of a batch
  written or before it, every donation read stored, buffered or accounted for
  (`ParentsWritten`, `Accounted`, `DoneAccounted`), also where a batch is refused (`LostFec`); the five writes of lobbying in order
  (`LdaInv`); keys refused since the wait and copies no older than their age (`ApiInv`);
  who waits for which answer and which record is newer (`Waiting`, `NeverOlder`,
  `Overtaken`, `Served`).
* **ReadApiProofs.** `AnswersAreRecent`, `LoadsAreDue`: paths of steps are typed
  without induction: what is ahead of a thread only looks (`Ahead`, `Sound`); the lock of a
  shared answer has one holder, who alone loads (`Alone`); time since a look bounds what the
  answer has aged (`Aging`, `Taking`). `WalksAreComplete`, for any rows, keys and size of a
  page: by cursor, of the rows that stay exactly those up to the cursor have been answered,
  once (`CursorSound`); a page ends with a row that none of it follows, which needs that the
  ranks of a finite, totally ordered set are the numbers below its size (`Ranks`,
  `EveryRankIsTaken`, `LastOfPage`). By offset, a page is a stretch of ranks
  (`StretchOfPage`), one that more rows follow is full (`FullPage`), and a row that is added
  before all others can only raise the rank of an old one (`OldShown`, `OnceShown`).
  `VerdictsAreTrue`, for any series and length of the session: bars are not deleted and the
  clock does not go back, so that what a page has read is still there (`StatusTyped`) and
  its clock is not ahead (`ClockKnown`); too small a number means that one of the minutes
  due is missing (`SeriesLacksOne`), and of the US, where nothing is stored before its
  minute is over (`OverIsStored`), the full number means that none is (`CompleteIsTrue`).

Only model-checked, and why:

* the liveness properties `JobsSettle`, `ClientsRecover`, `RequestsEnd`: TLAPS does not reason about fairness and `ENABLED`;
* `SchemaFits` and `RowsKept`: they are about what 28 concrete revisions, executed by a fold,
  make of a concrete database. There is no constant to generalise but the set of stops;
  TLC evaluates them outright.

No module uses a RECURSIVE operator. Induction over data is not available with the
installed provers; `Oldest`, `Current`, the nearest slot and the like are therefore shown to
exist with the well-foundedness of the naturals (`LessThanWellFounded`, `LessWellFounded`,
`BeforeWellFounded`).

## Plan

The modules above are complete in themselves. What would extend them:

1. The sliding-window limiters with a bound on requests per window.
2. The remaining legacy sources of the political orchestrator.

## Not modelled

* Reading: the texts and filters of the API's queries, single look-ups, the source status
  of the US, status rules of the catalog's tables and pipelines, masking of cells, times to
  live of pages, the rendering of the web UI.
* Data: parsers and normalisers (their results are inputs here), name resolution, column
  types, the grants of the rbac phase, `storage/ingest.py`'s upserts.
* `TargetWaves`: live writers of v2, daily candles keyed by contracts (no statement reads
  them). `CorrectionReview`: theft of the migration lock between two commands whose hashes
  are older, and the hash rewrites of legislators and committees. `TableCutover`: reversing
  an exchange by hand.
* `IndiaCollector`: the full-universe mode, a change of mode, `--once`, `--skip-recovery`.
  `UsUniverse`: reference masters of configurations of version 1. `IndiaUniverse`: universe
  files and BSE masters. `BrokerSnapshot`: how instruments are resolved on the way in.
* Command line variants that only leave out a step (verify-only, skip flags), and the pilot
  loop of the US collector, a fixed list of symbols through the same `collect`.
* The Upstox path of the token agent, which has no refresh; eventual consistency of the
  key-value store; temporary files with a fixed name.
* Bills introduced while a list is being read; the page cache below the passes.
* Small runtime libraries (run status, watermarks, notification dedup) and the pacing of
  requests. EDGAR and identity scripts (offline batches with review), legacy modules that
  nothing starts any more, network and container internals.
