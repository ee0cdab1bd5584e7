---------------------------- MODULE TargetTables ----------------------------
(***************************************************************************)
(* The tables of ClickHouse: those of v2, schema file after schema file     *)
(* (sql/clickhouse/v2/wave_NN_schema*.sql and views), and the legacy ones   *)
(* (sql/clickhouse/00N_*.sql).  Of a table are kept its engine and its      *)
(* ORDER BY columns, by which ReplacingMergeTree tells rows apart, the      *)
(* newest version winning; a plain MergeTree keeps every row.               *)
(***************************************************************************)
EXTENDS Sequences

Table(name, key) == [name |-> name, key |-> key, latest |-> TRUE]
Log(name, key)   == [name |-> name, key |-> key, latest |-> FALSE]

Correction == {"legacy_database", "legacy_table", "legacy_key", "source_hash"}

Wave00 == {
  Table("meta.schema_migrations", {"migration_id"}),
  Table("meta.migration_runs", {"run_id"}),
  Table("meta.migration_id_crosswalk", Correction \cup {"target_kind"}),
  Table("meta.migration_reference_enrichment", Correction),
  Table("meta.migration_political_trade_enrichment", Correction)}

\* Codes, sources, and what is identified.
Wave01Codes == {
  Table("ref.countries", {"country_code"}),
  Table("ref.currencies", {"currency_code"}),
  Table("ref.exchanges", {"exchange_code"}),
  Table("ref.sectors", {"classification", "sector_id"}),
  Table("ref.sources", {"source_id"}),
  Table("ref.execution_methods", {"method_id", "valid_from"}),
  Table("ref.broker_metrics_map", {"broker_code", "vendor_metric"}),
  Table("ref.entities", {"entity_id"}),
  Table("ref.entity_relationships", {"parent_entity_id", "effective_date"})}

Wave01Securities == {
  Table("ref.securities", {"security_id"}),
  Table("ref.listings", {"listing_id"}),
  Table("ref.contracts", {"underlying_listing_id", "expiry", "right", "strike"}),
  Table("ref.broker_accounts", {"broker_code", "account_id"}),
  Table("ref.identifier_aliases", {"alias_kind", "alias_value", "valid_from"}),
  Table("ref.listing_migrations", {"old_listing_id", "effective_date", "migration_id"}),
  Table("ref.corporate_actions", {"security_id", "ex_date", "action_id"})}

Wave01Sets == {
  Table("ref.adjustment_factors", {"listing_id", "event_date"}),
  Table("ref.universes", {"universe_id"}),
  Table("ref.universe_membership", {"universe_id", "effective_from", "listing_id"}),
  Table("ref.dataset_versions", {"dataset", "version_tag", "materialized_from"}),
  Table("ref.legislator_terms", {"bioguide_id", "term_start"}),
  Table("ref.sessions", {"exchange_code", "effective_from", "session"}),
  Table("ref.holidays", {"country_code", "holiday_date"}),
  Log("raw.archive", {"source", "country_code", "source_channel", "fetched_at", "raw_id"})}

Wave02Bars == {
  Table("market.bars", {"country_code", "product_type", "listing_id", "resolution", "source",
                        "bar_time"}),
  Table("market.options_bars", {"country_code", "underlying_listing_id", "expiry", "right",
                                "strike", "resolution", "bar_time"}),
  Table("market.futures_continuous", {"country_code", "underlying_listing_id", "roll_method",
                                      "roll_position", "bar_time"})}

Wave02Quotes == {
  Table("market.quotes", {"country_code", "listing_id", "source", "observed_at"}),
  Table("market.fx_rates", {"base_currency", "quote_currency", "resolution",
                            "fix_convention", "bar_time"})}

Wave03 == {
  Table("meta.ingestion_runs", {"country_code", "pipeline", "source", "started_at", "run_id"}),
  Log("meta.lineage", {"dataset", "row_business_key", "produced_at"}),
  Table("meta.reconciliation_drift", {"broker_code", "account_id", "detected_at"}),
  Table("meta.unresolved_entities", {"source", "alias_kind", "alias_value"})}

Wave04Facts == {
  Table("alt.political_trades", {"country_code", "chamber", "transaction_date", "entity_id",
                                 "political_trade_id"}),
  Table("alt.political_filings", {"country_code", "chamber", "filing_id"})}

Wave04Committees == {
  Table("alt.political_committee_memberships", {"country_code", "congress_number",
        "committee_id", "bioguide_id", "effective_from"}),
  Table("alt.political_committees", {"committee_id", "effective_from"}),
  Table("alt.social_reddit_posts", {"country_code", "subreddit", "posted_at", "post_id"})}

DataCompletion == {
  Table("market.futures_contract_bars", {"country_code", "contract_id", "resolution",
                                         "bar_time", "source"}),
  Table("meta.expected_series", {"source_table", "source", "legacy_instrument_id",
                                 "legacy_contract_id", "resolution"}),
  Table("meta.session_coverage", {"source", "legacy_instrument_id", "resolution",
                                  "trade_date"}),
  Table("meta.recovery_state", {"source", "legacy_instrument_id", "resolution"}),
  Table("meta.source_status", {"country_code", "source"})}

Wave05 == {
  Table("fundamentals.filings", {"entity_id", "filed_at", "filing_id"}),
  Table("fundamentals.line_items", {"entity_id", "tag", "period_end", "filing_id"})}

Wave06 == {
  Table("derived.forward_test_attribution", {"strategy_id", "trade_date", "account_id"}),
  Table("derived.computations", {"dataset", "code_version", "started_at", "computation_id"}),
  Table("derived.factors", {"country_code", "factor_id", "universe_id", "event_date",
                            "listing_id"})}

Account == {"broker_code", "account_id"}

Wave07Snapshots == {
  Table("broker.positions_snapshot", Account \cup {"snapshot_time", "listing_id"}),
  Table("broker.account_state_snapshot", Account \cup {"metric", "segment", "currency",
                                                       "snapshot_time"}),
  Table("broker.executions", Account \cup {"exec_time", "exec_id"})}

Wave07Orders == {
  Table("broker.open_orders_snapshot", Account \cup {"snapshot_time", "perm_id"}),
  Table("broker.cash_flows", Account \cup {"event_time", "cash_flow_type", "security_id"}),
  Table("broker.applied_corporate_actions", Account \cup {"event_time", "security_id",
                                                          "corp_action_id"})}

Wave07Events == {Table("broker.order_events", Account \cup {"perm_id", "event_seq"})}

Wave08Books == {
  Table("book.strategies", {"strategy_id"}),
  Table("book.themes", {"theme_id"}),
  Table("book.trade_names", {"trade_name_id"}),
  Table("book.trade_legs", {"trade_name_id", "listing_id", "effective_from"})}

Wave08Risk == {
  Table("book.attribution", {"trade_name_id", "execution_id", "assigned_at"}),
  Table("risk.budgets", {"scope", "scope_id", "effective_from"})}

Wave09 == {
  Table("meta.expected_series_canonical", {"country_code", "listing_id", "contract_id",
                                           "source", "resolution"}),
  Table("meta.session_coverage_canonical", {"country_code", "listing_id", "source",
                                            "resolution", "trade_date"}),
  Table("meta.recovery_state_canonical", {"country_code", "listing_id", "source",
                                          "resolution"}),
  Table("meta.hub_schema_layouts", {"layout_id"})}

-----------------------------------------------------------------------------
(* The schema files, and the views: a view reads its tables. *)

View(name) == Table(name, {})

File(wave, creates, needs) == [wave |-> wave, creates |-> creates, needs |-> needs]

Views01 == File(1, {View("ref.session_windows_effective")},
                {"ref.exchanges", "ref.sessions", "ref.holidays"})
Views02 == File(2, {View("research.bars"), View("research.universe_membership")},
                {"market.bars", "ref.universe_membership"})
Views04 == File(4, {View("research.political_trades")}, {"alt.political_trades"})
Views07 == File(7, {View("research.owned_listings")}, {"broker.positions_snapshot"})

\* Wave 9 alters two tables that exist.
Schema09 == File(9, Wave09, {"market.futures_contract_bars", "meta.source_status"})

\* discover_migrations sorts the files of a phase by wave, then by name.
SchemaFiles == <<
  File(0, Wave00, {}),
  File(1, Wave01Codes \cup Wave01Securities \cup Wave01Sets, {}), Views01,
  File(2, Wave02Bars \cup Wave02Quotes, {}), Views02,
  File(3, Wave03, {}),
  File(4, Wave04Facts \cup Wave04Committees, {}), File(4, DataCompletion, {}), Views04,
  File(5, Wave05, {}), File(6, Wave06, {}),
  File(7, Wave07Snapshots \cup Wave07Orders \cup Wave07Events, {}), Views07,
  File(8, Wave08Books \cup Wave08Risk, {}),
  Schema09>>

Target == UNION {SchemaFiles[i].creates : i \in DOMAIN SchemaFiles}

Named(name)  == CHOOSE t \in Target : t.name = name
Names(files) == {t.name : t \in files}

-----------------------------------------------------------------------------
(* The legacy tables, and what identifies a row of them. *)

LegacyMarket == {
  Log("raw_http_archive", {"source", "fetched_at", "raw_id"}),
  Table("ref_countries", {"country_code"}),
  Table("ref_exchanges", {"exchange_code"}),
  Table("ref_instruments", {"instrument_key"}),
  Table("ref_contracts", {"contract_key"}),
  Table("market_candles_1min", {"instrument_id", "bar_time", "source", "contract_id"}),
  Table("market_candles_daily", {"instrument_id", "trade_date", "source", "contract_id"})}

LegacyPolitical == {
  Table("alt_political_legislators", {"bioguide_id"}),
  Table("alt_political_committees", {"committee_id"}),
  Table("alt_political_committee_memberships", {"snapshot_date", "committee_id",
                                                "bioguide_id"}),
  Table("alt_political_house_filings", {"filing_id"}),
  Table("alt_political_trades", {"trade_key", "transaction_date"})}

LegacyIndia == {
  Table("india_expected_series", {"source", "instrument_id", "contract_id"}),
  Table("ingestion_runs", {"market_code", "pipeline", "started_at", "run_id"})}

LegacyUs == {
  Table("us_expected_series", {"source", "instrument_id", "resolution"}),
  Table("us_recovery_state", {"source", "instrument_id", "resolution"}),
  Table("us_session_coverage", {"source", "instrument_id", "resolution", "trade_date"}),
  Table("us_source_status", {"source"})}

LegacyHub == {Table("hub_schema_layouts", {"layout_id"})}

Legacy == LegacyMarket \cup LegacyPolitical \cup LegacyIndia \cup LegacyUs \cup LegacyHub

-----------------------------------------------------------------------------
(* The statements of the backfill. *)

\* Rows of the legacy table `from` are inserted into `into`, joined to the mappings of `refs`:
\* to those of the current hash if `match` is "hash", by key alone if it is "key".  `admit`
\* says which rows: those absent; those whose own version, or the newest of theirs and the
\* mapping's, is above the target's; those whose hash differs.  `free` are the columns of the
\* target's key that a legacy row may change.
Insert(into, from, refs, match, admit, free) ==
  [into |-> into, from |-> from, refs |-> refs, match |-> match, admit |-> admit, free |-> free]

Backfill01 == {
  Insert("ref.currencies", "ref_exchanges", {"ref_exchanges"}, "key", "absent", {}),
  Insert("ref.countries", "ref_countries", {"ref_countries"}, "key", "version", {}),
  Insert("ref.exchanges", "ref_exchanges", {"ref_exchanges"}, "key", "version", {}),
  Insert("ref.sources", "ref_instruments", {}, "none", "version", {}),
  Insert("ref.identifier_aliases", "ref_instruments", {"ref_instruments"}, "key", "newest",
         {"valid_from"}),
  Insert("ref.legislator_terms", "alt_political_legislators", {"alt_political_legislators"},
         "key", "newest", {"term_start"}),
  Insert("raw.archive", "raw_http_archive", {}, "none", "absent", {})}

Backfill02 == {
  Insert("market.bars", "market_candles_1min", {"ref_instruments"}, "hash", "version", {}),
  Insert("market.bars", "market_candles_daily", {"ref_instruments"}, "hash", "version", {})}

Backfill03 == {Insert("meta.ingestion_runs", "ingestion_runs", {}, "none", "version", {})}

Own(into, from, free) == Insert(into, from, {from}, "hash", "newest", free)

Backfill04Facts == {
  Own("alt.political_filings", "alt_political_house_filings", {}),
  Own("alt.political_trades", "alt_political_trades", {"entity_id"}),
  Own("meta.unresolved_entities", "alt_political_trades", {"alias_value"})}

\* Snapshots of a membership with the same role, status and rank are joined into a period, so
\* that a snapshot which is rewritten with another role moves the period it belongs to.
Backfill04Committees == {
  Own("alt.political_committees", "alt_political_committees", {}),
  Insert("alt.political_committee_memberships", "alt_political_committee_memberships",
         {"alt_political_committees", "alt_political_legislators"}, "hash", "newest",
         {"effective_from"})}

ByHash(into, from, refs, free) ==
  Insert(into, from, refs, IF refs = {} THEN "none" ELSE "hash", "hash", free)

CompletionIndia == {
  ByHash("market.futures_contract_bars", "market_candles_1min",
         {"ref_contracts", "ref_instruments"}, {}),
  ByHash("meta.expected_series", "india_expected_series",
         {"ref_instruments", "ref_contracts"}, {"resolution"})}

CompletionUs == {
  ByHash("meta.expected_series", "us_expected_series", {"ref_instruments"}, {}),
  ByHash("meta.session_coverage", "us_session_coverage", {"ref_instruments"}, {}),
  ByHash("meta.recovery_state", "us_recovery_state", {"ref_instruments"}, {}),
  ByHash("meta.source_status", "us_source_status", {}, {})}

\* Wave 9 copies whole tables.
Copies == {
  <<"meta.expected_series", "meta.expected_series_canonical">>,
  <<"meta.session_coverage", "meta.session_coverage_canonical">>,
  <<"meta.recovery_state", "meta.recovery_state_canonical">>}

Backfill09 == {Insert("meta.hub_schema_layouts", "hub_schema_layouts", {}, "none", "all", {})}

\* What the statements join, beside their target.
Reference   == {"ref.listings", "ref.securities", "ref.exchanges"}
Crosswalk   == {"meta.migration_id_crosswalk"}
Enrichment  == {"meta.migration_reference_enrichment"}
Corrections == {"meta.migration_political_trade_enrichment"}

Fill(wave, statements, joins) == [wave |-> wave, statements |-> statements, joins |-> joins]

BackfillFiles == <<
  Fill(1, Backfill01, Crosswalk \cup Enrichment),
  Fill(2, Backfill02, Crosswalk \cup Enrichment \cup Reference),
  Fill(3, Backfill03, {}),
  Fill(4, Backfill04Facts \cup Backfill04Committees, Crosswalk \cup Corrections),
  Fill(4, CompletionIndia \cup CompletionUs,
       Crosswalk \cup Enrichment \cup Reference \cup {"ref.contracts"}),
  Fill(9, Backfill09, {c[1] : c \in Copies} \cup {c[2] : c \in Copies})>>

Loads == UNION {BackfillFiles[i].statements : i \in DOMAIN BackfillFiles}
Wave(s)    == LET i == CHOOSE i \in DOMAIN BackfillFiles : s \in BackfillFiles[i].statements
              IN  BackfillFiles[i].wave

\* The roles and grants of wave 8 name databases only.
RbacFiles == <<[wave |-> 8, databases |-> {"research", "market", "fundamentals", "alt", "derived", "ref"}]>>

=============================================================================
