-------------------------- MODULE LegacyRevisions --------------------------
(***************************************************************************)
(* The 28 Alembic revisions of the legacy Postgres database                 *)
(* (migrations/versions), as the statements of their upgrades and           *)
(* downgrades, and what a statement does to a database or why it is         *)
(* refused.  Of a table the model keeps its foreign keys, the indexes that  *)
(* are dropped by name, and those of its rows that a later statement looks  *)
(* at.  A table is named with the schema it was created in: ALTER SCHEMA    *)
(* renames the schema and leaves its tables alone.                          *)
(***************************************************************************)
EXTENDS Integers, Sequences

LOCAL INSTANCE SequencesExt

In(s, names)  == {<<s, n>> : n \in names}
Ref(n)        == <<"ref", n>>
Market(n)     == <<"market", n>>
Political(n)  == <<"alt_political", n>>
Universe(n)   == <<"universe", n>>
Audit         == <<"audit", "raw_archive">>

NoDb == [rev |-> 0, ok |-> TRUE, schemas |-> {}, tables |-> {}, refs |-> {},
         indexes |-> {}, rows |-> {}]

-----------------------------------------------------------------------------
(* Statements. *)

Statement(op, on, with)  == <<[op |-> op, on |-> on, with |-> with]>>

Create(ts, refs)       == Statement("create", ts, refs)
Refer(t, refs)         == Statement("refer", {t}, refs)
Unrefer(t, refs)       == Statement("unrefer", {t}, refs)
Index(t, names)        == Statement("index", {t}, names)
DropIndex(t, names)    == Statement("unindex", {t}, names)
Insert(t, rows)        == Statement("insert", {t}, rows)
Delete(t, rows)        == Statement("delete", {t}, rows)
Schema(names)          == Statement("schema", {}, names)
DropSchema(names)      == Statement("unschema", {}, names)
Cascade(names)         == Statement("cascade", {}, names)
Rename(old, new)       == Statement("unname", {}, {old}) \o Schema({new})
\* A row that a stricter constraint, a foreign key or a check of the revision refuses.
Refuse(t, rows)        == Statement("refuse", {t}, rows)
\* The row that a foreign key of the next insert asks for.
Need(t, asked)         == Statement("need", {t}, {asked})
\* The tables are dropped one after the other.
Drop(s, names) == [i \in DOMAIN names |-> Statement("drop", {<<s, names[i]>>}, {})[1]]

Rows(d, t)     == {r[2] : r \in {q \in d.rows : q[1] = t}}
Owned(s)       == s.on \X s.with
Inside(d, ss)  == {t \in d.tables : t[1] \in ss}
Within(ts, d)  == \A p \in d.refs : p[2] \in ts => p[1] \in ts

Allowed(d, s) ==
  CASE s.op = "create"  -> s.on \cap d.tables = {} /\ s.with \subseteq d.tables \cup s.on
    [] s.op = "drop"    -> s.on \subseteq d.tables /\ Within(s.on, d)
    [] s.op = "refer"   -> s.on \cup s.with \subseteq d.tables
    [] s.op = "unrefer" -> Owned(s) \subseteq d.refs
    [] s.op = "index"   -> s.on \subseteq d.tables /\ Owned(s) \cap d.indexes = {}
    [] s.op = "unindex" -> Owned(s) \subseteq d.indexes
    [] s.op \in {"insert", "delete", "view"} -> s.on \subseteq d.tables
    [] s.op = "refuse"  -> Owned(s) \cap d.rows = {}
    [] s.op = "need"    -> Owned(s) \subseteq d.rows
    [] s.op = "unschema" -> Inside(d, s.with) = {}
    [] s.op = "raise"   -> FALSE
    [] OTHER            -> TRUE

\* Without the tables ts, and without what belongs to them.
Without(d, ts) ==
  [d EXCEPT !.tables  = @ \ ts,
            !.refs    = {p \in @ : p[1] \notin ts /\ p[2] \notin ts},
            !.indexes = {p \in @ : p[1] \notin ts},
            !.rows    = {p \in @ : p[1] \notin ts}]

Effect(d, s) ==
  CASE s.op = "create"   -> [d EXCEPT !.tables = @ \cup s.on, !.refs = @ \cup Owned(s)]
    [] s.op = "drop"     -> Without(d, s.on)
    [] s.op = "refer"    -> [d EXCEPT !.refs = @ \cup Owned(s)]
    [] s.op \in {"unrefer", "forget"} -> [d EXCEPT !.refs = @ \ Owned(s)]
    [] s.op = "index"    -> [d EXCEPT !.indexes = @ \cup Owned(s)]
    [] s.op = "unindex"  -> [d EXCEPT !.indexes = @ \ Owned(s)]
    [] s.op = "insert"   -> [d EXCEPT !.rows = @ \cup Owned(s)]
    [] s.op = "delete"   -> [d EXCEPT !.rows = @ \ Owned(s)]
    [] s.op = "schema"   -> [d EXCEPT !.schemas = @ \cup s.with]
    [] s.op \in {"unschema", "unname"} -> [d EXCEPT !.schemas = @ \ s.with]
    [] s.op = "cascade"  -> [Without(d, Inside(d, s.with)) EXCEPT !.schemas = @ \ s.with]
    [] OTHER             -> d

\* A statement that fails fails the transaction: those after it are not run.
Execute(d, s) ==
  IF ~d.ok THEN d ELSE IF Allowed(d, s) THEN Effect(d, s) ELSE [d EXCEPT !.ok = FALSE]

Executed(d, statements) == FoldLeft(Execute, d, statements)

-----------------------------------------------------------------------------
(* Reference data, instruments, candles and universes. *)

Countries == Ref("countries")

Schemas001 == {"ref", "market", "universe", "alt_social", "alt_political", "alt_research",
               "derived", "experiments"}

M001 == [up |-> Schema(Schemas001), down |-> Cascade(Schemas001)]

M002 ==
  [up   |-> Create({Countries}, {})
              \o Create({Ref("currencies")}, {Countries})
              \o Create({Ref("fx_pairs")}, {Ref("currencies")})
              \o Create({Ref("fx_rates_daily")}, {Ref("fx_pairs")})
              \o Index(Ref("fx_rates_daily"), {"ix_fx_rates_date"})
              \o Create({Ref("markets")}, {Countries, Ref("currencies")})
              \o Create({Ref("exchanges")}, {Ref("markets"), Countries, Ref("currencies")}),
   down |-> Drop("ref", <<"exchanges", "markets">>)
              \o DropIndex(Ref("fx_rates_daily"), {"ix_fx_rates_date"})
              \o Drop("ref", <<"fx_rates_daily", "fx_pairs", "currencies", "countries">>)]

InstrumentIndexes == {"symbol", "segment", "isin", "country", "market", "status"}
ContractIndexes   == {"instrument", "expiry", "segment", "status", "nearest"}

M003 ==
  [up   |-> Create({Ref("instruments")},
                   {Ref("exchanges"), Countries, Ref("markets"), Ref("currencies")})
              \o Index(Ref("instruments"), InstrumentIndexes)
              \o Create({Ref("contracts")}, {Ref("instruments"), Ref("exchanges")})
              \o Index(Ref("contracts"), ContractIndexes)
              \o Create({Ref("instrument_daily")}, {Ref("instruments")}),
   down |-> Drop("ref", <<"instrument_daily">>)
              \o DropIndex(Ref("contracts"), ContractIndexes)
              \o Drop("ref", <<"contracts">>)
              \o DropIndex(Ref("instruments"), InstrumentIndexes)
              \o Drop("ref", <<"instruments">>)]

Bars1min  == Market("candles_1min")
Bars5min  == Market("candles_5min")
BarsDaily == Market("candles_daily")
Responses == Market("raw_responses")

M004 ==
  [up   |-> Create({Bars1min, BarsDaily}, {Ref("instruments"), Ref("contracts")})
              \o Index(Bars1min, {"time"}) \o Index(BarsDaily, {"date"})
              \o Create({Responses}, {}) \o Index(Responses, {"fetched", "instrument"}),
   down |-> DropIndex(Responses, {"fetched", "instrument"})
              \o Drop("market", <<"raw_responses">>)
              \o DropIndex(BarsDaily, {"date"}) \o Drop("market", <<"candles_daily">>)
              \o DropIndex(Bars1min, {"time"}) \o Drop("market", <<"candles_1min">>)]

M005 ==
  [up   |-> Create({Universe("indexes")}, {Ref("markets")})
              \o Create({Universe("members")}, {Universe("indexes"), Ref("instruments")})
              \o Index(Universe("members"), {"index_date", "instrument_date"}),
   down |-> DropIndex(Universe("members"), {"index_date", "instrument_date"})
              \o Drop("universe", <<"members", "indexes">>)]

\* The seeded exchanges and markets cannot be deleted while an instrument refers to them.
M006 ==
  [up   |-> Insert(Ref("exchanges"), {<<"NSE">>, <<"NASDAQ">>}),
   down |-> Refuse(Ref("instruments"), {<<"EQ">>, <<"INDEX">>, <<"BE">>})
              \o Delete(Ref("exchanges"), {<<"NSE">>, <<"NASDAQ">>})]

-----------------------------------------------------------------------------
(* The political tables. *)

Legislators == Political("legislators")
Committees  == Political("committees")
Trades      == Political("legislator_trades")
RawArchive  == Political("raw_archive")

\* Tables that refer to countries alone.
Group007A ==
  Create(In("alt_political",
            {"legislators", "asset_type_codes", "lda_issue_codes", "lda_government_entities",
             "fec_committees", "contract_aliases", "lobby_client_aliases"}),
         {Countries})

\* Tables of legislators and committees.
Group007B ==
  Create({Political("legislator_terms")}, {Legislators})
    \o Create({Political("legislator_fec_ids")}, {Countries, Legislators})
    \o Create({Committees}, {Countries, Committees})
    \o Create({Political("committee_assignments")}, {Legislators, Committees})
    \o Create({Political("committee_sector_map")}, {Committees})

TradesAndContracts007 ==
  Create({Trades}, {Countries, Legislators, Ref("instruments"), Political("asset_type_codes")})
    \o Create({Political("gov_contracts")}, {Countries, Ref("instruments")})

LobbyingAndDonations007 ==
  Create({Political("lobbying_filings")}, {Countries})
    \o Create({Political("lobbying_activities")},
              {Political("lobbying_filings"), Political("lda_issue_codes")})
    \o Create({Political("lobbying_activity_targets")},
              {Political("lobbying_activities"), Political("lda_government_entities")})
    \o Create({Political("lobbying_activity_lobbyists")}, {Political("lobbying_activities")})
    \o Create({Political("campaign_donations")},
              {Countries, Political("legislator_fec_ids"), Political("fec_committees")})

BillsHearingsRaw007 ==
  Create({Political("bills")}, {Countries})
    \o Create({Political("bill_sponsors")}, {Political("bills"), Legislators})
    \o Create({Political("bill_committees")}, {Political("bills"), Committees})
    \o Create({Political("bill_actions")}, {Political("bills")})
    \o Create({Political("hearings")}, {Countries, Committees})
    \o Create({Political("hearing_witnesses")}, {Political("hearings")})
    \o Create({RawArchive}, {}) \o Index(RawArchive, {"source_fetched", "url"})

Down007 ==
  Drop("alt_political",
       <<"raw_archive", "hearing_witnesses", "hearings", "bill_actions", "bill_committees",
         "bill_sponsors", "bills", "campaign_donations", "lobbying_activity_lobbyists",
         "lobbying_activity_targets", "lobbying_activities", "lobbying_filings",
         "gov_contracts", "legislator_trades", "committee_sector_map",
         "committee_assignments", "committees", "legislator_fec_ids", "legislator_terms",
         "lobby_client_aliases", "contract_aliases", "fec_committees",
         "lda_government_entities", "lda_issue_codes", "asset_type_codes", "legislators">>)

M007 ==
  [up   |-> Group007A \o Group007B \o TradesAndContracts007 \o LobbyingAndDonations007
              \o BillsHearingsRaw007,
   down |-> Down007]

\* The seeded codes cannot be deleted while a trade refers to one.
M008 ==
  [up   |-> Insert(Political("asset_type_codes"), {<<"ST">>}),
   down |-> Refuse(Trades, {<<"coded">>}) \o Delete(Political("asset_type_codes"), {<<"ST">>})]

\* A party of more than 20 characters does not fit the old column.
M009 == [up |-> <<>>, down |-> Refuse(Political("legislator_terms"), {<<"long party">>})]

\* Trades that differ in their source only break the old constraint.
M010 == [up |-> <<>>, down |-> Refuse(Trades, {<<"of two sources">>})]

M011 ==
  [up   |-> Index(Bars1min, {"session_time"})
              \o Create({Bars5min}, {Ref("instruments"), Ref("contracts")})
              \o Index(Bars5min, {"time", "session_time"}),
   down |-> DropIndex(Bars5min, {"session_time", "time"}) \o Drop("market", <<"candles_5min">>)
              \o DropIndex(Bars1min, {"session_time"})]

-----------------------------------------------------------------------------
(* Dimensions, the audit archive and the fact tables. *)

Vendors   == Ref("vendors")
Endpoints == Ref("data_endpoints")

\* The endpoints that differ in what happens to their rows, and their vendors.
SeededEndpoints012 == {"house_clerk_ptr", "senate_efd_ptr", "lda_probe", "upstox"}
CatchAlls015       == {"house_clerk", "lda"}

VendorOf ==
  [c \in SeededEndpoints012 \cup CatchAlls015 |->
     CASE c \in {"house_clerk_ptr", "house_clerk"} -> "house_clerk"
       [] c = "senate_efd_ptr"                     -> "senate_efd"
       [] c \in {"lda_probe", "lda"}               -> "lda"
       [] OTHER                                    -> "upstox"]

Codes(cs) == {<<c>> : c \in cs}

M012 ==
  [up   |-> Create({Vendors}, {}) \o Index(Vendors, {"code"})
              \o Create({Endpoints}, {Vendors}) \o Index(Endpoints, {"code", "vendor"})
              \o Insert(Endpoints, Codes(SeededEndpoints012)),
   down |-> DropIndex(Endpoints, {"vendor", "code"}) \o Drop("ref", <<"data_endpoints">>)
              \o DropIndex(Vendors, {"code"}) \o Drop("ref", <<"vendors">>)]

M013 ==
  [up   |-> Create({Ref("frequencies")}, {}) \o Index(Ref("frequencies"), {"code"}),
   down |-> DropIndex(Ref("frequencies"), {"code"}) \o Drop("ref", <<"frequencies">>)]

Sectors    == Ref("gics_sectors")
Industries == Ref("gics_industries")

M014 ==
  [up   |-> Create({Sectors}, {}) \o Index(Sectors, {"code"})
              \o Create({Industries}, {Sectors}) \o Index(Industries, {"code", "sector"}),
   down |-> DropIndex(Industries, {"sector", "code"}) \o Drop("ref", <<"gics_industries">>)
              \o DropIndex(Sectors, {"code"}) \o Drop("ref", <<"gics_sectors">>)]

AuditIndexes == {"endpoint", "fetched", "parsed_into", "instrument"}

M015 ==
  [up   |-> Schema({"audit"}) \o Insert(Endpoints, Codes(CatchAlls015))
              \o Create({Audit}, {Endpoints}) \o Index(Audit, AuditIndexes),
   down |-> DropIndex(Audit, AuditIndexes) \o Drop("audit", <<"raw_archive">>)
              \o DropSchema({"audit"}) \o Delete(Endpoints, Codes(CatchAlls015))]

\* The rows of the two archives are moved before they are dropped: see Move.  The downgrade
\* creates them again without their indexes, and fills them: see Split.
M016 ==
  [up   |-> Drop("alt_political", <<"raw_archive">>) \o Drop("market", <<"raw_responses">>),
   down |-> Create({RawArchive, Responses}, {})]

ProbeEndpoints == {"lda_probe"}

M017 == [up |-> Delete(Audit, Codes(ProbeEndpoints)), down |-> <<>>]

M018 == [up   |-> Rename("alt_political", "alt_political_us"),
         down |-> Rename("alt_political_us", "alt_political")]

M019 == [up |-> Rename("market", "market_in"), down |-> Rename("market_in", "market")]

M020 == [up |-> Schema({"market_us"}), down |-> Cascade({"market_us"})]

\* Facts of the two countries: those of market_in are made where its candles are.
FactSchemas == {"market", "market_us"}

FactTables(s) ==
  Create(In(s, {"fact_equity", "fact_index"}), {Ref("instruments"), Ref("frequencies"), Endpoints})
    \o Create({<<s, "fact_futures">>},
              {Ref("contracts"), Ref("instruments"), Ref("frequencies"), Endpoints})

DropFacts(s) == Drop(s, <<"fact_futures", "fact_index", "fact_equity">>)

M021 == [up   |-> FactTables("market") \o FactTables("market_us"),
         down |-> DropFacts("market_us") \o DropFacts("market")]

\* The bars are routed to the facts before their tables are dropped: see Move.
M022 == [up   |-> Drop("market", <<"candles_1min", "candles_5min", "candles_daily">>),
         down |-> Statement("raise", {}, {})]

\* A source that is no endpoint's code stops the backfill.
SwapColumn(t) == Index(t, {"endpoint_id"})
SwapSource(t) == Refer(t, {Endpoints}) \o Index(t, {"endpoint_id"})
SwapBack(t)   == DropIndex(t, {"endpoint_id"}) \o Unrefer(t, {Endpoints})

M023 ==
  [up   |-> Refuse(Trades, {<<"of no endpoint">>})
              \o SwapSource(Trades) \o SwapSource(Political("gov_contracts")),
   down |-> SwapBack(Trades) \o SwapBack(Political("gov_contracts"))]

-----------------------------------------------------------------------------
(* Aliases, indexes and constraints of the last revisions. *)

Aliases == Political("legislator_aliases")

\* The one alias that is seeded is that of a legislator who must be there.
M024 ==
  [up   |-> Create({Aliases}, {Countries, Legislators}) \o Index(Aliases, {"bioguide"})
              \o Need(Legislators, <<"T000479">>),
   down |-> DropIndex(Aliases, {"bioguide"}) \o Drop("alt_political", <<"legislator_aliases">>)]

M025 ==
  [up   |-> Index(Political("committee_sector_map"), {"strength"})
              \o Index(Trades, {"tx_date_partial"})
              \o Index(Political("gov_contracts"), {"ticker_partial"}),
   down |-> DropIndex(Political("gov_contracts"), {"ticker_partial"})
              \o DropIndex(Trades, {"tx_date_partial"})
              \o DropIndex(Political("committee_sector_map"), {"strength"})]

\* A dropped column takes its foreign key along, and does not bring it back.
DroppedColumns026 == {Countries, Ref("currencies")}

DropColumns026 ==
  Statement("forget", {Ref("instruments")}, DroppedColumns026)

M026 ==
  [up   |-> Refer(Ref("instruments"), {Sectors, Industries})
              \o Index(Ref("instruments"), {"gics_sector", "gics_industry"})
              \o DropIndex(Ref("instruments"), {"country"}) \o DropColumns026,
   down |-> Index(Ref("instruments"), {"country"})
              \o DropIndex(Ref("instruments"), {"gics_industry", "gics_sector"})
              \o Unrefer(Ref("instruments"), {Industries, Sectors})]

\* A trade without a type or a filer does not fit the old columns.
M027 == [up |-> <<>>, down |-> Refuse(Trades, {<<"untyped">>})]

\* The view reads legislator_trades and data_endpoints.
M028 == [up   |-> Statement("view", {Trades, Endpoints}, {}),
         down |-> <<>>]

Revision == <<M001, M002, M003, M004, M005, M006, M007, M008, M009, M010, M011, M012, M013, M014,
              M015, M016, M017, M018, M019, M020, M021, M022, M023, M024, M025, M026, M027, M028>>

HeadRevision == Len(Revision)

\* The legislator whose alias revision 024 seeds.
VanTaylor == <<Legislators, <<"T000479">>>>

\* FreshDbs[r + 1]: what `alembic upgrade` to r makes of an empty database that has the
\* legislator revision 024 asks for.
FreshDbs ==
  FoldLeft(LAMBDA dbs, m : Append(dbs, Executed(dbs[Len(dbs)], m.up)),
           <<[NoDb EXCEPT !.rows = {VanTaylor}]>>, Revision)

Fresh(r) == FreshDbs[r + 1]
=============================================================================
