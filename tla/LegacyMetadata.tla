--------------------------- MODULE LegacyMetadata ---------------------------
(***************************************************************************)
(* The tables of the legacy Postgres database as the code has them          *)
(* (storage/schemas): each table with the tables that its foreign keys      *)
(* refer to.  market_in and alt_political_us are named market and           *)
(* alt_political here, as in LegacyRevisions.                               *)
(***************************************************************************)
EXTENDS LegacyRevisions

\* storage/schemas/ref.py
RefDimensions ==
  {<<Ref("countries"), {}>>,
   <<Ref("currencies"), {Ref("countries")}>>,
   <<Ref("fx_pairs"), {Ref("currencies")}>>,
   <<Ref("fx_rates_daily"), {Ref("fx_pairs")}>>,
   <<Ref("markets"), {Ref("countries"), Ref("currencies")}>>,
   <<Ref("exchanges"), {Ref("markets"), Ref("countries"), Ref("currencies")}>>}

RefInstruments ==
  {<<Ref("instruments"),
     {Ref("exchanges"), Ref("markets"), Ref("gics_sectors"), Ref("gics_industries")}>>,
   <<Ref("contracts"), {Ref("instruments"), Ref("exchanges")}>>}

RefVendors ==
  {<<Ref("vendors"), {}>>, <<Ref("data_endpoints"), {Ref("vendors")}>>}

RefClassification ==
  {<<Ref("frequencies"), {}>>,
   <<Ref("gics_sectors"), {}>>,
   <<Ref("gics_industries"), {Ref("gics_sectors")}>>,
   <<Ref("instrument_daily"), {Ref("instruments")}>>}

\* storage/schemas/audit.py, universe.py
AuditTables == {<<Audit, {Ref("data_endpoints")}>>}

UniverseTables ==
  {<<Universe("indexes"), {Ref("markets")}>>,
   <<Universe("members"), {Universe("indexes"), Ref("instruments")}>>}

\* storage/schemas/market_in.py, market_us.py
BarDimensions == {Ref("instruments"), Ref("frequencies"), Ref("data_endpoints")}

FactsIn ==
  {<<Market("fact_equity"), BarDimensions>>,
   <<Market("fact_index"), BarDimensions>>,
   <<Market("fact_futures"), BarDimensions \cup {Ref("contracts")}>>}

FactsUs ==
  {<<<<"market_us", "fact_equity">>, BarDimensions>>,
   <<<<"market_us", "fact_index">>, BarDimensions>>,
   <<<<"market_us", "fact_futures">>, BarDimensions \cup {Ref("contracts")}>>}

\* storage/schemas/alt_political_us.py
LegislatorTables ==
  {<<Legislators, {Countries}>>,
   <<Political("legislator_terms"), {Legislators}>>,
   <<Political("legislator_fec_ids"), {Countries, Legislators}>>,
   <<Political("legislator_aliases"), {Countries, Legislators}>>}

CommitteeTables ==
  {<<Committees, {Countries, Committees}>>,
   <<Political("committee_assignments"), {Legislators, Committees}>>,
   <<Political("committee_sector_map"), {Committees}>>}

CodeTables ==
  {<<Political(t), {Countries}>>
     : t \in {"asset_type_codes", "lda_issue_codes", "lda_government_entities",
              "fec_committees", "contract_aliases", "lobby_client_aliases"}}

TradeTable ==
  {<<Trades, {Countries, Legislators, Endpoints, Ref("instruments"),
              Political("asset_type_codes")}>>}

ContractTable ==
  {<<Political("gov_contracts"), {Countries, Ref("instruments"), Endpoints}>>}

LobbyingTables ==
  {<<Political("lobbying_filings"), {Countries}>>,
   <<Political("lobbying_activities"),
     {Political("lobbying_filings"), Political("lda_issue_codes")}>>,
   <<Political("lobbying_activity_targets"),
     {Political("lobbying_activities"), Political("lda_government_entities")}>>,
   <<Political("lobbying_activity_lobbyists"), {Political("lobbying_activities")}>>}

DonationTable ==
  {<<Political("campaign_donations"),
     {Countries, Political("legislator_fec_ids"), Political("fec_committees")}>>}

BillTables ==
  {<<Political("bills"), {Countries}>>,
   <<Political("bill_sponsors"), {Political("bills"), Legislators}>>,
   <<Political("bill_committees"), {Political("bills"), Committees}>>,
   <<Political("bill_actions"), {Political("bills")}>>}

HearingTables ==
  {<<Political("hearings"), {Countries, Committees}>>,
   <<Political("hearing_witnesses"), {Political("hearings")}>>}

Metadata ==
  RefDimensions \cup RefInstruments \cup RefVendors \cup RefClassification \cup AuditTables
    \cup UniverseTables \cup FactsIn \cup FactsUs \cup LegislatorTables \cup CommitteeTables
    \cup CodeTables \cup TradeTable \cup ContractTable \cup LobbyingTables \cup DonationTable
    \cup BillTables \cup HearingTables

MetadataTables == {m[1] : m \in Metadata}
MetadataRefs   == UNION {{m[1]} \X m[2] : m \in Metadata}
=============================================================================
