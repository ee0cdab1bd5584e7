-------------------------- MODULE MarketReference --------------------------
(***************************************************************************)
(* The reference rows that live writers keep in ClickHouse v2               *)
(* (storage/v2_reference.py under v2_us.py and v2_india.py): a listing is   *)
(* four rows in four tables, inserted one after the other under identifiers *)
(* that are a hash of the provider's key, so that writing a row again adds  *)
(* nothing.  The verdict on each alias (meta.unresolved_entities) is only   *)
(* displayed, and left out.                                                *)
(***************************************************************************)
EXTENDS Naturals, Sequences, FiniteSets

CONSTANTS
  Symbols,   \* what providers list
  Unplaced   \* those whose exchange neither ref.exchanges nor US_EXTRA_EXCHANGES knows

ReferenceAssumption == Symbols \subseteq Nat /\ Unplaced \subseteq Symbols

VARIABLE
  rows       \* rows[s]: how many of Tables hold the listing of s

\* In the order of upsert_listing.
Tables == <<"entities", "securities", "listings", "identifier_aliases">>

ReferenceType == rows \in [Symbols -> 0 .. Len(Tables)]

ReferenceInit == rows = [s \in Symbols |-> 0]

\* _listing_reference joins the listing with its security, or no bar of it can be written.
Collectable(s) == rows[s] >= 3

Upserted(s) == rows[s] = Len(Tables)

\* One insert of upsert_listing; those before it, if repeated, change nothing.
UpsertRow(s) ==
  /\ s \notin Unplaced /\ ~Upserted(s)
  /\ rows' = [rows EXCEPT ![s] = @ + 1]

\* All four rows are there: the listing is answered.
UpsertEnds(s) ==
  /\ s \notin Unplaced /\ Upserted(s)
  /\ UNCHANGED rows

\* UnresolvedReference is raised before any row is written.
UpsertRefused(s) ==
  /\ s \in Unplaced
  /\ UNCHANGED rows

\* Records are prepared in the order of their symbols.
First(left) == CHOOSE s \in left : \A t \in left : s <= t

=============================================================================
