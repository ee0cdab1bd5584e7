------------------------- MODULE CollectorsProofs -------------------------
(***************************************************************************)
(* Proofs about the collectors of a host, for any number of resolvers,      *)
(* symbols and futures: what either market lists as active can be stored    *)
(* and is what its collector keeps to, and a hole in the India bars has a   *)
(* cause.  What PoliticalDailyProofs shows of the political orchestrator    *)
(* holds of it among the others.                                           *)
(***************************************************************************)
EXTENDS Collectors, PoliticalDailyProofs, WellFoundedInduction

-----------------------------------------------------------------------------
(* The invariants of the two lists. *)

Complete(s) == rows[s] = 4

\* A constituent a resolver is done with has its four rows.
Resolved(i) ==
  resolver[i].pc \in {"upserting", "publishing"} =>
    \A s \in resolver[i].resolved : s \in resolver[i].left \/ Complete(s)

\* A resolver publishes when it is done with all, over what it read unless it was crossed.
Prepared(i) ==
  resolver[i].pc = "publishing" =>
    /\ resolver[i].left = {}
    /\ resolver[i].crossed \/ resolver[i].prior = expected["daily"]

\* The tier is a part of the list the collector polled.
TierInv ==
  /\ tiering.tier \subseteq tiering.items
  /\ tiering.pruned /\ tiering.pc # "pruning" => expected["1min"] \subseteq tiering.items

UsInv ==
  /\ UsList!TypeOK
  /\ UsList!UniverseIsWhole
  /\ \A i \in Procs : Resolved(i) /\ Prepared(i)
  /\ \A s \in expected["daily"] \cup expected["1min"] \cup tiering.tier : rows[s] >= 3
  /\ TierInv

\* The collector has its listings before its contracts, and both before it activates.
Loading ==
  /\ daemon.pc = "equities" =>
       (\A s \in master.equities : s \in daemon.left \/ Complete(s)) /\ IndiaList!Nearest \subseteq daemon.due
  /\ daemon.pc \in {"futures", "activating"} => \A s \in master.equities : Complete(s)
  /\ daemon.pc = "futures" => IndiaList!Nearest \subseteq daemon.due \cup contracts
  /\ daemon.pc = "activating" => IndiaList!Nearest \subseteq contracts

Storable(x) ==
  IF x[1] = "equity" THEN rows[x[2]] >= 3
  ELSE x[2] \in contracts /\ Underlying[x[2]] \in Symbols /\ rows[Underlying[x[2]]] >= 3

IndiaInv ==
  /\ IndiaList!TypeOK
  /\ daemon.today => daemon.pc = "idle" /\ activated = daemon.polled
  /\ Loading
  /\ \A x \in activated \cup daemon.polled : Storable(x)

\* What the properties say of the lists follows from the invariants.
LEMMA ListsKept == UsInv /\ IndiaInv => SeriesKept
<1> SUFFICES ASSUME UsInv, IndiaInv PROVE SeriesKept
  OBVIOUS
<1>1. UsList!UniverseIsWhole /\ UsList!ActiveIsCollectable
  BY DEF UsInv, UsList!ActiveIsCollectable, UsList!Collectable
<1>2. UsList!TierFollows
  BY DEF UsInv, TierInv, UsList!TierFollows, UsList!Collector
<1>3. IndiaList!ActiveIsPolled
  BY DEF IndiaInv, IndiaList!ActiveIsPolled
<1>4. IndiaList!PolledIsStorable
  BY DEF IndiaInv, Storable, IndiaList!PolledIsStorable, IndiaList!Collectable
<1> QED BY <1>1, <1>2, <1>3, <1>4 DEF SeriesKept

-----------------------------------------------------------------------------
(* Listings. *)

\* An ingestion writes four tables.
LEMMA FourTables == Len(UsList!Tables) = 4 /\ Len(IndiaList!Tables) = 4
BY DEF UsList!Tables, IndiaList!Tables

\* Rows are only added.
Grown == rows' \in [Symbols -> 0 .. 4] /\ \A s \in Symbols : rows[s] <= rows'[s]

\* A step of either resolver only adds rows.
LEMMA RowAdded ==
  ASSUME rows \in [Symbols -> 0 .. 4], NEW s,
         \/ UsList!UpsertRow(s) \/ UsList!UpsertEnds(s) \/ UsList!UpsertRefused(s)
         \/ IndiaList!UpsertRow(s) \/ IndiaList!UpsertEnds(s) \/ IndiaList!UpsertRefused(s)
         \/ UNCHANGED rows
  PROVE  Grown
<1>1. CASE UNCHANGED rows
  BY <1>1 DEF Grown
<1>2. CASE UsList!UpsertRow(s) \/ IndiaList!UpsertRow(s)
  <2>1. rows' = [rows EXCEPT ![s] = @ + 1] /\ rows[s] # 4
    BY <1>2, FourTables DEF UsList!UpsertRow, IndiaList!UpsertRow, UsList!Upserted, IndiaList!Upserted
  <2>2. CASE s \in Symbols
    <3>1. rows' \in [Symbols -> 0 .. 4] /\ rows'[s] = rows[s] + 1
      BY <2>1, <2>2
    <3>2. \A x \in Symbols \ {s} : rows'[x] = rows[x]
      BY <2>1
    <3> QED BY <2>2, <3>1, <3>2 DEF Grown
  <2>3. CASE s \notin Symbols
    <3>1. rows' = rows
      BY <2>1, <2>3
    <3> QED BY <1>1, <3>1
  <2> QED BY <2>2, <2>3
<1>3. CASE \/ UsList!UpsertEnds(s) \/ UsList!UpsertRefused(s)
           \/ IndiaList!UpsertEnds(s) \/ IndiaList!UpsertRefused(s)
  BY <1>1, <1>3 DEF UsList!UpsertEnds, UsList!UpsertRefused, IndiaList!UpsertEnds, IndiaList!UpsertRefused
<1> QED BY <1>1, <1>2, <1>3

\* A listing with rows enough keeps them.
LEMMA GrownKeeps ==
  ASSUME rows \in [Symbols -> 0 .. 4], Grown, NEW s \in Symbols
  PROVE  (Complete(s) => Complete(s)') /\ (rows[s] >= 3 => rows'[s] >= 3)
BY DEF Grown, Complete

\* The row counts have one range, whichever list they belong to.
LEMMA RowsType ==
  /\ UsList!ReferenceType <=> rows \in [Symbols -> 0 .. 4]
  /\ IndiaList!ReferenceType <=> rows \in [Symbols -> 0 .. 4]
BY FourTables DEF UsList!ReferenceType, IndiaList!ReferenceType

-----------------------------------------------------------------------------
(* The US list. *)

Resolvers == [pc : {"asleep", "resolving", "upserting", "publishing", "retiring"},
              resolved : SUBSET Symbols, left : SUBSET Symbols, prior : SUBSET Symbols,
              crossed : BOOLEAN]
Tierings == [pc : {"down", "polling", "pruning", "collecting", "ranking"},
             items : SUBSET Symbols, tier : SUBSET Symbols, ranked : BOOLEAN, pruned : BOOLEAN]

\* The types of the variables of the American list.
LEMMA UsTypes ==
  ASSUME UsList!TypeOK
  PROVE  /\ rows \in [Symbols -> 0 .. 4] /\ expected \in [UsList!Keys -> SUBSET Symbols]
         /\ resolver \in [Procs -> Resolvers] /\ tiering \in Tierings
         /\ published \subseteq Symbols /\ mixed \in BOOLEAN
         /\ "daily" \in UsList!Keys /\ "1min" \in UsList!Keys /\ "eodhd" \in UsList!Keys
BY RowsType DEF UsList!TypeOK, UsList!Keys, Resolvers, Tierings

\* Steps of a resolver that only move its own record.
LEMMA ResolverMoves ==
  ASSUME UsInv, NEW i \in Procs, NEW new \in Resolvers, resolver' = [resolver EXCEPT ![i] = new],
         UNCHANGED <<rows, expected, tiering, published, mixed>>,
         new.pc \in {"upserting", "publishing"} =>
           \A s \in new.resolved : s \in new.left \/ Complete(s),
         new.pc = "publishing" => new.left = {} /\ new.prior = expected["daily"]
  PROVE  UsInv'
<1>1. UsList!TypeOK
  BY DEF UsInv
<1>2. resolver' \in [Procs -> Resolvers] /\ resolver'[i] = new /\ \A j \in Procs \ {i} : resolver'[j] = resolver[j]
  BY <1>1, UsTypes
<1>3. UsList!TypeOK'
  BY <1>1, <1>2 DEF UsList!TypeOK, UsList!ReferenceType, Resolvers
<1>4. \A j \in Procs : Resolved(j)' /\ Prepared(j)'
  BY <1>2 DEF UsInv, Resolved, Prepared, Complete
<1>5. UsList!UniverseIsWhole' /\ TierInv'
  BY DEF UsInv, UsList!UniverseIsWhole, TierInv
<1> QED BY <1>3, <1>4, <1>5 DEF UsInv

\* A resolver that sleeps, or is about to retire what left the list.
LEMMA AsleepType == UsList!Asleep \in Resolvers /\ [UsList!Asleep EXCEPT !.pc = "retiring"] \in Resolvers
BY DEF UsList!Asleep, Resolvers

\* Steps of the collector: its record, and the tier it writes.
LEMMA CollectorMoves ==
  ASSUME UsInv, tiering' \in Tierings, NEW tier \in SUBSET Symbols,
         expected' = [expected EXCEPT !["1min"] = tier],
         UNCHANGED <<rows, resolver, published, mixed>>,
         \A s \in tier \cup tiering'.tier : rows[s] >= 3,
         TierInv'
  PROVE  UsInv'
<1>1. UsList!TypeOK
  BY DEF UsInv
<1>2. expected' \in [UsList!Keys -> SUBSET Symbols] /\ expected'["daily"] = expected["daily"] /\ expected'["1min"] = tier
  BY <1>1, UsTypes
<1>3. UsList!TypeOK'
  BY <1>1, <1>2 DEF UsList!TypeOK, UsList!ReferenceType, Tierings
<1>4. \A j \in Procs : Resolved(j)' /\ Prepared(j)'
  BY <1>2 DEF UsInv, Resolved, Prepared, Complete
<1>5. UsList!UniverseIsWhole'
  BY <1>2 DEF UsInv, UsList!UniverseIsWhole
<1> QED BY <1>2, <1>3, <1>4, <1>5 DEF UsInv

\* Every step of the US list keeps its invariant.
LEMMA UsStep == UsInv /\ UsList!Next => UsInv' /\ Grown
<1> SUFFICES ASSUME UsInv, UsList!Next PROVE UsInv' /\ Grown
  OBVIOUS
<1> USE DEF UsList!At, UsList!Restful, UsList!Collector, UsList!Collects
<1>0. /\ UsList!TypeOK /\ rows \in [Symbols -> 0 .. 4] /\ expected \in [UsList!Keys -> SUBSET Symbols]
      /\ resolver \in [Procs -> Resolvers] /\ tiering \in Tierings
      /\ "daily" \in UsList!Keys /\ "1min" \in UsList!Keys /\ "eodhd" \in UsList!Keys
  BY UsTypes DEF UsInv
<1>1. UNCHANGED rows => Grown
  BY <1>0 DEF Grown
<1>2. ASSUME NEW i \in Procs, UsList!Wake(i) PROVE UsInv' /\ Grown
  <2> DEFINE new == [resolver[i] EXCEPT !.pc = "resolving"]
  <2>1. new \in Resolvers /\ new.pc = "resolving"
    BY <1>0 DEF Resolvers
  <2>2. resolver' = [resolver EXCEPT ![i] = new]
    BY <1>2 DEF UsList!Wake
  <2> HIDE DEF new
  <2> QED BY <1>1, <1>2, <2>1, <2>2, ResolverMoves DEF UsList!Wake
<1>3. ASSUME NEW i \in Procs, UsList!Resolve(i) PROVE UsInv' /\ Grown
  <2>1. PICK all \in SUBSET Symbols :
          resolver' \in {[resolver EXCEPT ![i] = [UsList!Asleep EXCEPT !.pc = "upserting", !.resolved = all, !.left = all]],
                         [resolver EXCEPT ![i] = UsList!Asleep]}
    BY <1>3 DEF UsList!Resolve, UsList!Retrieved
  <2> DEFINE new == [UsList!Asleep EXCEPT !.pc = "upserting", !.resolved = all, !.left = all]
  <2>2. new \in Resolvers /\ new.pc = "upserting" /\ new.resolved = all /\ new.left = all
    BY DEF UsList!Asleep, Resolvers
  <2>3. UsList!Asleep.pc = "asleep"
    BY DEF UsList!Asleep
  <2>4. UNCHANGED <<rows, expected, tiering, published, mixed>>
    BY <1>3 DEF UsList!Resolve
  <2>5. resolver' = [resolver EXCEPT ![i] = new] \/ resolver' = [resolver EXCEPT ![i] = UsList!Asleep]
    BY <2>1
  <2> HIDE DEF new
  <2> QED BY <1>1, <2>2, <2>3, <2>4, <2>5, AsleepType, ResolverMoves
<1>4. ASSUME NEW i \in Procs, UsList!Break(i) PROVE UsInv' /\ Grown
  <2>1. UsList!Asleep.pc = "asleep"
    BY DEF UsList!Asleep
  <2> QED BY <1>1, <1>4, <2>1, AsleepType, ResolverMoves DEF UsList!Break
<1>5. ASSUME NEW i \in Procs, UsList!Upsert(i) PROVE UsInv' /\ Grown
  <2> DEFINE s == UsList!First(resolver[i].left)
  <2>1. Grown
    <3>1. UsList!UpsertRow(s) \/ UsList!UpsertEnds(s) \/ UsList!UpsertRefused(s)
      BY <1>5 DEF UsList!Upsert
    <3> QED BY <1>0, <3>1, RowAdded
  <2>2. CASE UsList!UpsertRow(s) /\ UNCHANGED resolver
    <3>1. UNCHANGED <<expected, resolver, tiering, published, mixed>>
      BY <1>5, <2>2 DEF UsList!Upsert
    <3>2. \A j \in Procs : resolver[j].resolved \subseteq Symbols
      BY <1>0 DEF Resolvers
    <3>3. \A j \in Procs : Resolved(j)' /\ Prepared(j)'
      BY <1>0, <2>1, <3>1, <3>2, GrownKeeps DEF UsInv, Resolved, Prepared
    <3>4. expected["daily"] \cup expected["1min"] \cup tiering.tier \subseteq Symbols
      BY <1>0 DEF Tierings
    <3>5. \A x \in expected["daily"] \cup expected["1min"] \cup tiering.tier : rows'[x] >= 3
      BY <1>0, <2>1, <3>4, GrownKeeps DEF UsInv
    <3>6. UsList!TypeOK'
      BY <1>0, <2>1, <3>1, FourTables DEF UsList!TypeOK, UsList!ReferenceType, Grown
    <3> QED BY <2>1, <3>1, <3>3, <3>5, <3>6 DEF UsInv, UsList!UniverseIsWhole, TierInv
  <2>3. CASE UsList!UpsertEnds(s) /\ resolver' = [resolver EXCEPT ![i].left = @ \ {s}]
    <3> DEFINE new == [resolver[i] EXCEPT !.left = @ \ {s}]
    <3>1. /\ new \in Resolvers /\ new.pc = "upserting" /\ new.left = resolver[i].left \ {s}
          /\ new.resolved = resolver[i].resolved
      BY <1>0, <1>5 DEF UsList!Upsert, Resolvers
    <3>2. Complete(s) /\ UNCHANGED <<rows, expected, tiering, published, mixed>>
      BY <1>5, <2>3, FourTables DEF UsList!Upsert, UsList!UpsertEnds, UsList!Upserted, Complete
    <3>3. \A x \in new.resolved : x \in new.left \/ Complete(x)
      <4>1. \A x \in resolver[i].resolved : x \in resolver[i].left \/ Complete(x)
        BY <1>5 DEF UsInv, Resolved, UsList!Upsert
      <4> QED BY <3>1, <3>2, <4>1
    <3>4. resolver' = [resolver EXCEPT ![i] = new]
      BY <2>3
    <3> HIDE DEF new
    <3> QED BY <2>1, <3>1, <3>2, <3>3, <3>4, ResolverMoves
  <2>4. CASE UsList!UpsertRefused(s) /\ resolver' = [resolver EXCEPT ![i] = UsList!Asleep]
    <3>1. UsList!Asleep.pc = "asleep"
      BY DEF UsList!Asleep
    <3>2. UNCHANGED <<rows, expected, tiering, published, mixed>>
      BY <1>5, <2>4 DEF UsList!Upsert, UsList!UpsertRefused
    <3> QED BY <2>1, <2>4, <3>1, <3>2, AsleepType, ResolverMoves
  <2> QED BY <1>5, <2>2, <2>3, <2>4 DEF UsList!Upsert
<1>6. ASSUME NEW i \in Procs, UsList!ReadActive(i) PROVE UsInv' /\ Grown
  <2> DEFINE new == [resolver[i] EXCEPT !.pc = "publishing", !.prior = expected["daily"]]
  <2>1. /\ new \in Resolvers /\ new.pc = "publishing" /\ new.prior = expected["daily"]
        /\ new.left = resolver[i].left /\ new.resolved = resolver[i].resolved
    BY <1>0 DEF Resolvers
  <2>2. resolver' = [resolver EXCEPT ![i] = new] /\ resolver[i].left = {} /\ resolver[i].pc = "upserting"
    BY <1>6 DEF UsList!ReadActive
  <2>3. \A s \in new.resolved : s \in new.left \/ Complete(s)
    BY <2>1, <2>2 DEF UsInv, Resolved
  <2> HIDE DEF new
  <2> QED BY <1>1, <1>6, <2>1, <2>2, <2>3, ResolverMoves DEF UsList!ReadActive
<1>7. ASSUME NEW i \in Procs, UsList!Publish(i) PROVE UsInv' /\ Grown
  <2> DEFINE my == resolver[i]
  <2>1. /\ my.pc = "publishing" /\ my.left = {} /\ my.resolved \subseteq Symbols
        /\ \A s \in my.resolved : Complete(s)
    BY <1>0, <1>7 DEF UsList!Publish, UsInv, Resolved, Prepared, Resolvers
  <2>2. /\ expected' \in [UsList!Keys -> SUBSET Symbols]
        /\ expected'["daily"] = (expected["daily"] \ my.prior) \cup my.resolved
        /\ expected'["1min"] = expected["1min"]
    BY <1>0, <1>7, <2>1 DEF UsList!Publish, UsList!Synced
  <2>3. published' = my.resolved /\ mixed' = my.crossed /\ UNCHANGED <<rows, tiering>>
    BY <1>7 DEF UsList!Publish
  <2>4. my.crossed \/ my.prior = expected["daily"]
    BY <2>1 DEF UsInv, Prepared
  <2>5. UsList!UniverseIsWhole'
    BY <2>2, <2>3, <2>4 DEF UsList!UniverseIsWhole
  <2>6. resolver' \in [Procs -> Resolvers]
    <3>1. \A j \in Procs : [resolver[j] EXCEPT !.crossed = (resolver[j].pc = "publishing")] \in Resolvers
      BY <1>0 DEF Resolvers
    <3> QED BY <1>7, <3>1, AsleepType DEF UsList!Publish
  <2>7. my.crossed \in BOOLEAN
    BY <1>0 DEF Resolvers
  <2>8. UsList!TypeOK'
    BY <1>0, <2>1, <2>2, <2>3, <2>6, <2>7 DEF UsList!TypeOK, UsList!ReferenceType, Resolvers
  <2>9. ASSUME NEW j \in Procs PROVE Resolved(j)' /\ Prepared(j)'
    <3>1. CASE j = i
      <4>1. resolver'[j].pc = "retiring"
        BY <1>7, <3>1 DEF UsList!Publish, UsList!Asleep
      <4> QED BY <4>1 DEF Resolved, Prepared
    <3>2. CASE j # i
      <4>1. resolver'[j] = [resolver[j] EXCEPT !.crossed = (resolver[j].pc = "publishing")]
        BY <1>7, <3>2 DEF UsList!Publish
      <4>2. /\ resolver'[j].pc = resolver[j].pc /\ resolver'[j].left = resolver[j].left
            /\ resolver'[j].resolved = resolver[j].resolved
            /\ resolver'[j].crossed = (resolver[j].pc = "publishing")
        BY <1>0, <4>1 DEF Resolvers
      <4>3. Resolved(j) /\ Prepared(j)
        BY DEF UsInv
      <4> QED BY <2>3, <4>2, <4>3 DEF Resolved, Prepared, Complete
    <3> QED BY <3>1, <3>2
  <2>10. \A s \in expected'["daily"] \cup expected'["1min"] \cup tiering'.tier : rows'[s] >= 3
    BY <2>1, <2>2, <2>3 DEF UsInv, Complete
  <2>11. TierInv'
    BY <2>2, <2>3 DEF UsInv, TierInv
  <2> QED BY <1>1, <2>3, <2>5, <2>8, <2>9, <2>10, <2>11 DEF UsInv
<1>8. ASSUME NEW i \in Procs, UsList!Retire(i) PROVE UsInv' /\ Grown
  <2>1. /\ expected' \in [UsList!Keys -> SUBSET Symbols] /\ expected'["daily"] = expected["daily"]
        /\ expected'["1min"] = expected["1min"]
    BY <1>0, <1>8 DEF UsList!Retire
  <2>2. /\ resolver' \in [Procs -> Resolvers] /\ resolver'[i].pc = "asleep"
        /\ \A j \in Procs \ {i} : resolver'[j] = resolver[j]
        /\ UNCHANGED <<rows, tiering, published, mixed>>
    BY <1>0, <1>8, AsleepType DEF UsList!Retire, UsList!Asleep
  <2>3. UsList!TypeOK'
    BY <1>0, <2>1, <2>2 DEF UsList!TypeOK, UsList!ReferenceType, Resolvers
  <2>4. \A j \in Procs : Resolved(j)' /\ Prepared(j)'
    BY <2>1, <2>2 DEF UsInv, Resolved, Prepared, Complete
  <2> QED BY <1>1, <2>1, <2>2, <2>3, <2>4 DEF UsInv, UsList!UniverseIsWhole, TierInv
<1>9. expected = [expected EXCEPT !["1min"] = expected["1min"]] /\ expected["1min"] \subseteq Symbols
  BY <1>0
<1>10. \A s \in expected["1min"] \cup tiering.tier : rows[s] >= 3
  BY DEF UsInv
<1>11. ASSUME UsList!Start PROVE UsInv' /\ Grown
  <2>1. tiering' \in Tierings /\ tiering'.tier = {} /\ ~tiering'.pruned
    BY <1>11 DEF UsList!Start, UsList!Down, Tierings
  <2>2. TierInv'
    BY <2>1 DEF TierInv
  <2> QED BY <1>1, <1>9, <1>10, <1>11, <2>1, <2>2, CollectorMoves DEF UsList!Start
<1>12. ASSUME UsList!Kill PROVE UsInv' /\ Grown
  <2>1. tiering' \in Tierings /\ tiering'.tier = {} /\ ~tiering'.pruned
    BY <1>12 DEF UsList!Kill, UsList!Down, Tierings
  <2>2. TierInv'
    BY <2>1 DEF TierInv
  <2> QED BY <1>1, <1>9, <1>10, <1>12, <2>1, <2>2, CollectorMoves DEF UsList!Kill
<1>13. ASSUME UsList!Poll PROVE UsInv' /\ Grown
  <2> DEFINE now == expected["daily"]
  <2>1. CASE now = tiering.items
    <3>1. tiering' = [tiering EXCEPT !.pc = "collecting"]
      BY <1>13, <2>1 DEF UsList!Poll
    <3>2. /\ tiering' \in Tierings /\ tiering'.tier = tiering.tier /\ tiering'.items = tiering.items
          /\ tiering'.pruned = tiering.pruned
      BY <1>0, <3>1 DEF Tierings
    <3>3. TierInv'
      BY <1>13, <3>2 DEF TierInv, UsInv, UsList!Poll
    <3> QED BY <1>1, <1>9, <1>10, <1>13, <3>2, <3>3, CollectorMoves DEF UsList!Poll
  <2>2. CASE now # tiering.items
    <3>1. tiering' = [tiering EXCEPT !.pc = IF tiering.items \subseteq now THEN "collecting" ELSE "pruning",
                                     !.items = now, !.tier = tiering.tier \cap now, !.ranked = FALSE]
      BY <1>13, <2>2 DEF UsList!Poll
    <3>2. /\ tiering' \in Tierings /\ tiering'.tier = tiering.tier \cap now /\ tiering'.items = now
          /\ tiering'.pruned = tiering.pruned
          /\ tiering'.pc = IF tiering.items \subseteq now THEN "collecting" ELSE "pruning"
      BY <1>0, <3>1 DEF Tierings
    <3>3. TierInv'
      BY <1>13, <3>2 DEF TierInv, UsInv, UsList!Poll
    <3>4. \A s \in expected["1min"] \cup tiering'.tier : rows[s] >= 3
      BY <1>10, <3>2
    <3> QED BY <1>1, <1>9, <1>13, <3>2, <3>3, <3>4, CollectorMoves DEF UsList!Poll
  <2> QED BY <2>1, <2>2
<1>14. ASSUME UsList!Prune PROVE UsInv' /\ Grown
  <2> DEFINE kept == expected["1min"] \cap tiering.items
  <2>1. expected' = [expected EXCEPT !["1min"] = kept] /\ kept \subseteq Symbols
    BY <1>0, <1>9, <1>14 DEF UsList!Prune
  <2>2. tiering' = [tiering EXCEPT !.pc = "collecting", !.tier = kept, !.pruned = TRUE]
    BY <1>14 DEF UsList!Prune
  <2>3. tiering' \in Tierings /\ tiering'.tier = kept /\ tiering'.items = tiering.items
    BY <1>0, <2>1, <2>2 DEF Tierings
  <2>4. expected'["1min"] = kept
    BY <1>0, <2>1
  <2>5. TierInv'
    BY <2>3, <2>4 DEF TierInv
  <2>6. \A s \in kept : rows[s] >= 3
    BY <1>10
  <2> HIDE DEF kept
  <2> QED BY <1>1, <1>14, <2>1, <2>3, <2>5, <2>6, CollectorMoves DEF UsList!Prune
<1>15. ASSUME UsList!Rank PROVE UsInv' /\ Grown
  <2>1. PICK chosen \in SUBSET (tiering.items \cap expected["daily"]) :
          tiering' = [tiering EXCEPT !.pc = "ranking", !.tier = chosen]
    BY <1>15 DEF UsList!Rank
  <2>2. /\ tiering' \in Tierings /\ tiering'.tier = chosen /\ tiering'.items = tiering.items
        /\ tiering'.pruned = tiering.pruned /\ tiering.pc = "collecting"
    BY <1>0, <1>15, <2>1 DEF Tierings, UsList!Rank
  <2>3. TierInv'
    BY <1>15, <2>2 DEF TierInv, UsInv, UsList!Rank
  <2>4. \A s \in expected["1min"] \cup tiering'.tier : rows[s] >= 3
    BY <2>2 DEF UsInv
  <2> QED BY <1>1, <1>9, <1>15, <2>2, <2>3, <2>4, CollectorMoves DEF UsList!Rank
<1>16. ASSUME UsList!PublishTier PROVE UsInv' /\ Grown
  <2>1. expected' = [expected EXCEPT !["1min"] = tiering.tier] /\ tiering.tier \subseteq Symbols
    BY <1>0, <1>16 DEF UsList!PublishTier, UsList!Synced, Tierings
  <2>2. tiering' \in Tierings /\ tiering'.tier = tiering.tier /\ tiering'.items = tiering.items
    BY <1>0, <1>16 DEF UsList!PublishTier, Tierings
  <2>3. expected'["1min"] = tiering.tier
    BY <1>0, <2>1
  <2>4. TierInv'
    BY <2>2, <2>3 DEF TierInv, UsInv
  <2> QED BY <1>1, <1>10, <1>16, <2>1, <2>2, <2>4, CollectorMoves DEF UsList!PublishTier
<1>17. ASSUME UsList!WeekEnds \/ UsList!PollDue PROVE UsInv' /\ Grown
  <2>1. /\ tiering' \in Tierings /\ tiering'.tier = tiering.tier /\ tiering'.items = tiering.items
        /\ tiering'.pruned = tiering.pruned /\ tiering.pc = "collecting"
    BY <1>0, <1>17 DEF UsList!WeekEnds, UsList!PollDue, Tierings
  <2>2. UNCHANGED <<rows, expected, resolver, published, mixed>>
    BY <1>17 DEF UsList!WeekEnds, UsList!PollDue
  <2>3. TierInv'
    BY <2>1, <2>2 DEF TierInv, UsInv
  <2> QED BY <1>1, <1>9, <1>10, <2>1, <2>2, <2>3, CollectorMoves
<1> QED
  BY <1>2, <1>3, <1>4, <1>5, <1>6, <1>7, <1>8, <1>11, <1>12, <1>13, <1>14, <1>15, <1>16, <1>17
  DEF UsList!Next

-----------------------------------------------------------------------------
(* The Indian list. *)

Earlier == {p \in Nat \X Nat : p[1] < p[2]}

\* Descending chains of naturals end.
LEMMA EarlierWellFounded == IsWellFoundedOn(Earlier, Nat)
BY NatLessThanWellFounded, Zenon DEF OpToRel, Earlier

\* A set of naturals has a first element.
LEMMA FirstIn ==
  ASSUME NEW left \in SUBSET Nat, left # {}
  PROVE  IndiaList!First(left) \in left
<1>1. PICK s \in left : \A t \in left : <<t, s>> \notin Earlier
  BY EarlierWellFounded, WFMin, Zenon
<1>2. \A t \in left : t \in Nat /\ <<t, s>> \in Nat \X Nat
  OBVIOUS
<1>3. \A t \in left : ~(t < s)
  BY <1>1, <1>2 DEF Earlier
<1>4. \E x \in left : \A t \in left : x <= t
  BY <1>2, <1>3
<1> HIDE DEF Earlier
<1> QED BY <1>4 DEF IndiaList!First

Jobs == [pc : {"idle", "equities", "futures"}, left : SUBSET Symbols, due : SUBSET Futures]
Daemons == [pc : {"down", "starting", "idle", "equities", "futures", "activating"},
            left : SUBSET Symbols, due : SUBSET Futures, polled : SUBSET IndiaList!Series,
            begun : BOOLEAN, today : BOOLEAN, full : BOOLEAN]

\* The fields of the invariant by name.
LEMMA IndiaTypes ==
  /\ IndiaList!TypeOK <=>
       /\ rows \in [Symbols -> 0 .. 4] /\ master \in IndiaList!Masters
       /\ contracts \subseteq Futures /\ activated \subseteq IndiaList!Series
       /\ daemon \in Daemons /\ premarket \in Jobs
  /\ IndiaList!Idle \in Jobs /\ IndiaList!Down \in Daemons
BY RowsType DEF IndiaList!TypeOK, Daemons, Jobs, IndiaList!Idle, IndiaList!Down

\* What the two lists assume of the constants.
LEMMA ListAssumptions ==
  /\ Symbols \subseteq Nat /\ Futures \subseteq Nat
  /\ Underlying \in [Futures -> Symbols \cup {Index}] /\ Index \notin Symbols
BY CollectorsAssumption DEF IndiaList!FuturesAssumption, UsList!ReferenceAssumption

\* What can be stored can still be stored when rows and contracts have been added.
LEMMA StorableGrows ==
  ASSUME rows \in [Symbols -> 0 .. 4], Grown, contracts \subseteq contracts',
         NEW x \in IndiaList!Series, Storable(x)
  PROVE  Storable(x)'
<1>1. CASE x[1] = "equity"
  <2>1. x[2] \in Symbols
    BY <1>1 DEF IndiaList!Series, IndiaList!Equity, IndiaList!Future
  <2> QED BY <1>1, <2>1 DEF Storable, Grown
<1>2. CASE x[1] # "equity"
  BY <1>2 DEF Storable, Grown
<1> QED BY <1>1, <1>2

\* The near futures are listed, and of listed equities.
LEMMA NearestOf ==
  ASSUME master \in IndiaList!Masters
  PROVE  /\ IndiaList!Nearest \subseteq master.futures /\ master.futures \subseteq Futures
         /\ master.equities \subseteq Symbols
         /\ \A f \in IndiaList!Nearest : Underlying[f] \in master.equities
BY DEF IndiaList!Masters, IndiaList!Nearest

\* Steps that activate nothing and after which the daemon is where its references allow.
LEMMA ReferencesMove ==
  ASSUME IndiaInv, Grown, contracts \subseteq contracts', contracts' \subseteq Futures,
         UNCHANGED <<master, activated>>, premarket' \in Jobs, daemon' \in Daemons,
         daemon'.polled \subseteq daemon.polled,
         daemon'.today => daemon'.pc = "idle" /\ activated = daemon'.polled,
         Loading'
  PROVE  IndiaInv'
<1>1. IndiaList!TypeOK'
  <2>1. /\ rows' \in [Symbols -> 0 .. 4] /\ master' \in IndiaList!Masters
        /\ contracts' \subseteq Futures /\ activated' \subseteq IndiaList!Series
    BY IndiaTypes DEF IndiaInv, Grown
  <2> QED BY <2>1, FourTables DEF IndiaList!TypeOK, IndiaList!ReferenceType, Daemons, Jobs
<1>2. ASSUME NEW x \in activated' \cup daemon'.polled PROVE Storable(x)'
  <2>1. x \in activated \cup daemon.polled /\ Storable(x)
    BY <1>2 DEF IndiaInv
  <2>2. x \in IndiaList!Series /\ rows \in [Symbols -> 0 .. 4]
    BY <2>1, IndiaTypes DEF IndiaInv, Daemons
  <2> QED BY <2>1, <2>2, StorableGrows
<1> QED BY <1>1, <1>2 DEF IndiaInv

\* The references the daemon has are kept while others are added.
LEMMA LoadingKept ==
  ASSUME IndiaInv, Grown, contracts \subseteq contracts', UNCHANGED <<master, daemon>>
  PROVE  Loading'
<1>1. \A s \in master.equities : Complete(s) => Complete(s)'
  BY IndiaTypes, NearestOf, GrownKeeps DEF IndiaInv
<1>2. IndiaList!Nearest' = IndiaList!Nearest
  BY DEF IndiaList!Nearest
<1> QED BY <1>1, <1>2 DEF IndiaInv, Loading

\* One step of the two syncs: what it may add.
LEMMA Synced ==
  ASSUME IndiaList!TypeOK, NEW job, NEW stepped, NEW failed,
         job.left \subseteq Symbols, job.due \subseteq Futures,
         \/ IndiaList!SyncEquity(job, stepped, failed)
         \/ IndiaList!EquitiesEnd(job, stepped)
         \/ IndiaList!SyncFuture(job, stepped, failed)
  PROVE  /\ Grown /\ contracts \subseteq contracts' /\ contracts' \subseteq Futures
         /\ UNCHANGED <<master, activated>>
<1>0. rows \in [Symbols -> 0 .. 4] /\ contracts \subseteq Futures
  BY IndiaTypes
<1>1. CASE IndiaList!SyncEquity(job, stepped, failed)
  <2>1. Grown
    BY <1>0, <1>1, RowAdded DEF IndiaList!SyncEquity
  <2> QED BY <1>0, <1>1, <2>1 DEF IndiaList!SyncEquity, IndiaList!series
<1>2. CASE IndiaList!EquitiesEnd(job, stepped)
  BY <1>0, <1>2 DEF IndiaList!EquitiesEnd, IndiaList!series, Grown
<1>3. CASE IndiaList!SyncFuture(job, stepped, failed)
  <2>1. IndiaList!First(job.due) \in Futures
    BY <1>3, FirstIn, ListAssumptions DEF IndiaList!SyncFuture
  <2> QED BY <1>0, <1>3, <2>1 DEF IndiaList!SyncFuture, Grown
<1> QED BY <1>1, <1>2, <1>3

\* Where an interrupted configuration leaves the daemon.
LEMMA FailedType ==
  ASSUME daemon \in Daemons
  PROVE  /\ IndiaList!Failed(daemon) \in Daemons
         /\ IndiaList!Failed(daemon).pc \in {"idle", "down"}
         /\ IndiaList!Failed(daemon).polled \subseteq daemon.polled
         /\ IndiaList!Failed(daemon).today => daemon.today
BY DEF IndiaList!Failed, IndiaList!Rested, IndiaList!Down, Daemons

\* An interrupted configuration keeps the invariant, whatever references it has added.
LEMMA FailedMoves ==
  ASSUME IndiaInv, Grown, contracts \subseteq contracts', contracts' \subseteq Futures,
         UNCHANGED <<master, activated, premarket>>,
         daemon.pc \in {"equities", "futures", "activating"},
         daemon' = IndiaList!Failed(daemon)
  PROVE  IndiaInv'
<1>1. daemon \in Daemons /\ premarket \in Jobs /\ ~daemon.today
  BY IndiaTypes DEF IndiaInv
<1>2. Loading'
  BY <1>1, FailedType DEF Loading
<1> QED BY <1>1, <1>2, FailedType, ReferencesMove

\* Every step of the Indian list keeps its invariant.
LEMMA IndiaStep == IndiaInv /\ IndiaList!Next => IndiaInv' /\ Grown
<1> SUFFICES ASSUME IndiaInv, IndiaList!Next PROVE IndiaInv' /\ Grown
  OBVIOUS
<1>0. /\ IndiaList!TypeOK /\ rows \in [Symbols -> 0 .. 4] /\ master \in IndiaList!Masters
      /\ contracts \subseteq Futures /\ activated \subseteq IndiaList!Series
      /\ daemon \in Daemons /\ premarket \in Jobs
  BY IndiaTypes DEF IndiaInv
<1>1. UNCHANGED rows => Grown
  BY <1>0 DEF Grown
<1>2. /\ daemon.left \subseteq Symbols /\ daemon.due \subseteq Futures /\ daemon.polled \subseteq IndiaList!Series
      /\ premarket.left \subseteq Symbols /\ premarket.due \subseteq Futures
      /\ master.equities \subseteq Symbols /\ master.futures \subseteq Futures
  BY <1>0 DEF Daemons, Jobs, IndiaList!Masters
<1>3. ASSUME IndiaList!Premarket PROVE IndiaInv' /\ Grown
  <2>1. /\ Grown /\ contracts \subseteq contracts' /\ contracts' \subseteq Futures
        /\ UNCHANGED <<master, activated, daemon>>
    <3>1. CASE \/ IndiaList!SyncEquity(premarket, premarket', IndiaList!Idle)
               \/ IndiaList!EquitiesEnd(premarket, premarket')
               \/ IndiaList!SyncFuture(premarket, premarket', IndiaList!Idle)
      BY <1>0, <1>2, <1>3, <3>1, Synced DEF IndiaList!Premarket
    <3>2. CASE UNCHANGED <<rows, master, IndiaList!series>>
      BY <1>0, <1>1, <1>3, <3>2 DEF IndiaList!Premarket, IndiaList!series
    <3> QED BY <1>3, <3>1, <3>2 DEF IndiaList!Premarket
  <2>2. premarket' \in Jobs
    <3>1. CASE premarket' = IndiaList!Loaded(premarket, master.futures)
      BY <1>0, <1>2, <3>1 DEF IndiaList!Loaded, Jobs
    <3>2. CASE IndiaList!SyncEquity(premarket, premarket', IndiaList!Idle)
      BY <1>0, <3>2, IndiaTypes DEF IndiaList!SyncEquity, Jobs
    <3>3. CASE IndiaList!EquitiesEnd(premarket, premarket')
      BY <1>0, <3>3 DEF IndiaList!EquitiesEnd, Jobs
    <3>4. CASE IndiaList!SyncFuture(premarket, premarket', IndiaList!Idle)
      BY <1>0, <3>4, IndiaTypes DEF IndiaList!SyncFuture, Jobs
    <3>5. CASE premarket' = IndiaList!Idle
      BY <3>5, IndiaTypes
    <3> QED BY <1>3, <3>1, <3>2, <3>3, <3>4, <3>5 DEF IndiaList!Premarket
  <2>3. Loading'
    BY <2>1, LoadingKept
  <2> QED BY <1>0, <2>1, <2>2, <2>3, ReferencesMove DEF IndiaInv
<1>4. ASSUME IndiaList!Start PROVE IndiaInv' /\ Grown
  <2>1. PICK full \in BOOLEAN : daemon' = [IndiaList!Down EXCEPT !.pc = "starting", !.full = full]
    BY <1>4 DEF IndiaList!Start
  <2>2. daemon' \in Daemons /\ daemon'.pc = "starting" /\ daemon'.polled = {} /\ ~daemon'.today
    BY <2>1 DEF IndiaList!Down, Daemons
  <2>3. Loading'
    BY <2>2 DEF Loading
  <2> QED BY <1>0, <1>1, <1>4, <2>2, <2>3, ReferencesMove DEF IndiaList!Start, IndiaList!series
<1>5. ASSUME IndiaList!Configure PROVE IndiaInv' /\ Grown
  <2> DEFINE wanted == IF daemon.full THEN IndiaList!Nearest ELSE master.futures
  <2>1. daemon' = [daemon EXCEPT !.pc = "equities", !.left = master.equities, !.due = wanted]
    BY <1>5 DEF IndiaList!Configure, IndiaList!Loaded
  <2>2. IndiaList!Nearest \subseteq wanted /\ wanted \subseteq Futures
    BY <1>0, NearestOf
  <2> HIDE DEF wanted
  <2>3. /\ daemon' \in Daemons /\ daemon'.pc = "equities" /\ daemon'.polled = daemon.polled
        /\ daemon'.today = daemon.today /\ daemon'.left = master.equities /\ daemon'.due = wanted
    BY <1>0, <1>2, <2>1, <2>2 DEF Daemons
  <2>4. ~daemon.today /\ UNCHANGED <<rows, master, contracts, activated, premarket>>
    BY <1>5 DEF IndiaList!Configure, IndiaList!series
  <2>5. IndiaList!Nearest' = IndiaList!Nearest
    BY <2>4 DEF IndiaList!Nearest
  <2>6. Loading'
    BY <2>2, <2>3, <2>4, <2>5 DEF Loading
  <2> QED BY <1>0, <1>1, <2>3, <2>4, <2>6, ReferencesMove
<1>6. ASSUME IndiaList!Sync PROVE IndiaInv' /\ Grown
  <2>1. /\ Grown /\ contracts \subseteq contracts' /\ contracts' \subseteq Futures
        /\ UNCHANGED <<master, activated, premarket>>
    BY <1>0, <1>2, <1>6, Synced DEF IndiaList!Sync
  <2>2. CASE daemon' = daemon
    BY <1>0, <2>1, <2>2, LoadingKept, ReferencesMove DEF IndiaInv
  <2>3. CASE daemon' = IndiaList!Failed(daemon) /\ daemon.pc \in {"equities", "futures"}
    BY <2>1, <2>3, FailedMoves
  <2>4. ~daemon.today \/ daemon.pc = "idle"
    BY DEF IndiaInv
  <2>5. IndiaList!Nearest' = IndiaList!Nearest
    BY <2>1 DEF IndiaList!Nearest
  <2>6. \A s \in master.equities : Complete(s) => Complete(s)'
    BY <1>0, <1>2, <2>1, GrownKeeps
  <2>7. ASSUME NEW s, IndiaList!UpsertEnds(s), daemon.pc = "equities",
               daemon' = [daemon EXCEPT !.left = @ \ {s}]
        PROVE  IndiaInv'
    <3>1. /\ daemon' \in Daemons /\ daemon'.pc = "equities" /\ daemon'.polled = daemon.polled
          /\ daemon'.today = daemon.today /\ daemon'.left = daemon.left \ {s} /\ daemon'.due = daemon.due
      BY <1>0, <2>7 DEF Daemons
    <3>2. Complete(s)'
      BY <2>7, FourTables DEF IndiaList!UpsertEnds, IndiaList!Upserted, Complete
    <3>3. Loading'
      BY <2>1, <2>5, <2>6, <2>7, <3>1, <3>2 DEF Loading, IndiaInv
    <3> QED BY <1>0, <2>1, <2>4, <2>7, <3>1, <3>3, ReferencesMove
  <2>8. ASSUME IndiaList!EquitiesEnd(daemon, daemon') PROVE IndiaInv'
    <3>1. daemon.pc = "equities" /\ daemon.left = {} /\ daemon' = [daemon EXCEPT !.pc = "futures"]
      BY <2>8 DEF IndiaList!EquitiesEnd
    <3>2. /\ daemon' \in Daemons /\ daemon'.pc = "futures" /\ daemon'.polled = daemon.polled
          /\ daemon'.today = daemon.today /\ daemon'.due = daemon.due
      BY <1>0, <3>1 DEF Daemons
    <3>3. Loading'
      BY <2>1, <2>5, <2>6, <3>1, <3>2 DEF Loading, IndiaInv
    <3> QED BY <1>0, <2>1, <2>4, <3>1, <3>2, <3>3, ReferencesMove
  <2>9. ASSUME NEW f, daemon.pc = "futures", contracts' = contracts \cup {f},
               daemon' = [daemon EXCEPT !.due = @ \ {f}]
        PROVE  IndiaInv'
    <3>1. /\ daemon' \in Daemons /\ daemon'.pc = "futures" /\ daemon'.polled = daemon.polled
          /\ daemon'.today = daemon.today /\ daemon'.due = daemon.due \ {f}
      BY <1>0, <2>9 DEF Daemons
    <3>2. Loading'
      BY <2>1, <2>5, <2>6, <2>9, <3>1 DEF Loading, IndiaInv
    <3> QED BY <1>0, <2>1, <2>4, <2>9, <3>1, <3>2, ReferencesMove
  <2>10. CASE IndiaList!SyncEquity(daemon, daemon', IndiaList!Failed(daemon))
    <3> DEFINE s == IndiaList!First(daemon.left)
    <3>1. daemon.pc = "equities"
      BY <2>10 DEF IndiaList!SyncEquity
    <3>2. \/ daemon' = daemon
          \/ IndiaList!UpsertEnds(s) /\ daemon' = [daemon EXCEPT !.left = @ \ {s}]
          \/ daemon' = IndiaList!Failed(daemon)
      BY <2>10 DEF IndiaList!SyncEquity
    <3> HIDE DEF s
    <3>3. CASE IndiaList!UpsertEnds(s) /\ daemon' = [daemon EXCEPT !.left = @ \ {s}]
      BY <2>1, <2>7, <3>1, <3>3
    <3> QED BY <2>2, <2>3, <3>1, <3>2, <3>3
  <2>11. CASE IndiaList!SyncFuture(daemon, daemon', IndiaList!Failed(daemon))
    <3> DEFINE f == IndiaList!First(daemon.due)
    <3>1. /\ daemon.pc = "futures"
          /\ \/ contracts' = contracts \cup {f} /\ daemon' = [daemon EXCEPT !.due = @ \ {f}]
             \/ daemon' = IndiaList!Failed(daemon)
      BY <2>11 DEF IndiaList!SyncFuture
    <3> HIDE DEF f
    <3>2. CASE contracts' = contracts \cup {f} /\ daemon' = [daemon EXCEPT !.due = @ \ {f}]
      BY <2>1, <2>9, <3>1, <3>2
    <3> QED BY <2>3, <3>1, <3>2
  <2> QED BY <1>6, <2>1, <2>8, <2>10, <2>11 DEF IndiaList!Sync
<1>7. ASSUME IndiaList!Compose PROVE IndiaInv' /\ Grown
  <2>1. CASE daemon' = IndiaList!Failed(daemon)
    BY <1>0, <1>1, <1>7, <2>1, FailedMoves DEF IndiaList!Compose, IndiaList!series
  <2>2. CASE daemon' = [daemon EXCEPT !.pc = "activating"]
    <3>1. /\ daemon' \in Daemons /\ daemon'.pc = "activating" /\ daemon'.polled = daemon.polled
          /\ daemon'.today = daemon.today
      BY <1>0, <2>2 DEF Daemons
    <3>2. /\ daemon.pc = "futures" /\ daemon.due = {}
          /\ UNCHANGED <<rows, master, contracts, activated, premarket>>
      BY <1>7 DEF IndiaList!Compose, IndiaList!series
    <3>3. IndiaList!Nearest' = IndiaList!Nearest
      BY <3>2 DEF IndiaList!Nearest
    <3>4. Loading' /\ ~daemon.today
      BY <3>1, <3>2, <3>3 DEF Loading, IndiaInv, Complete
    <3> QED BY <1>0, <1>1, <3>1, <3>2, <3>4, ReferencesMove
  <2> QED BY <1>7, <2>1, <2>2 DEF IndiaList!Compose
<1>8. daemon.pc = "activating" => \A x \in IndiaList!Configured : x \in IndiaList!Series /\ Storable(x)
  <2> SUFFICES ASSUME daemon.pc = "activating", NEW x \in IndiaList!Configured
               PROVE  x \in IndiaList!Series /\ Storable(x)
    OBVIOUS
  <2>1. /\ \A s \in master.equities : Complete(s)
        /\ IndiaList!Nearest \subseteq contracts
    BY DEF IndiaInv, Loading
  <2>2. CASE \E s \in master.equities : x = <<"equity", s>>
    BY <1>2, <2>1, <2>2 DEF IndiaList!Series, IndiaList!Equity, Storable, Complete
  <2>3. CASE \E f \in IndiaList!Nearest : x = <<"future", f>>
    <3>1. PICK f \in IndiaList!Nearest : x = <<"future", f>>
      BY <2>3
    <3>2. f \in Futures /\ f \in contracts /\ Underlying[f] \in master.equities
      BY <1>0, <2>1, NearestOf
    <3>3. x \in IndiaList!Series
      BY <3>1, <3>2 DEF IndiaList!Series, IndiaList!Future
    <3>4. x[1] = "future" /\ x[2] = f
      BY <3>1
    <3> QED BY <1>2, <2>1, <3>2, <3>3, <3>4 DEF Storable, Complete
  <2> QED BY <2>2, <2>3 DEF IndiaList!Configured, IndiaList!Equity, IndiaList!Future
<1>9. ASSUME IndiaList!Activate \/ IndiaList!ActivatedUnheard PROVE IndiaInv' /\ Grown
  <2>1. /\ daemon.pc = "activating" /\ activated' = IndiaList!Configured
        /\ UNCHANGED <<rows, master, contracts, premarket>>
    BY <1>9 DEF IndiaList!Activate, IndiaList!ActivatedUnheard
  <2>2. /\ daemon' \in Daemons /\ daemon'.pc \in {"idle", "down"}
        /\ daemon'.polled \subseteq daemon.polled \cup IndiaList!Configured
        /\ daemon'.today => daemon'.pc = "idle" /\ daemon'.polled = IndiaList!Configured
    <3>1. CASE IndiaList!Activate
      <4>1. IndiaList!Configured \subseteq IndiaList!Series
        BY <1>8, <2>1
      <4>2. daemon' = [daemon EXCEPT !.pc = "idle", !.left = {}, !.due = {}, !.begun = TRUE,
                                     !.today = TRUE, !.polled = IndiaList!Configured]
        BY <1>0, <3>1 DEF IndiaList!Activate, IndiaList!Rested, Daemons
      <4> HIDE DEF IndiaList!Configured
      <4> QED BY <1>0, <4>1, <4>2 DEF Daemons
    <3>2. CASE IndiaList!ActivatedUnheard
      <4>1. daemon' = IndiaList!Failed(daemon) /\ ~daemon.today
        BY <2>1, <3>2 DEF IndiaList!ActivatedUnheard, IndiaInv
      <4> QED BY <1>0, <4>1, FailedType
    <3> QED BY <1>9, <3>1, <3>2
  <2>3. Loading'
    BY <2>2 DEF Loading
  <2>4. \A x \in activated' \cup daemon'.polled : Storable(x)'
    <3> SUFFICES ASSUME NEW x \in activated' \cup daemon'.polled PROVE Storable(x)'
      OBVIOUS
    <3>1. x \in IndiaList!Configured \/ x \in daemon.polled
      BY <2>1, <2>2
    <3>2. Storable(x)
      BY <1>8, <2>1, <3>1 DEF IndiaInv
    <3> QED BY <2>1, <3>2 DEF Storable
  <2>5. IndiaList!TypeOK'
    <3>1. activated' \subseteq IndiaList!Series
      BY <1>8, <2>1
    <3> QED BY <1>0, <2>1, <2>2, <3>1 DEF IndiaList!TypeOK, IndiaList!ReferenceType, Daemons
  <2> QED BY <1>1, <2>1, <2>2, <2>3, <2>4, <2>5 DEF IndiaInv
<1>10. ASSUME IndiaList!Break PROVE IndiaInv' /\ Grown
  BY <1>0, <1>1, <1>10, FailedMoves DEF IndiaList!Break, IndiaList!series
<1>11. ASSUME IndiaList!Kill PROVE IndiaInv' /\ Grown
  <2>1. daemon' \in Daemons /\ daemon'.pc = "down" /\ daemon'.polled = {} /\ ~daemon'.today
    BY <1>11, IndiaTypes DEF IndiaList!Kill, IndiaList!Down
  <2>2. Loading'
    BY <2>1 DEF Loading
  <2> QED BY <1>0, <1>1, <1>11, <2>1, <2>2, ReferencesMove DEF IndiaList!Kill, IndiaList!series
<1>12. ASSUME IndiaList!DayPasses PROVE IndiaInv' /\ Grown
  <2>1. /\ daemon' \in Daemons /\ daemon'.pc \in {"down", "idle"} /\ ~daemon'.today
        /\ daemon'.polled = daemon.polled
    BY <1>0, <1>12 DEF IndiaList!DayPasses, Daemons
  <2>2. master' \in IndiaList!Masters /\ UNCHANGED <<rows, contracts, activated, premarket>>
    BY <1>12 DEF IndiaList!DayPasses, IndiaList!series
  <2>3. IndiaList!TypeOK'
    BY <1>0, <2>1, <2>2 DEF IndiaList!TypeOK, IndiaList!ReferenceType, IndiaList!Masters, Daemons
  <2>4. Loading'
    BY <2>1 DEF Loading
  <2>5. \A x \in activated' \cup daemon'.polled : Storable(x)'
    BY <2>1, <2>2 DEF Storable, IndiaInv
  <2> QED BY <1>1, <2>1, <2>2, <2>3, <2>4, <2>5 DEF IndiaInv
<1> QED
  BY <1>3, <1>4, <1>5, <1>6, <1>7, <1>9, <1>10, <1>11, <1>12 DEF IndiaList!Next

-----------------------------------------------------------------------------
(* The collectors together. *)

\* The first lists are empty.
LEMMA ListsBegin == CollectorsInit => UsInv /\ IndiaInv
<1> SUFFICES ASSUME CollectorsInit PROVE UsInv /\ IndiaInv
  OBVIOUS
<1>0. rows = [s \in Symbols |-> 0]
  BY DEF CollectorsInit, UsList!Init, UsList!ReferenceInit
<1>1. rows \in [Symbols -> 0 .. 4]
  BY <1>0
<1>2. UsInv
  <2>1. /\ expected \in [UsList!Keys -> SUBSET Symbols] /\ expected["daily"] = {} /\ expected["1min"] = {}
    BY DEF CollectorsInit, UsList!Init, UsList!Keys
  <2>2. /\ resolver = [i \in Procs |-> UsList!Asleep] /\ resolver \in [Procs -> Resolvers]
        /\ \A i \in Procs : resolver[i].pc = "asleep"
    <3>1. resolver = [i \in Procs |-> UsList!Asleep] /\ UsList!Asleep.pc = "asleep"
      BY DEF CollectorsInit, UsList!Init, UsList!Asleep
    <3> QED BY <3>1, AsleepType
  <2>3. /\ tiering \in Tierings /\ tiering.tier = {} /\ ~tiering.pruned /\ published = {} /\ mixed = FALSE
    BY DEF CollectorsInit, UsList!Init, UsList!Down, Tierings
  <2>4. UsList!TypeOK
    BY <1>1, <2>1, <2>2, <2>3, RowsType DEF UsList!TypeOK, Resolvers, Tierings
  <2> QED BY <2>1, <2>2, <2>3, <2>4 DEF UsInv, UsList!UniverseIsWhole, Resolved, Prepared, TierInv
<1>3. IndiaInv
  <2>1. daemon.pc = "down" /\ daemon.polled = {} /\ ~daemon.today /\ activated = {}
    BY DEF CollectorsInit, IndiaList!Init, IndiaList!Down
  <2>2. IndiaList!TypeOK
    BY <1>1, IndiaTypes DEF CollectorsInit, IndiaList!Init
  <2> QED BY <2>1, <2>2 DEF IndiaInv, Loading
<1> QED BY <1>2, <1>3

\* A list rests while the other market adds listings.
LEMMA OthersGrow ==
  /\ UsInv /\ Grown /\ UNCHANGED usListVars => UsInv'
  /\ IndiaInv /\ Grown /\ UNCHANGED indiaListVars => IndiaInv'
<1>1. ASSUME UsInv, Grown, UNCHANGED usListVars PROVE UsInv'
  <2>1. UNCHANGED <<expected, resolver, tiering, published, mixed>>
    BY <1>1 DEF usListVars
  <2>2. /\ UsList!TypeOK /\ rows \in [Symbols -> 0 .. 4] /\ resolver \in [Procs -> Resolvers]
        /\ expected \in [UsList!Keys -> SUBSET Symbols] /\ tiering \in Tierings
        /\ "daily" \in UsList!Keys /\ "1min" \in UsList!Keys
    BY <1>1, UsTypes DEF UsInv
  <2>3. \A j \in Procs : Resolved(j)' /\ Prepared(j)'
    <3>1. \A j \in Procs : resolver[j].resolved \subseteq Symbols
      BY <2>2 DEF Resolvers
    <3> QED BY <1>1, <2>1, <2>2, <3>1, GrownKeeps DEF UsInv, Resolved, Prepared
  <2>4. \A s \in expected["daily"] \cup expected["1min"] \cup tiering.tier : rows'[s] >= 3
    <3>1. expected["daily"] \cup expected["1min"] \cup tiering.tier \subseteq Symbols
      BY <2>2 DEF Tierings
    <3> QED BY <1>1, <2>2, <3>1, GrownKeeps DEF UsInv
  <2>5. UsList!TypeOK'
    BY <1>1, <2>1, <2>2, FourTables DEF UsList!TypeOK, UsList!ReferenceType, Grown
  <2> QED BY <1>1, <2>1, <2>3, <2>4, <2>5 DEF UsInv, UsList!UniverseIsWhole, TierInv
<1>2. ASSUME IndiaInv, Grown, UNCHANGED indiaListVars PROVE IndiaInv'
  <2>1. UNCHANGED <<master, contracts, activated, daemon, premarket>>
    BY <1>2 DEF indiaListVars
  <2>2. contracts \subseteq Futures /\ daemon \in Daemons /\ premarket \in Jobs
    BY <1>2, IndiaTypes DEF IndiaInv
  <2> QED BY <1>2, <2>1, <2>2, LoadingKept, ReferencesMove DEF IndiaInv
<1> QED BY <1>1, <1>2

\* Every step of the collectors keeps the invariants of both lists.
LEMMA ListsStep == UsInv /\ IndiaInv /\ [CollectorsNext]_allVars => (UsInv /\ IndiaInv)'
<1> SUFFICES ASSUME UsInv, IndiaInv, [CollectorsNext]_allVars PROVE (UsInv /\ IndiaInv)'
  OBVIOUS
<1>1. CASE UNCHANGED <<rows, usListVars, indiaListVars>>
  <2>1. Grown
    BY <1>1, UsTypes DEF UsInv, Grown
  <2> QED BY <1>1, <2>1, OthersGrow
<1>2. CASE Us(UsList!Next)
  BY <1>2, UsStep, OthersGrow DEF Us
<1>3. CASE IndianList(IndiaList!Next)
  BY <1>3, IndiaStep, OthersGrow DEF IndianList
<1> QED BY <1>1, <1>2, <1>3 DEF CollectorsNext, Political, Indian, allVars

\* What is collected in either market is one published universe, can be stored, and is what
\* its collector keeps to, through every crash, refusal and crossing of the resolvers, the
\* collectors and the job before the session.
THEOREM ListsHold == CollectorsSpec => []SeriesKept
BY ListsBegin, ListsStep, ListsKept, PTL DEF CollectorsSpec

-----------------------------------------------------------------------------
(* The India minute collector. *)

\* A session that should be stored by now.
Unloaded(a) == bars[a] # "full" /\ (a = 1 \/ older \/ \E b \in a .. Retention : bars[b] # "none")

\* A session that a later one is stored of.
Passed(a) == \E b \in 1 .. a - 1 : bars[b] # "none"

\* A recovery goes from the oldest window to the latest: what lies behind it is accounted for,
\* and so is what was passed before it came there.
Recovering ==
  /\ proc.from >= 1 /\ (proc.sameDate => proc.until = 1)
  /\ \A a \in India!Past : a > proc.from /\ India!Hole(a) => India!Explained(a)
  /\ \A a \in India!Past : a <= proc.from /\ bars[a] # "full" /\ Passed(a) => India!Explained(a)
  /\ caught => proc.from = 1 \/ older \/ \E b \in proc.from .. Retention : bars[b] # "none"

HistoryInv ==
  /\ India!TypeOK
  /\ India!HiddenHolesExplained
  /\ caught => \A a \in India!Past : Unloaded(a) => India!Explained(a)
  /\ proc.pc = "fetch" => Recovering

\* The property of both collectors' histories follows.
LEMMA HistoryKept == HistoryInv => HolesExplained
<1> SUFFICES ASSUME HistoryInv PROVE India!HiddenHolesExplained /\ India!CaughtUp
  BY DEF HolesExplained
<1>1. \A a \in India!Past : India!Hole(a) => Unloaded(a)
  BY DEF India!Hole, Unloaded
<1> QED BY <1>1 DEF HistoryInv, India!CaughtUp

\* What the bar history assumes of the constants.
LEMMA HistoryAssumptions == Retention \in Nat \ {0} /\ Chunk \in Nat \ {0}
BY CollectorsAssumption DEF India!HistoryAssumption

\* The fields of the process by name.
LEMMA ProcessTypes ==
  ASSUME India!TypeOK
  PROVE  /\ proc \in India!Processes /\ proc.from \in 0 .. Retention + 1 /\ proc.until \in 1 .. Retention + 1
         /\ proc.sameDate \in BOOLEAN /\ proc.recovered \in BOOLEAN
         /\ bars \in [India!Ages -> {"none", "part", "full"}] /\ older \in BOOLEAN
         /\ caught \in BOOLEAN /\ short \subseteq India!Past /\ lapsed \subseteq India!Past
         /\ trading \in BOOLEAN /\ clock \in India!Clock /\ listed \in BOOLEAN
         /\ India!Past \subseteq India!Ages
BY HistoryAssumptions DEF India!TypeOK, India!Processes, India!Beyond, India!Past, India!Ages

\* Steps that store nothing: the process goes elsewhere, or on where it was.
LEMMA ProcessMoves ==
  ASSUME HistoryInv, proc' \in India!Processes, trading' \in BOOLEAN, clock' \in India!Clock,
         listed' \in BOOLEAN, UNCHANGED <<bars, older, short, caught, lapsed>>,
         proc'.pc = "fetch" => /\ proc.pc = "fetch" /\ proc'.from = proc.from
                               /\ proc'.until = proc.until /\ proc'.sameDate = proc.sameDate
  PROVE  HistoryInv'
<1>1. India!TypeOK'
  BY DEF HistoryInv, India!TypeOK
<1>2. India!HiddenHolesExplained'
  BY DEF HistoryInv, India!HiddenHolesExplained, India!Hole, India!Explained
<1>3. (caught => \A a \in India!Past : Unloaded(a) => India!Explained(a))'
  BY DEF HistoryInv, Unloaded, India!Explained
<1>4. proc'.pc = "fetch" => Recovering'
  BY DEF HistoryInv, Recovering, Passed, India!Hole, India!Explained
<1> QED BY <1>1, <1>2, <1>3, <1>4 DEF HistoryInv

\* A recovery that ends leaves the process at the session, without windows.
LEMMA EndedType ==
  ASSUME India!TypeOK, NEW all \in BOOLEAN
  PROVE  India!Ended(all) \in India!Processes /\ India!Ended(all).pc = "session"
<1>1. (proc.recovered \/ (all /\ proc.sameDate)) \in BOOLEAN /\ (~all) \in BOOLEAN
  OBVIOUS
<1>2. 0 \in 0 .. India!Beyond /\ 1 \in 1 .. India!Beyond
  BY HistoryAssumptions DEF India!Beyond
<1> DEFINE recovered == proc.recovered \/ (all /\ proc.sameDate)
<1>3. India!Ended(all) = [proc EXCEPT !.pc = "session", !.recovered = recovered, !.waiting = ~all,
                                      !.from = 0, !.until = 1]
  BY ProcessTypes DEF India!Ended, India!Go, India!Processes
<1> HIDE DEF recovered
<1> QED BY <1>1, <1>2, <1>3, ProcessTypes, ZenonT(40) DEF India!Processes, recovered

\* A collector that is down.
LEMMA DownType == India!Down \in India!Processes /\ India!Down.pc = "down"
BY HistoryAssumptions DEF India!Down, India!Processes, India!Clock, India!Beyond

\* The steps that store nothing keep the invariant.
LEMMA QuietSteps ==
  ASSUME HistoryInv,
         \/ India!Start \/ India!Authenticate \/ India!Configure \/ India!SkipRecovery
         \/ India!RecoveryFails \/ India!NoPoll \/ India!Sleep \/ India!Wake \/ India!RetryDue
         \/ India!Crash \/ India!Relist \/ India!ClockAdvances
  PROVE  HistoryInv'
<1>0. /\ India!TypeOK /\ proc \in India!Processes /\ trading \in BOOLEAN /\ clock \in India!Clock
      /\ listed \in BOOLEAN
  BY ProcessTypes DEF HistoryInv
<1> USE DEF India!At, India!Go, India!world, India!store, India!known
<1>1. CASE India!Start
  <2>1. proc' = [India!Down EXCEPT !.pc = "auth", !.active = listed, !.configured = TRUE]
    BY <1>1 DEF India!Start
  <2>2. proc' \in India!Processes /\ proc'.pc = "auth"
    BY <1>0, <2>1, DownType DEF India!Processes
  <2> QED BY <1>0, <1>1, <2>2, ProcessMoves DEF India!Start
<1>2. CASE India!Authenticate
  <2>1. proc' \in India!Processes /\ proc'.pc = "top"
    BY <1>0, <1>2 DEF India!Authenticate, India!Processes
  <2> QED BY <1>0, <1>2, <2>1, ProcessMoves DEF India!Authenticate
<1>3. CASE India!Configure
  <2>1. proc' \in India!Processes /\ proc'.pc = "plan"
    <3>1. PICK seen \in India!Seen :
            LET top == [India!Go("plan") EXCEPT !.sameDate = TRUE, !.seen = seen]
            IN  \/ ~proc.configured /\ proc' = [top EXCEPT !.active = listed, !.configured = TRUE]
                \/ proc' = top
      BY <1>3 DEF India!Configure
    <3>2. seen \in India!Clock \cup {"none"}
      BY <1>0 DEF India!Seen, India!Clock
    <3> DEFINE top == [proc EXCEPT !.pc = "plan", !.sameDate = TRUE, !.seen = seen]
    <3>3. top \in India!Processes /\ top.pc = "plan"
      BY <1>0, <3>2 DEF India!Processes
    <3>4. \/ proc' = [top EXCEPT !.active = listed, !.configured = TRUE]
          \/ proc' = top
      BY <1>0, <3>1 DEF India!Processes
    <3> HIDE DEF top
    <3> QED BY <1>0, <3>3, <3>4 DEF India!Processes
  <2> QED BY <1>0, <1>3, <2>1, ProcessMoves DEF India!Configure
<1>4. CASE India!SkipRecovery
  <2>1. proc' \in India!Processes /\ proc'.pc = "session"
    BY <1>0, <1>4 DEF India!SkipRecovery, India!Processes
  <2> QED BY <1>0, <1>4, <2>1, ProcessMoves DEF India!SkipRecovery
<1>5. CASE India!RecoveryFails
  <2>1. proc' \in India!Processes /\ proc'.pc = "session"
    BY <1>0, <1>5, EndedType DEF India!RecoveryFails
  <2> QED BY <1>0, <1>5, <2>1, ProcessMoves DEF India!RecoveryFails
<1>6. CASE India!NoPoll \/ India!Sleep \/ India!Wake
  <2>1. proc' \in India!Processes /\ proc'.pc \in {"top", "asleep"}
    BY <1>0, <1>6 DEF India!NoPoll, India!Sleep, India!Wake, India!Processes
  <2> QED BY <1>0, <1>6, <2>1, ProcessMoves DEF India!NoPoll, India!Sleep, India!Wake
<1>7. CASE India!RetryDue
  <2>1. /\ proc' \in India!Processes /\ proc'.pc = proc.pc /\ proc'.from = proc.from
        /\ proc'.until = proc.until /\ proc'.sameDate = proc.sameDate
    BY <1>0, <1>7 DEF India!RetryDue, India!Processes
  <2> QED BY <1>0, <1>7, <2>1, ProcessMoves DEF India!RetryDue
<1>8. CASE India!Crash
  BY <1>0, <1>8, DownType, ProcessMoves DEF India!Crash
<1>9. CASE India!Relist \/ India!ClockAdvances
  <2>1. /\ listed' \in BOOLEAN /\ clock' \in India!Clock /\ trading' = trading
        /\ UNCHANGED <<proc, bars, older, short, caught, lapsed>>
    BY <1>0, <1>9 DEF India!Relist, India!ClockAdvances, India!Clock
  <2> QED BY <1>0, <2>1, ProcessMoves
<1> QED BY <1>1, <1>2, <1>3, <1>4, <1>5, <1>6, <1>7, <1>8, <1>9

\* Polling stores nothing of a past session.
LEMMA PollStep == HistoryInv /\ India!Poll => HistoryInv'
<1> SUFFICES ASSUME HistoryInv, India!Poll PROVE HistoryInv'
  OBVIOUS
<1>0. /\ India!TypeOK /\ proc \in India!Processes /\ bars \in [India!Ages -> {"none", "part", "full"}]
      /\ India!Past \subseteq India!Ages
  BY ProcessTypes DEF HistoryInv
<1>1. PICK answer \in India!Answered :
        bars' = [bars EXCEPT ![0] = IF bars[0] = "full" \/ answer = "none" THEN bars[0] ELSE answer]
  BY DEF India!Poll
<1>2. bars' \in [India!Ages -> {"none", "part", "full"}] /\ \A a \in India!Past : bars'[a] = bars[a]
  <2>1. 0 \in India!Ages /\ 0 \notin India!Past
    BY HistoryAssumptions DEF India!Ages, India!Past
  <2>2. (IF bars[0] = "full" \/ answer = "none" THEN bars[0] ELSE answer) \in {"none", "part", "full"}
    BY <1>0, <2>1 DEF India!Answered
  <2> QED BY <1>0, <1>1, <2>1, <2>2
<1>3. proc' \in India!Processes /\ proc'.pc = "top"
  BY <1>0 DEF India!Poll, India!Go, India!Processes
<1>4. UNCHANGED <<trading, clock, listed, older, short, caught, lapsed>>
  BY DEF India!Poll, India!world, India!known
<1>5. India!TypeOK'
  BY <1>0, <1>2, <1>3, <1>4 DEF India!TypeOK
<1>6. \A a \in India!Past : /\ India!Hole(a)' = India!Hole(a) /\ Unloaded(a)' = Unloaded(a)
                            /\ India!Explained(a)' = India!Explained(a)
  <2>1. \A a \in India!Past : a .. Retention \subseteq India!Past
    BY HistoryAssumptions DEF India!Past
  <2> QED BY <1>2, <1>4, <2>1 DEF India!Hole, Unloaded, India!Explained
<1>7. \A a \in India!Past : 1 .. a - 1 \subseteq India!Past
  BY HistoryAssumptions DEF India!Past
<1>8. India!HiddenHolesExplained'
  BY <1>2, <1>6, <1>7 DEF HistoryInv, India!HiddenHolesExplained
<1>9. caught' => \A a \in India!Past : Unloaded(a)' => India!Explained(a)'
  BY <1>4, <1>6 DEF HistoryInv
<1> QED BY <1>3, <1>5, <1>8, <1>9 DEF HistoryInv

\* Where the next recovery begins.
LEMMA LastStoredIs ==
  ASSUME India!TypeOK
  PROVE  /\ India!LastStored \in India!Past
         /\ \A a \in India!Past : a < India!LastStored => bars[a] = "none"
         /\ \/ bars[India!LastStored] # "none"
            \/ older /\ India!LastStored = Retention
            \/ India!LastStored = 1 /\ ~older /\ \A a \in India!Past : bars[a] = "none"
<1>0. /\ bars \in [India!Ages -> {"none", "part", "full"}] /\ India!Past \subseteq Nat
      /\ 1 \in India!Past /\ Retention \in India!Past /\ India!Stored \subseteq India!Past
  BY ProcessTypes, HistoryAssumptions DEF India!Past, India!Stored
<1>1. CASE India!Stored # {}
  <2>1. PICK s \in India!Stored : \A t \in India!Stored : <<t, s>> \notin Earlier
    BY <1>0, <1>1, EarlierWellFounded, WFMin, Zenon
  <2>2. \A t \in India!Stored : t \in Nat /\ <<t, s>> \in Nat \X Nat
    BY <1>0
  <2>3. \A t \in India!Stored : ~(t < s)
    BY <2>1, <2>2 DEF Earlier
  <2>4. \E x \in India!Stored : \A t \in India!Stored : x <= t
    BY <1>0, <2>2, <2>3
  <2>5. /\ India!Newest(India!Stored) \in India!Stored
        /\ \A t \in India!Stored : India!Newest(India!Stored) <= t
    <3> HIDE DEF India!Stored
    <3> QED BY <2>4 DEF India!Newest
  <2>6. India!LastStored = India!Newest(India!Stored)
    BY <1>1 DEF India!LastStored
  <2>7. ASSUME NEW a \in India!Past, a < India!LastStored PROVE bars[a] = "none"
    <3>1. India!LastStored \in Nat /\ a \in Nat /\ \A t \in India!Stored : India!LastStored <= t
      BY <1>0, <2>5, <2>6
    <3>2. a \notin India!Stored
      BY <2>7, <3>1
    <3> QED BY <3>2 DEF India!Stored
  <2>8. India!LastStored \in India!Past /\ bars[India!LastStored] # "none"
    BY <2>5, <2>6 DEF India!Stored
  <2> QED BY <2>7, <2>8
<1>2. CASE India!Stored = {}
  <2>1. India!LastStored = IF older THEN Retention ELSE 1
    BY <1>2 DEF India!LastStored
  <2>2. \A a \in India!Past : bars[a] = "none"
    BY <1>2 DEF India!Stored
  <2> QED BY <1>0, <2>1, <2>2
<1> QED BY <1>1, <1>2

\* A plan begins at the last stored session, or finds that there is nothing to recover.
LEMMA PlanStep == HistoryInv /\ India!Plan => HistoryInv'
<1> SUFFICES ASSUME HistoryInv, India!Plan PROVE HistoryInv'
  OBVIOUS
<1> USE HistoryAssumptions DEF India!At, India!Go, India!world, India!store
<1>0. /\ India!TypeOK /\ proc \in India!Processes
  BY ProcessTypes DEF HistoryInv
<1>1. /\ UNCHANGED <<trading, clock, listed, bars, older, short, lapsed>> /\ proc.pc = "plan"
  BY DEF India!Plan
<1>2. \A a \in India!Past : /\ India!Hole(a)' = India!Hole(a) /\ Unloaded(a)' = Unloaded(a)
                            /\ India!Explained(a)' = India!Explained(a)
  BY <1>1 DEF India!Hole, Unloaded, India!Explained
<1>3. India!HiddenHolesExplained'
  BY <1>1, <1>2 DEF HistoryInv, India!HiddenHolesExplained
<1>4. CASE proc.active /\ ~India!Complete(India!LastStored)
  <2>1. /\ proc' = [proc EXCEPT !.pc = "fetch", !.from = India!LastStored, !.until = 1]
        /\ UNCHANGED caught
    BY <1>0, <1>4 DEF India!Plan, India!Processes
  <2>2. /\ proc' \in India!Processes /\ proc'.from = India!LastStored /\ proc'.until = 1
        /\ India!LastStored \in 1 .. Retention
    <3>1. India!LastStored \in 1 .. Retention
      BY <1>0, LastStoredIs DEF India!Past
    <3>2. /\ India!LastStored \in 0 .. India!Beyond /\ 1 \in 1 .. India!Beyond
      BY <3>1 DEF India!Beyond
    <3> HIDE DEF India!LastStored
    <3> QED BY <1>0, <2>1, <3>1, <3>2 DEF India!Processes
  <2>3. ASSUME NEW a \in India!Past, a > India!LastStored, India!Hole(a) PROVE India!Explained(a)
    <3>1. CASE bars[India!LastStored] # "none"
      <4>1. India!LastStored \in 1 .. a - 1
        BY <2>2, <2>3 DEF India!Past
      <4> QED BY <2>3, <3>1, <4>1 DEF HistoryInv, India!HiddenHolesExplained
    <3>2. CASE India!LastStored = Retention
      BY <2>3, <3>2 DEF India!Past
    <3>3. CASE ~older /\ \A b \in India!Past : bars[b] = "none"
      <4>1. a .. Retention \subseteq India!Past
        BY DEF India!Past
      <4> QED BY <2>3, <3>3, <4>1 DEF India!Hole
    <3> QED BY <1>0, <3>1, <3>2, <3>3, LastStoredIs
  <2>4. ASSUME NEW a \in India!Past, a <= India!LastStored, Passed(a) PROVE FALSE
    <3>1. PICK b \in 1 .. a - 1 : bars[b] # "none"
      BY <2>4 DEF Passed
    <3>2. b \in India!Past /\ b < India!LastStored
      BY <2>2, <2>4 DEF India!Past
    <3> QED BY <1>0, <3>1, <3>2, LastStoredIs
  <2>5. \/ India!LastStored = 1 \/ older
        \/ \E b \in India!LastStored .. Retention : bars[b] # "none"
    <3>1. CASE bars[India!LastStored] # "none"
      <4>1. India!LastStored \in India!LastStored .. Retention
        BY <2>2
      <4> QED BY <3>1, <4>1
    <3> QED BY <1>0, <3>1, LastStoredIs
  <2>6. \A a \in India!Past : Passed(a)' = Passed(a)
    BY <1>1 DEF Passed
  <2>7. Recovering'
    BY <1>1, <1>2, <2>1, <2>2, <2>3, <2>4, <2>5, <2>6 DEF Recovering
  <2>8. India!TypeOK'
    BY <1>0, <1>1, <2>1, <2>2 DEF India!TypeOK
  <2>9. caught' => \A a \in India!Past : Unloaded(a)' => India!Explained(a)'
    BY <1>2, <2>1 DEF HistoryInv
  <2> QED BY <1>3, <2>7, <2>8, <2>9 DEF HistoryInv
<1>5. CASE ~(proc.active /\ ~India!Complete(India!LastStored))
  <2>1. PICK all \in BOOLEAN : proc' = India!Ended(all)
    BY <1>5 DEF India!Plan
  <2>2. proc' \in India!Processes /\ proc'.pc = "session"
    BY <1>0, <2>1, EndedType
  <2>3. caught' = (caught \/ proc.active)
    BY <1>5 DEF India!Plan
  <2>4. caught' \in BOOLEAN
    BY <2>3
  <2>5. India!TypeOK'
    BY <1>0, <1>1, <2>2, <2>4 DEF India!TypeOK
  <2>6. ASSUME proc.active, NEW a \in India!Past, Unloaded(a) PROVE India!Explained(a)
    <3>1. India!LastStored = 1 /\ bars[1] = "full"
      <4>1. India!LastStored # 0
        BY <1>0, LastStoredIs DEF India!Past
      <4> QED BY <1>5, <2>6, <4>1 DEF India!Complete
    <3>2. a # 1 /\ India!Hole(a) /\ 1 \in 1 .. a - 1
      BY <2>6, <3>1 DEF Unloaded, India!Hole, India!Past
    <3> QED BY <3>1, <3>2 DEF HistoryInv, India!HiddenHolesExplained
  <2>7. caught' => \A a \in India!Past : Unloaded(a)' => India!Explained(a)'
    BY <1>2, <2>3, <2>6 DEF HistoryInv
  <2> QED BY <1>3, <2>2, <2>5, <2>7 DEF HistoryInv
<1> QED BY <1>4, <1>5

\* A window stores what the provider has, and moves on to later sessions or ends.
LEMMA WindowStep == HistoryInv /\ India!FetchWindow => HistoryInv'
<1> SUFFICES ASSUME HistoryInv, India!FetchWindow PROVE HistoryInv'
  OBVIOUS
<1> USE HistoryAssumptions DEF India!At, India!Go, India!world, India!store
<1> DEFINE window == India!Window
           ended  == ~(proc.from - Chunk >= proc.until)
<1>0. /\ India!TypeOK /\ proc \in India!Processes /\ bars \in [India!Ages -> {"none", "part", "full"}]
      /\ proc.from \in 0 .. Retention + 1 /\ proc.until \in 1 .. Retention + 1 /\ Recovering
      /\ older \in BOOLEAN /\ caught \in BOOLEAN /\ short \subseteq India!Past
      /\ India!Past = 1 .. Retention /\ India!Past \subseteq India!Ages
  BY ProcessTypes DEF HistoryInv, India!FetchWindow, India!Past
<1>1. PICK got \in SUBSET window :
        /\ bars' = [a \in India!Ages |-> IF a \in got THEN "full" ELSE bars[a]]
        /\ short' = (short \ got) \cup (window \ got)
  BY DEF India!FetchWindow
<1>2. window \subseteq India!Past /\ UNCHANGED <<trading, clock, listed, older, lapsed>>
  BY DEF India!FetchWindow, India!Window
<1>3. \A a \in window : a \in India!Past /\ proc.until <= a /\ proc.from - Chunk < a /\ a <= proc.from
  BY DEF India!Window
<1>4. \A a \in India!Past \ window : a < proc.until \/ a <= proc.from - Chunk \/ proc.from < a
  BY <1>0 DEF India!Window
<1> HIDE DEF window
<1>5. \A a \in India!Past : a \in window => bars'[a] = "full" \/ a \in short'
  BY <1>0, <1>1
<1>6. \A a \in India!Past \ window : bars'[a] = bars[a] /\ (India!Explained(a) => India!Explained(a)')
  BY <1>0, <1>1, <1>2 DEF India!Explained
<1>7. \A a \in India!Past : a \in short' => India!Explained(a)'
  BY DEF India!Explained
<1>8. \A b \in India!Past : bars'[b] # "none" => bars[b] # "none" \/ b \in window
  BY <1>6
<1>9. \* What lies behind the windows is accounted for.
      ASSUME NEW a \in India!Past, a > proc.from, India!Hole(a)'
      PROVE  India!Explained(a)'
  <2>1. a \notin window /\ \A b \in a .. Retention : b \in India!Past \ window
    BY <1>0, <1>3, <1>9
  <2>2. India!Hole(a)
    BY <1>2, <1>6, <1>9, <2>1 DEF India!Hole
  <2> QED BY <1>0, <1>6, <1>9, <2>1, <2>2 DEF Recovering
<1>10. \* So is what was passed by the polled session alone.
       ASSUME NEW a \in India!Past, a <= proc.from, a \notin window, bars'[a] # "full", Passed(a)'
       PROVE  India!Explained(a)'
  <2>1. PICK b \in 1 .. a - 1 : bars'[b] # "none"
    BY <1>10 DEF Passed
  <2>2. b \in India!Past /\ b < a
    BY <1>0
  <2>3. b \notin window
    BY <1>0, <1>3, <1>4, <1>10, <2>2
  <2>4. bars[a] # "full" /\ Passed(a)
    BY <1>6, <1>10, <2>1, <2>2, <2>3 DEF Passed
  <2> QED BY <1>0, <1>6, <1>10, <2>4 DEF Recovering
<1>11. India!HiddenHolesExplained'
  <2> SUFFICES ASSUME NEW a \in India!Past, India!Hole(a)', \E b \in 1 .. a - 1 : bars'[b] # "none"
               PROVE  India!Explained(a)'
    BY DEF India!HiddenHolesExplained
  <2>1. bars'[a] # "full" /\ Passed(a)'
    BY DEF India!Hole, Passed
  <2>2. a > proc.from \/ a <= proc.from
    BY <1>0
  <2> QED BY <1>5, <1>7, <1>9, <1>10, <2>1, <2>2
<1>12. ASSUME caught, NEW a \in India!Past, Unloaded(a)' PROVE India!Explained(a)'
  <2>1. CASE a \in window
    BY <1>5, <1>7, <1>12, <2>1 DEF Unloaded
  <2>2. CASE a \notin window
    <3>1. bars[a] # "full" /\ bars'[a] = bars[a]
      BY <1>6, <1>12, <2>2 DEF Unloaded
    <3>2. a = 1 \/ older \/ \E b \in a .. Retention : bars[b] # "none"
      <4>1. ASSUME NEW b \in a .. Retention, bars'[b] # "none", b \in window, a # 1, ~older
            PROVE  \E c \in a .. Retention : bars[c] # "none"
        <5>1. b <= proc.from /\ a <= b
          BY <1>0, <1>3, <4>1
        <5>2. PICK c \in proc.from .. Retention : bars[c] # "none"
          BY <1>0, <1>12, <4>1, <5>1 DEF Recovering
        <5> QED BY <1>0, <5>1, <5>2
      <4>2. \A b \in a .. Retention : b \in India!Past
        BY <1>0
      <4> QED BY <1>2, <1>8, <1>12, <4>1, <4>2 DEF Unloaded
    <3>3. India!Explained(a)
      BY <1>12, <3>1, <3>2 DEF HistoryInv, Unloaded
    <3> QED BY <1>6, <2>2, <3>3
  <2> QED BY <2>1, <2>2
<1>13. CASE ended
  <2>1. PICK all \in BOOLEAN : proc' = India!Ended(all) /\ caught' = (caught \/ proc.sameDate)
    BY <1>13 DEF India!FetchWindow
  <2>2. proc' \in India!Processes /\ proc'.pc = "session" /\ caught' \in BOOLEAN
    BY <1>0, <2>1, EndedType
  <2>3. ASSUME proc.sameDate, NEW a \in India!Past, Unloaded(a)' PROVE India!Explained(a)'
    <3>1. proc.until = 1
      BY <1>0, <2>3 DEF Recovering
    <3>2. CASE a > proc.from
      <4>1. India!Hole(a)'
        BY <1>0, <2>3, <3>2 DEF Unloaded, India!Hole, Recovering
      <4> QED BY <1>9, <3>2, <4>1
    <3>3. CASE a <= proc.from
      <4>1. a \in window
        BY <1>0, <1>4, <1>13, <3>1, <3>3
      <4> QED BY <1>5, <1>7, <2>3, <4>1 DEF Unloaded
    <3> QED BY <1>0, <3>2, <3>3
  <2>4. caught' => \A a \in India!Past : Unloaded(a)' => India!Explained(a)'
    BY <1>12, <2>1, <2>3
  <2>5. India!TypeOK'
    BY <1>0, <1>1, <1>2, <2>2 DEF India!TypeOK
  <2> QED BY <1>11, <2>2, <2>4, <2>5 DEF HistoryInv
<1>14. CASE ~ended
  <2>1. proc' = [proc EXCEPT !.from = proc.from - Chunk] /\ UNCHANGED caught
    BY <1>14 DEF India!FetchWindow
  <2>2. /\ proc' \in India!Processes /\ proc'.from = proc.from - Chunk /\ proc'.until = proc.until
        /\ proc'.sameDate = proc.sameDate
    <3>1. proc.from - Chunk \in 0 .. India!Beyond
      BY <1>0, <1>14 DEF India!Beyond
    <3> QED BY <1>0, <2>1, <3>1 DEF India!Processes
  <2>3. ASSUME NEW a \in India!Past, a > proc'.from, India!Hole(a)' PROVE India!Explained(a)'
    <3>1. a \in window \/ a > proc.from
      BY <1>0, <1>4, <1>14, <2>2, <2>3
    <3> QED BY <1>5, <1>7, <1>9, <2>3, <3>1 DEF India!Hole
  <2>4. ASSUME NEW a \in India!Past, a <= proc'.from, bars'[a] # "full", Passed(a)' PROVE India!Explained(a)'
    <3>1. a <= proc.from /\ a \notin window
      BY <1>0, <1>3, <2>2, <2>4
    <3> QED BY <1>10, <2>4, <3>1
  <2>5. caught => \/ proc'.from = 1 \/ older'
                  \/ \E b \in proc'.from .. Retention : bars'[b] # "none"
    <3> SUFFICES ASSUME caught, ~older, proc'.from # 1
                 PROVE  \E b \in proc'.from .. Retention : bars'[b] # "none"
      BY <1>2
    <3>1. proc.from # 1 /\ proc'.from >= 1 /\ proc'.from <= proc.from
      BY <1>0, <1>14, <2>2
    <3>2. PICK b \in proc.from .. Retention : bars[b] # "none"
      BY <1>0, <3>1 DEF Recovering
    <3>3. b \in India!Past /\ b \in proc'.from .. Retention
      BY <1>0, <2>2, <3>1
    <3>4. bars'[b] # "none"
      BY <1>0, <1>1, <3>2, <3>3
    <3> QED BY <3>3, <3>4
  <2>6. Recovering'
    <3>1. proc'.from >= 1 /\ (proc'.sameDate => proc'.until = 1)
      BY <1>0, <1>14, <2>2 DEF Recovering
    <3> QED BY <2>1, <2>3, <2>4, <2>5, <3>1 DEF Recovering
  <2>7. India!TypeOK'
    BY <1>0, <1>1, <1>2, <2>1, <2>2 DEF India!TypeOK
  <2>8. caught' => \A a \in India!Past : Unloaded(a)' => India!Explained(a)'
    BY <1>12, <2>1
  <2> QED BY <1>11, <2>6, <2>7, <2>8 DEF HistoryInv
<1> QED BY <1>13, <1>14

\* A day passes: today's session becomes the last one, also under a recovery.
LEMMA DayStep == HistoryInv /\ India!NextDay => HistoryInv'
<1> SUFFICES ASSUME HistoryInv, India!NextDay PROVE HistoryInv'
  OBVIOUS
<1> USE HistoryAssumptions DEF India!At
<1>0. /\ India!TypeOK /\ proc \in India!Processes /\ bars \in [India!Ages -> {"none", "part", "full"}]
      /\ proc.from \in 0 .. Retention + 1 /\ proc.until \in 1 .. Retention + 1
      /\ older \in BOOLEAN /\ caught \in BOOLEAN /\ short \subseteq India!Past /\ lapsed \subseteq India!Past
      /\ listed \in BOOLEAN
      /\ India!Past = 1 .. Retention /\ India!Ages = 0 .. Retention
  BY ProcessTypes DEF HistoryInv, India!Past, India!Ages
<1>1. /\ trading' \in BOOLEAN /\ clock' = "early" /\ caught' = FALSE /\ listed' = listed
      /\ clock' \in India!Clock
  BY DEF India!NextDay, India!Clock
<1>2. /\ proc' \in India!Processes /\ ~proc'.sameDate /\ proc'.pc = proc.pc
      /\ proc'.from = IF trading /\ proc.pc = "fetch" THEN India!Capped(proc.from) ELSE proc.from
  <2>1. India!Capped(proc.from) \in 0 .. India!Beyond /\ India!Capped(proc.until) \in 1 .. India!Beyond
    BY <1>0 DEF India!Capped, India!Beyond
  <2> DEFINE from == IF trading /\ proc.pc = "fetch" THEN India!Capped(proc.from) ELSE proc.from
             until == IF trading /\ proc.pc = "fetch" THEN India!Capped(proc.until) ELSE proc.until
  <2>2. from \in 0 .. India!Beyond /\ until \in 1 .. India!Beyond
    BY <1>0, <2>1 DEF India!Beyond
  <2>3. proc' = [proc EXCEPT !.configured = FALSE, !.recovered = FALSE, !.sameDate = FALSE,
                             !.from = from, !.until = until]
    BY DEF India!NextDay
  <2> HIDE DEF from, until
  <2>4. proc' \in India!Processes /\ ~proc'.sameDate /\ proc'.pc = proc.pc /\ proc'.from = from
    BY <1>0, <2>2, <2>3 DEF India!Processes
  <2> QED BY <2>4 DEF from
<1>3. CASE ~trading
  <2>1. UNCHANGED <<bars, older, short, lapsed>> /\ proc'.from = proc.from
    BY <1>2, <1>3 DEF India!NextDay, India!store
  <2>2. India!TypeOK'
    BY <1>0, <1>1, <1>2, <2>1 DEF India!TypeOK
  <2>3. India!HiddenHolesExplained'
    BY <2>1 DEF HistoryInv, India!HiddenHolesExplained, India!Hole, India!Explained
  <2>4. proc'.pc = "fetch" => Recovering'
    BY <1>1, <1>2, <2>1 DEF HistoryInv, Recovering, Passed, India!Hole, India!Explained
  <2> QED BY <1>1, <2>2, <2>3, <2>4 DEF HistoryInv
<1>4. CASE trading
  <2>1. /\ bars' = [a \in India!Ages |-> IF a = 0 THEN "none" ELSE bars[a - 1]]
        /\ older' = (older \/ bars[Retention] # "none")
        /\ short' = India!Later(short)
        /\ lapsed' = India!Later(lapsed) \cup IF bars[0] # "none" /\ ~caught THEN {1} ELSE {}
    BY <1>4 DEF India!NextDay
  <2>2. India!TypeOK'
    <3>1. bars' \in [India!Ages -> {"none", "part", "full"}]
      BY <1>0, <2>1
    <3>2. short' \subseteq India!Past /\ lapsed' \subseteq India!Past
      BY <1>0, <2>1 DEF India!Later
    <3>3. older' \in BOOLEAN
      BY <1>0, <2>1
    <3> QED BY <1>0, <1>1, <1>2, <3>1, <3>2, <3>3 DEF India!TypeOK
  <2>3. \A a \in India!Past : bars'[a] = bars[a - 1]
    BY <1>0, <2>1
  <2>4. ASSUME NEW a \in India!Past, a - 1 \in India!Past, India!Explained(a - 1) PROVE India!Explained(a)'
    <3>1. CASE a - 1 \in short
      BY <1>0, <2>1, <2>4, <3>1 DEF India!Explained, India!Later
    <3>2. CASE \E d \in lapsed : d < a - 1
      <4>1. PICK d \in lapsed : d < a - 1
        BY <3>2
      <4>2. d + 1 \in lapsed' /\ d + 1 < a
        BY <1>0, <2>1, <2>4, <4>1 DEF India!Later
      <4> QED BY <4>2 DEF India!Explained
    <3> QED BY <2>4, <3>1, <3>2 DEF India!Explained
  <2>5. ASSUME NEW a \in India!Past, bars[0] # "none", ~caught, a > 1 PROVE India!Explained(a)'
    BY <2>1, <2>5 DEF India!Explained
  <2>6. ASSUME NEW a \in India!Past, a - 1 \in India!Past, India!Hole(a)' PROVE India!Hole(a - 1)
    <3>1. bars[a - 1] # "full"
      BY <2>3, <2>6 DEF India!Hole
    <3>2. CASE older' /\ ~older
      <4>1. Retention \in a - 1 .. Retention /\ bars[Retention] # "none"
        BY <1>0, <2>1, <3>2
      <4> QED BY <3>1, <4>1 DEF India!Hole
    <3>3. CASE \E b \in a .. Retention : bars'[b] # "none"
      <4>1. PICK b \in a .. Retention : bars'[b] # "none"
        BY <3>3
      <4>2. bars[b - 1] # "none" /\ b - 1 \in a - 1 .. Retention
        BY <1>0, <2>3, <4>1
      <4> QED BY <3>1, <4>2 DEF India!Hole
    <3> QED BY <2>6, <3>1, <3>2, <3>3 DEF India!Hole
  <2>7. ASSUME NEW a \in India!Past, Passed(a)'
        PROVE  a - 1 \in India!Past /\ (bars[0] # "none" \/ Passed(a - 1))
    <3>1. PICK b \in 1 .. a - 1 : bars'[b] # "none"
      BY <2>7 DEF Passed
    <3>2. b \in India!Past /\ bars[b - 1] # "none" /\ a - 1 \in India!Past
      BY <1>0, <2>3, <3>1
    <3>3. b = 1 \/ b - 1 \in 1 .. (a - 1) - 1
      BY <1>0, <3>1
    <3> QED BY <3>2, <3>3 DEF Passed
  <2>8. India!HiddenHolesExplained'
    <3> SUFFICES ASSUME NEW a \in India!Past, India!Hole(a)', Passed(a)'
                 PROVE  India!Explained(a)'
      BY DEF India!HiddenHolesExplained, Passed
    <3>1. a - 1 \in India!Past /\ India!Hole(a - 1) /\ a > 1
      BY <1>0, <2>6, <2>7
    <3>2. CASE Passed(a - 1)
      <4>1. India!Explained(a - 1)
        BY <3>1, <3>2 DEF HistoryInv, India!HiddenHolesExplained, Passed
      <4> QED BY <2>4, <3>1, <4>1
    <3>3. CASE bars[0] # "none" /\ caught
      <4>1. India!Explained(a - 1)
        BY <3>1, <3>3 DEF HistoryInv, Unloaded, India!Hole
      <4> QED BY <2>4, <3>1, <4>1
    <3>4. CASE bars[0] # "none" /\ ~caught
      BY <2>5, <3>1, <3>4
    <3> QED BY <2>7, <3>2, <3>3, <3>4
  <2>9. ASSUME proc.pc = "fetch" PROVE Recovering'
    <3>1. Recovering /\ proc'.from = India!Capped(proc.from)
      BY <1>2, <1>4, <2>9 DEF HistoryInv
    <3>2. proc'.from = IF proc.from <= Retention THEN proc.from + 1 ELSE Retention + 1
      BY <1>0, <3>1 DEF India!Capped, India!Beyond
    <3>3. proc'.from >= 1
      BY <1>0, <3>2
    <3>4. ASSUME NEW a \in India!Past, a > proc'.from, India!Hole(a)' PROVE India!Explained(a)'
      <4>1. a - 1 \in India!Past /\ a - 1 > proc.from
        BY <1>0, <3>1, <3>2, <3>4 DEF Recovering
      <4> QED BY <2>4, <2>6, <3>1, <3>4, <4>1 DEF Recovering
    <3>5. ASSUME NEW a \in India!Past, a <= proc'.from, bars'[a] # "full", Passed(a)'
          PROVE  India!Explained(a)'
      <4>1. /\ a - 1 \in India!Past /\ a - 1 <= proc.from /\ bars[a - 1] # "full" /\ a > 1
            /\ a - 1 <= Retention
        BY <1>0, <2>3, <2>7, <3>2, <3>5
      <4>2. CASE Passed(a - 1)
        BY <2>4, <3>1, <4>1, <4>2 DEF Recovering
      <4>3. CASE caught
        <5>1. a - 1 = 1 \/ older \/ \E b \in a - 1 .. Retention : bars[b] # "none"
          <6>1. CASE \E b \in proc.from .. Retention : bars[b] # "none"
            <7>1. PICK b \in proc.from .. Retention : bars[b] # "none"
              BY <6>1
            <7>2. b \in a - 1 .. Retention
              BY <1>0, <4>1
            <7> QED BY <7>1, <7>2
          <6>2. CASE proc.from = 1
            BY <1>0, <4>1, <6>2
          <6> QED BY <3>1, <4>3, <6>1, <6>2 DEF Recovering
        <5>2. Unloaded(a - 1)
          BY <4>1, <5>1 DEF Unloaded
        <5>3. India!Explained(a - 1)
          BY <4>1, <4>3, <5>2 DEF HistoryInv
        <5> QED BY <2>4, <4>1, <5>3
      <4>4. CASE bars[0] # "none" /\ ~caught
        BY <2>5, <4>1, <4>4
      <4> QED BY <2>7, <3>5, <4>2, <4>3, <4>4
    <3> QED BY <1>1, <1>2, <3>3, <3>4, <3>5 DEF Recovering
  <2> QED BY <1>1, <1>2, <2>2, <2>8, <2>9 DEF HistoryInv
<1> QED BY <1>3, <1>4

\* Nothing is stored or known at first.
LEMMA HistoryBegins == CollectorsInit => HistoryInv
<1> SUFFICES ASSUME India!Init PROVE HistoryInv
  BY DEF CollectorsInit
<1> USE HistoryAssumptions
<1>1. /\ bars = [a \in India!Ages |-> "none"] /\ caught = FALSE /\ proc = India!Down /\ older = FALSE
      /\ short = {} /\ lapsed = {} /\ clock = "early" /\ trading \in BOOLEAN /\ listed \in BOOLEAN
  BY DEF India!Init
<1>2. India!TypeOK
  BY <1>1, DownType DEF India!TypeOK, India!Clock
<1>3. \A a \in India!Past : a .. Retention \subseteq India!Ages
  BY DEF India!Past, India!Ages
<1>4. India!HiddenHolesExplained
  BY <1>1, <1>3 DEF India!HiddenHolesExplained, India!Hole
<1> QED BY <1>1, <1>2, <1>4, DownType DEF HistoryInv

\* Every step of the collectors keeps the history of the India bars.
LEMMA HistoryStep == HistoryInv /\ [CollectorsNext]_allVars => HistoryInv'
<1> SUFFICES ASSUME HistoryInv, [CollectorsNext]_allVars PROVE HistoryInv'
  OBVIOUS
<1>1. CASE UNCHANGED indiaVars
  <2>1. UNCHANGED <<trading, clock, listed, bars, older, proc, short, caught, lapsed>>
    BY <1>1 DEF indiaVars
  <2>2. /\ proc \in India!Processes /\ trading \in BOOLEAN /\ clock \in India!Clock /\ listed \in BOOLEAN
    BY ProcessTypes DEF HistoryInv
  <2> QED BY <2>1, <2>2, ProcessMoves
<1>2. CASE India!Next
  BY <1>2, QuietSteps, PollStep, PlanStep, WindowStep, DayStep DEF India!Next
<1> QED BY <1>1, <1>2 DEF CollectorsNext, Political, Indian, Us, IndianList, allVars

\* Every hole in the stored India bars is one the provider left, or one that a day without a
\* completed recovery hid; crashes, refusals and interrupted windows alone never make one,
\* however many sessions are kept and windows a recovery takes.
THEOREM HistoryHolds == CollectorsSpec => []HolesExplained
BY HistoryBegins, HistoryStep, HistoryKept, PTL DEF CollectorsSpec

\* The other collectors leave the political orchestrator alone: under its lock runs exclude each
\* other, deferrals are respected, and marks are backed and never lost.
THEOREM OrchestratorAmongCollectors ==
  CollectorsSpec => [](OneRun /\ CooldownKept /\ DoneIsStored) /\ MarksKept
<1>1. CollectorsInit => Init
  BY DEF CollectorsInit
<1>2. [CollectorsNext]_allVars => [Next]_vars
  BY DEF CollectorsNext, Political, Indian, Us, IndianList, allVars
<1>3. CollectorsSpec => Spec
  BY <1>1, <1>2, PTL DEF CollectorsSpec, Spec
<1> QED BY <1>3, LockWorks, CooldownRespected, MarksAreBacked, MarksAreKept, PTL

=============================================================================
