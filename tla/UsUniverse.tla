----------------------------- MODULE UsUniverse -----------------------------
(***************************************************************************)
(* Which US series are collected.  A resolver (factlab_us_universe.py, a    *)
(* daemon and perhaps an operator's --once beside it) resolves indexes,     *)
(* validates every constituent, writes their references and publishes them *)
(* as the active daily series; the collector (factlab_us_clickhouse.py,     *)
(* run_full) polls that list, prunes the one-minute tier of what has left   *)
(* it and ranks the tier anew every week.  Both keep meta.expected_series   *)
(* by reading what is active and inserting the difference, with no lock.    *)
(*                                                                         *)
(* A record's version and its insert are taken as one step; rows that are  *)
(* only displayed (run and source status) are left out.                    *)
(***************************************************************************)
EXTENDS MarketReference

CONSTANTS
  Resolvers,  \* processes that run sync_once
  Tier        \* MINUTE_TIER_SIZE

TierAssumption == Tier \in Nat \ {0}

VARIABLES
  expected,   \* expected[k]: the active rows of meta.expected_series
  resolver,   \* resolver[i]: a call of sync_once
  tiering,    \* the collector process
  published,  \* history: the last universe that was published
  mixed       \* history: by a call that another one published into

universe == <<expected, resolver, tiering, published, mixed>>
vars     == <<rows, universe>>

Keys == {"daily", "1min", "eodhd"}

Asleep == [pc |-> "asleep", resolved |-> {}, left |-> {}, prior |-> {}, crossed |-> FALSE]
Down   == [pc |-> "down", items |-> {}, tier |-> {}, ranked |-> FALSE, pruned |-> FALSE]

TypeOK ==
  /\ ReferenceType
  /\ expected \in [Keys -> SUBSET Symbols]
  /\ resolver \in [Resolvers ->
       [pc : {"asleep", "resolving", "upserting", "publishing", "retiring"},
        resolved : SUBSET Symbols, left : SUBSET Symbols, prior : SUBSET Symbols,
        crossed : BOOLEAN]]
  /\ tiering \in [pc : {"down", "polling", "pruning", "collecting", "ranking"},
                  items : SUBSET Symbols,   \* the published universe as last polled
                  tier : SUBSET Symbols,    \* minute_items
                  ranked : BOOLEAN,         \* ranked_week is this week
                  pruned : BOOLEAN]         \* history: this process has written the tier
  /\ published \subseteq Symbols /\ mixed \in BOOLEAN

At(i, pc) == resolver[i].pc = pc
Restful   == UNCHANGED <<rows, expected, published, mixed>>

-----------------------------------------------------------------------------
(* sync_once of a resolver. *)

Wake(i) ==
  /\ At(i, "asleep")
  /\ resolver' = [resolver EXCEPT ![i].pc = "resolving"]
  /\ Restful /\ UNCHANGED tiering

\* What the indexes list, each at least as long as its minimum, and the extra symbols.
Retrieved == SUBSET Symbols \ {{}}

\* validate: what the broker quotes as a US equity in dollars, perhaps not all.
Validated(all) == SUBSET all

\* resolve: the union is validated as a whole, or the call ends.
Resolve(i) ==
  /\ At(i, "resolving")
  /\ \E all \in Retrieved : \E valid \in Validated(all) :
       resolver' = [resolver EXCEPT ![i] =
         IF valid = all THEN [Asleep EXCEPT !.pc = "upserting", !.resolved = all, !.left = all]
         ELSE Asleep]
  /\ Restful /\ UNCHANGED tiering

\* The call ends, by an exception or with the process: what is inserted stays.
Break(i) ==
  /\ ~At(i, "asleep")
  /\ resolver' = [resolver EXCEPT ![i] = Asleep]
  /\ Restful /\ UNCHANGED tiering

\* upsert_resolved_constituents, one constituent after the other; one that is refused ends
\* the call.
Upsert(i) ==
  /\ At(i, "upserting") /\ resolver[i].left # {}
  /\ LET s == First(resolver[i].left) IN
       \/ UpsertRow(s) /\ UNCHANGED resolver
       \/ UpsertEnds(s) /\ resolver' = [resolver EXCEPT ![i].left = @ \ {s}]
       \/ UpsertRefused(s) /\ resolver' = [resolver EXCEPT ![i] = Asleep]
  /\ UNCHANGED <<expected, tiering, published, mixed>>

\* sync_expected_series reads what is active.
ReadActive(i) ==
  /\ At(i, "upserting") /\ resolver[i].left = {}
  /\ resolver' = [resolver EXCEPT ![i].pc = "publishing", ![i].prior = expected["daily"]]
  /\ Restful /\ UNCHANGED tiering

ActivatedOnly(active, prior, current) == active \cup current
Synced(active, prior, current)        == (active \ prior) \cup current

\* ... and inserts, in one block, the members as active and the others it read as inactive.
Publish(i) ==
  LET my == resolver[i] IN
  /\ At(i, "publishing")
  /\ expected' = [expected EXCEPT !["daily"] = Synced(@, my.prior, my.resolved)]
  /\ published' = my.resolved
  /\ mixed' = my.crossed
  /\ resolver' = [j \in Resolvers |->
       IF j = i THEN [Asleep EXCEPT !.pc = "retiring"]
       ELSE [resolver[j] EXCEPT !.crossed = At(j, "publishing")]]
  /\ UNCHANGED <<rows, tiering>>

\* deactivate_expected_series of the former source; the run is recorded as a success.
Retire(i) ==
  /\ At(i, "retiring")
  /\ expected' = [expected EXCEPT !["eodhd"] = {}]
  /\ resolver' = [resolver EXCEPT ![i] = Asleep]
  /\ UNCHANGED <<rows, tiering, published, mixed>>

-----------------------------------------------------------------------------
(* run_full of the collector, as far as it concerns the list. *)

Collector(pc) == tiering.pc = pc
Collects      == UNCHANGED <<rows, resolver, published, mixed>>

Start ==
  /\ Collector("down")
  /\ tiering' = [Down EXCEPT !.pc = "polling"]
  /\ Collects /\ UNCHANGED expected

Kill ==
  /\ ~Collector("down")
  /\ tiering' = Down
  /\ Collects /\ UNCHANGED expected

\* Once a minute.  A changed list also asks for a new ranking; a process that has just been
\* started has no items a removed series could be missed among.
Poll ==
  /\ Collector("polling")
  /\ LET now == expected["daily"] IN
     tiering' =
       IF now = tiering.items THEN [tiering EXCEPT !.pc = "collecting"]
       ELSE [tiering EXCEPT !.pc = IF tiering.items \subseteq now THEN "collecting" ELSE "pruning",
                            !.items = now, !.tier = @ \cap now, !.ranked = FALSE]
  /\ Collects /\ UNCHANGED expected

\* The active tier, without the series that have left, becomes the tier.
Prune ==
  LET retained == expected["1min"] \cap tiering.items IN
  /\ Collector("pruning")
  /\ expected' = [expected EXCEPT !["1min"] = retained]
  /\ tiering' = [tiering EXCEPT !.pc = "collecting", !.tier = retained, !.pruned = TRUE]
  /\ Collects

RankDue == ~tiering.ranked \/ Cardinality(tiering.tier) < Tier

\* liquid_candidates: the most liquid of the active daily series; which have bars is open.
Rank ==
  /\ Collector("collecting") /\ tiering.items # {} /\ RankDue
  /\ \E chosen \in SUBSET (tiering.items \cap expected["daily"]) :
       /\ Cardinality(chosen) <= Tier
       /\ tiering' = [tiering EXCEPT !.pc = "ranking", !.tier = chosen]
  /\ Collects /\ UNCHANGED expected

\* sync_expected_series of the tier; the collector is its only writer.
PublishTier ==
  /\ Collector("ranking")
  /\ expected' = [expected EXCEPT !["1min"] = Synced(@, @, tiering.tier)]
  /\ tiering' = [tiering EXCEPT !.pc = "collecting", !.ranked = TRUE, !.pruned = TRUE]
  /\ Collects

WeekEnds ==
  /\ Collector("collecting") /\ tiering.ranked
  /\ tiering' = [tiering EXCEPT !.ranked = FALSE]
  /\ Collects /\ UNCHANGED expected

PollDue ==
  /\ Collector("collecting")
  /\ tiering' = [tiering EXCEPT !.pc = "polling"]
  /\ Collects /\ UNCHANGED expected

-----------------------------------------------------------------------------
Init ==
  /\ ReferenceInit
  /\ expected \in {[k \in Keys |-> IF k = "eodhd" THEN old ELSE {}] : old \in {{}, Symbols}}
  /\ resolver = [i \in Resolvers |-> Asleep]
  /\ tiering = Down
  /\ published = {} /\ mixed = FALSE

Next ==
  \/ \E i \in Resolvers : Wake(i) \/ Resolve(i) \/ Break(i) \/ Upsert(i) \/ ReadActive(i)
                          \/ Publish(i) \/ Retire(i)
  \/ Start \/ Kill \/ Poll \/ Prune \/ Rank \/ PublishTier \/ WeekEnds \/ PollDue

Spec == Init /\ [][Next]_vars

-----------------------------------------------------------------------------
(* Properties. *)

\* docs/research/us-index-constituents-and-schwab-daily.md:20 "Keep the previous successful
\* universe on any failure": the active daily series are one universe that was resolved and
\* validated as a whole, never parts of two, unless two calls published into each other.
UniverseIsWhole == mixed \/ expected["daily"] = published

\* No active series is one whose bars would be refused for want of a listing or a security.
ActiveIsCollectable == \A s \in expected["daily"] \cup expected["1min"] : Collectable(s)

\* A series that has left the universe leaves the one-minute tier at the collector's next
\* poll, whether a ranking is possible or not; only one that left while no collector ran may
\* stay until the new process has ranked.
TierFollows ==
  \A s \in expected["1min"] \ expected["daily"] :
    s \in tiering.items \/ Collector("pruning") \/ ~tiering.pruned

=============================================================================
