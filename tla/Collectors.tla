----------------------------- MODULE Collectors -----------------------------
(***************************************************************************)
(* The collectors that share a host and nothing else: the political         *)
(* orchestrator with its lock, run state and done set, the India minute     *)
(* collector with its bars, and in each of the two markets the processes    *)
(* that decide which series are collected.  A behaviour of all is a         *)
(* behaviour of each: one is chosen and the others rest.                   *)
(***************************************************************************)
EXTENDS PoliticalDaily

CONSTANTS
  Retention, Chunk,                             \* IndiaCollector
  Symbols, Unplaced,                            \* MarketReference
  Tier,                                         \* UsUniverse
  Futures, Underlying, Index                    \* IndiaUniverse

VARIABLES
  collector,                                    \* the one that runs
  trading, clock, listed, bars, older, proc,
  short, caught, lapsed,                        \* IndiaCollector
  rows,                                         \* MarketReference
  expected, resolver, tiering, published, mixed,     \* UsUniverse
  master, contracts, activated, daemon, premarket    \* IndiaUniverse

India     == INSTANCE IndiaCollector
UsList    == INSTANCE UsUniverse WITH Resolvers <- Procs
IndiaList == INSTANCE IndiaUniverse

ASSUME CollectorsAssumption ==
  /\ India!HistoryAssumption
  /\ UsList!ReferenceAssumption /\ UsList!TierAssumption
  /\ IndiaList!FuturesAssumption

indiaVars     == <<trading, clock, listed, bars, older, proc, short, caught, lapsed>>
usListVars    == <<expected, resolver, tiering, published, mixed>>
indiaListVars == <<master, contracts, activated, daemon, premarket>>
allVars       == <<vars, indiaVars, rows, usListVars, indiaListVars, collector>>

\* What is not known at the start is open only where it matters.
CollectorsInit ==
  /\ Init /\ India!Init /\ UsList!Init /\ IndiaList!Init
  /\ collector \in {"political", "india", "us universe", "india universe"}
  /\ collector # "india" => trading /\ listed
  /\ collector # "us universe" => expected["eodhd"] = {}
  /\ collector # "india universe" => master.equities = {} /\ master.futures = {}

Political(A) ==
  collector = "political" /\ A
  /\ UNCHANGED <<indiaVars, rows, usListVars, indiaListVars, collector>>
Indian(A) ==
  collector = "india" /\ A
  /\ UNCHANGED <<vars, rows, usListVars, indiaListVars, collector>>
Us(A) ==
  collector = "us universe" /\ A /\ UNCHANGED <<vars, indiaVars, indiaListVars, collector>>
IndianList(A) ==
  collector = "india universe" /\ A /\ UNCHANGED <<vars, indiaVars, usListVars, collector>>

CollectorsNext ==
  Political(Next) \/ Indian(India!Next) \/ Us(UsList!Next) \/ IndianList(IndiaList!Next)

CollectorsSpec == CollectorsInit /\ [][CollectorsNext]_allVars

-----------------------------------------------------------------------------
(* Properties. *)

\* A hole in the stored India bars that no recovery will ever ask for is one that the provider
\* had nothing for, or that a day without a completed recovery has hidden; and once today's
\* recovery of a series is complete every session up to the last is stored, save for such holes.
HolesExplained == India!HiddenHolesExplained /\ India!CaughtUp

\* The list of what is collected is one universe, published as a whole; what it names can be
\* stored; and the collector that polls it keeps to it, in either market
\* (sync_expected_series and sync_expected_india_series under their callers).
SeriesKept ==
  /\ UsList!UniverseIsWhole /\ UsList!ActiveIsCollectable /\ UsList!TierFollows
  /\ IndiaList!ActiveIsPolled /\ IndiaList!PolledIsStorable

=============================================================================
