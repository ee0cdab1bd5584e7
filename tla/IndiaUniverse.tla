--------------------------- MODULE IndiaUniverse ---------------------------
(***************************************************************************)
(* Which Indian series are collected.  The collector                        *)
(* (factlab_india_clickhouse_5min.py) configures its universe at the start  *)
(* and again on every date: it loads the day's instrument master, writes    *)
(* the references of all cash equities and of the futures it needs, and     *)
(* activates exactly its series.  The job before the session                *)
(* (factlab_india_clickhouse_premarket.py) writes references of its own     *)
(* accord, in the same tables and at any time.                              *)
(*                                                                         *)
(* A record's version and its insert are taken as one step; rows that are  *)
(* only displayed (run status) are left out.                               *)
(***************************************************************************)
EXTENDS MarketReference

CONSTANTS
  Futures,     \* contracts of the exchange, the nearest first
  Underlying,  \* Underlying[f]: its symbol, or Index
  Index        \* an index: a future of it is listed, a cash equity is not

FuturesAssumption ==
  /\ Futures \subseteq Nat /\ Index \notin Symbols
  /\ Underlying \in [Futures -> Symbols \cup {Index}]

VARIABLES
  master,     \* the symbols and the futures in today's instrument master
  contracts,  \* the futures in ref.contracts
  activated,  \* the active rows of meta.expected_series
  daemon,     \* the collector
  premarket   \* the job

series == <<contracts, activated>>
vars   == <<rows, master, series, daemon, premarket>>

Equity(s) == <<"equity", s>>
Future(f) == <<"future", f>>
Series    == {Equity(s) : s \in Symbols} \cup {Future(f) : f \in Futures}

Masters == [equities : SUBSET Symbols, futures : SUBSET Futures]

\* nearest_stock_futures: of every listed equity the future that ends first.
Nearest ==
  {f \in master.futures :
     /\ Underlying[f] \in master.equities
     /\ \A g \in master.futures : Underlying[g] = Underlying[f] => f <= g}

\* The named universe of the model is all symbols; the modes differ in the futures they sync.
Configured == {Equity(s) : s \in master.equities} \cup {Future(f) : f \in Nearest}

Idle == [pc |-> "idle", left |-> {}, due |-> {}]
Down == [pc |-> "down", left |-> {}, due |-> {},
         polled |-> {}, begun |-> FALSE, today |-> FALSE, full |-> FALSE]

TypeOK ==
  /\ ReferenceType
  /\ master \in Masters
  /\ contracts \subseteq Futures /\ activated \subseteq Series
  /\ daemon \in [pc : {"down", "starting", "idle", "equities", "futures", "activating"},
                 left : SUBSET Symbols, due : SUBSET Futures,
                 polled : SUBSET Series,  \* series
                 begun : BOOLEAN,         \* the first configuration is done
                 today : BOOLEAN,         \* configured_for is today
                 full : BOOLEAN]          \* the universe is the full equity master
  /\ premarket \in [pc : {"idle", "equities", "futures"},
                    left : SUBSET Symbols, due : SUBSET Futures]

-----------------------------------------------------------------------------
(* sync_instruments and sync_contracts, for either process. *)

\* load_or_download: the master that is published now.
Loaded(job, futures) ==
  [job EXCEPT !.pc = "equities", !.left = master.equities, !.due = futures]

\* One more row of an equity, or its end; a refusal is an exception.
SyncEquity(job, stepped, failed) ==
  /\ job.pc = "equities" /\ job.left # {}
  /\ LET s == First(job.left) IN
       \/ UpsertRow(s) /\ stepped = job
       \/ UpsertEnds(s) /\ stepped = [job EXCEPT !.left = @ \ {s}]
       \/ UpsertRefused(s) /\ stepped = failed
  /\ UNCHANGED <<master, series>>

EquitiesEnd(job, stepped) ==
  /\ job.pc = "equities" /\ job.left = {}
  /\ stepped = [job EXCEPT !.pc = "futures"]
  /\ UNCHANGED <<rows, master, series>>

\* A future needs its underlying among the equities just synced: an index future is refused
\* and ends the call.
SyncFuture(job, stepped, failed) ==
  /\ job.pc = "futures" /\ job.due # {}
  /\ LET f == First(job.due) IN
       IF Underlying[f] \in master.equities
       THEN /\ contracts' = contracts \cup {f}
            /\ stepped = [job EXCEPT !.due = @ \ {f}]
       ELSE stepped = failed /\ UNCHANGED contracts
  /\ UNCHANGED <<rows, master, activated>>

-----------------------------------------------------------------------------
(* The job before the session: all futures of the master. *)

Premarket ==
  /\ UNCHANGED daemon
  /\ \/ /\ premarket.pc = "idle"
        /\ premarket' = Loaded(premarket, master.futures)
        /\ UNCHANGED <<rows, master, series>>
     \/ SyncEquity(premarket, premarket', Idle)
     \/ EquitiesEnd(premarket, premarket')
     \/ SyncFuture(premarket, premarket', Idle)
     \/ /\ premarket.pc # "idle"                      \* it is done, or has broken
        /\ premarket' = Idle
        /\ UNCHANGED <<rows, master, series>>

-----------------------------------------------------------------------------
(* configure_collection_universe of the collector. *)

\* Before the first configuration an exception ends the process; afterwards the prior
\* universe is retained, and the next loop tries again.
Rested(job) == [job EXCEPT !.pc = "idle", !.left = {}, !.due = {}]
Failed(job) == IF job.begun THEN Rested(job) ELSE Down

Start ==
  /\ daemon.pc = "down"
  /\ \E full \in BOOLEAN : daemon' = [Down EXCEPT !.pc = "starting", !.full = full]
  /\ UNCHANGED <<rows, master, series, premarket>>

Configure ==
  /\ daemon.pc \in {"starting", "idle"} /\ ~daemon.today
  /\ daemon' = Loaded(daemon, IF daemon.full THEN Nearest ELSE master.futures)
  /\ UNCHANGED <<rows, master, series, premarket>>

Sync ==
  /\ UNCHANGED premarket
  /\ \/ SyncEquity(daemon, daemon', Failed(daemon))
     \/ EquitiesEnd(daemon, daemon')
     \/ SyncFuture(daemon, daemon', Failed(daemon))

\* A master without a cash equity is refused in the full mode.
Compose ==
  /\ daemon.pc = "futures" /\ daemon.due = {}
  /\ daemon' = IF daemon.full /\ master.equities = {} THEN Failed(daemon)
               ELSE [daemon EXCEPT !.pc = "activating"]
  /\ UNCHANGED <<rows, master, series, premarket>>

\* sync_expected_india_series: the collector is its only writer, so that what it reads as
\* active is what it deactivates, and what is active is what it inserts.
Activate ==
  /\ daemon.pc = "activating"
  /\ activated' = Configured
  /\ daemon' = [Rested(daemon) EXCEPT !.begun = TRUE, !.today = TRUE,
                                      !.polled = Configured]
  /\ UNCHANGED <<rows, master, contracts, premarket>>

\* The insert is done and its answer is lost.
ActivatedUnheard ==
  /\ daemon.pc = "activating"
  /\ activated' = Configured
  /\ daemon' = Failed(daemon)
  /\ UNCHANGED <<rows, master, contracts, premarket>>

Break ==
  /\ daemon.pc \in {"equities", "futures", "activating"}
  /\ daemon' = Failed(daemon)
  /\ UNCHANGED <<rows, master, series, premarket>>

Kill ==
  /\ daemon.pc # "down"
  /\ daemon' = Down
  /\ UNCHANGED <<rows, master, series, premarket>>

\* A new date, with a new instrument master; no load lasts from one to the next.
DayPasses ==
  /\ daemon.pc \in {"down", "idle"} /\ premarket.pc = "idle"
  /\ master' \in Masters
  /\ daemon' = [daemon EXCEPT !.today = FALSE]
  /\ UNCHANGED <<rows, series, premarket>>

Init ==
  /\ ReferenceInit
  /\ master \in Masters
  /\ contracts = {} /\ activated = {}
  /\ daemon = Down /\ premarket = Idle

Next ==
  \/ Premarket
  \/ Start \/ Configure \/ Sync \/ Compose \/ Activate \/ ActivatedUnheard \/ Break \/ Kill
  \/ DayPasses

Spec == Init /\ [][Next]_vars

-----------------------------------------------------------------------------
(* Properties. *)

\* While a collector that has configured itself today is not configuring again, what it polls
\* is what the table calls active.
ActiveIsPolled == daemon.pc = "idle" /\ daemon.today => activated = daemon.polled

\* What is polled or active can be stored: every equity has its listing, every future its
\* contract and the listing of its underlying.
PolledIsStorable ==
  \A x \in activated \cup daemon.polled :
    IF x[1] = "equity" THEN Collectable(x[2])
    ELSE x[2] \in contracts /\ Collectable(Underlying[x[2]])

=============================================================================
