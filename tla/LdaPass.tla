------------------------------- MODULE LdaPass -------------------------------
(***************************************************************************)
(* The lobbying source of the daily political run (lda/ingest.py): all     *)
(* filings of the year are read page by page, then their rows are written   *)
(* table by table.  A filing has its uuid from the provider, an activity   *)
(* gets a random one each time it is read, so that tables are counted in    *)
(* copies: none, one, several.                                             *)
(* Every filing here has its uuid and an activity, with targets and         *)
(* lobbyists; the codes and entities that these refer to are in the         *)
(* reference tables, which revision 008 seeds.                             *)
(*                                                                         *)
(* One process at a time: the orchestrator holds its lock (RunLock).        *)
(***************************************************************************)
EXTENDS Integers

CONSTANTS
  Filings,    \* filings of the year
  DryRuns,    \* whether somebody tries --dry-run
  MaxBreaks   \* bound on runs that break off

LdaAssumption == DryRuns \in BOOLEAN /\ MaxBreaks \in Nat

VARIABLES
  posted,      \* filings the provider lists
  filings,     \* table lobbying_filings
  activities,  \* table lobbying_activities: copies of a filing's activity
  targets,     \* table lobbying_activity_targets: copies that have their targets
  lobbyists,   \* table lobbying_activity_lobbyists: copies that have their lobbyists
  aliases,     \* table lobby_client_aliases: filings whose client name was learned
  job,         \* the process
  breaks

tables == <<filings, activities, targets, lobbyists, aliases>>
vars   == <<posted, tables, job, breaks>>

Copies == 0 .. 2
Plus(m, n) == IF m + n > 2 THEN 2 ELSE m + n
Nothing == [f \in Filings |-> 0]

Down == [pc |-> "down", dry |-> FALSE, unread |-> {}, shifted |-> FALSE,
         buf |-> {}, acts |-> Nothing]

TypeOK ==
  /\ posted \subseteq Filings /\ filings \subseteq posted /\ aliases \subseteq filings
  /\ activities \in [Filings -> Copies]
  /\ targets \in [Filings -> Copies] /\ lobbyists \in [Filings -> Copies]
  /\ job \in [pc : {"down", "read", "filings", "activities", "targets", "lobbyists", "aliases"},
              dry : BOOLEAN, unread : SUBSET Filings, shifted : BOOLEAN,
              buf : SUBSET Filings, acts : [Filings -> Copies]]
  /\ breaks \in 0 .. MaxBreaks

At(pc) == job.pc = pc

Start ==
  /\ At("down")
  /\ \E dry \in {FALSE, DryRuns} :
       job' = [Down EXCEPT !.pc = "read", !.dry = dry, !.unread = posted]
  /\ UNCHANGED <<posted, tables, breaks>>

-----------------------------------------------------------------------------
(* iter_filings. *)

Take(f) == [job EXCEPT !.unread = @ \ {f}, !.buf = @ \cup {f}, !.acts[f] = Plus(@, 1)]

Read(f) ==
  /\ At("read") /\ f \in job.unread
  /\ job' = Take(f)
  /\ UNCHANGED <<posted, tables, breaks>>

\* A filing posted while the pages are read shifts the offsets: the last row of a page
\* comes again as the first of the next one.
Reappear(f) ==
  /\ At("read") /\ job.shifted /\ f \in job.buf
  /\ job' = [Take(f) EXCEPT !.shifted = FALSE]
  /\ UNCHANGED <<posted, tables, breaks>>

ReadEnd ==
  /\ At("read") /\ job.unread = {}
  /\ job' = IF job.dry THEN Down ELSE [job EXCEPT !.pc = "filings"]
  /\ UNCHANGED <<posted, tables, breaks>>

-----------------------------------------------------------------------------
(* The writes of ingest_lda, each a transaction. *)

WriteFilingsOnce ==
  /\ At("filings")
  /\ filings' = filings \cup job.buf
  /\ job' = [job EXCEPT !.pc = "activities", !.acts = [f \in Filings |->
                                                       IF f \in filings THEN 0 ELSE @[f]]]
  /\ UNCHANGED <<posted, activities, targets, lobbyists, aliases, breaks>>

\* An update or an insert by the provider's uuid.
WriteFilings ==
  /\ At("filings")
  /\ filings' = filings \cup job.buf
  /\ job' = [job EXCEPT !.pc = "activities"]
  /\ UNCHANGED <<posted, activities, targets, lobbyists, aliases, breaks>>

\* Inserts that a random identifier never lets conflict with a row of an earlier run.
Added(table) == [f \in Filings |-> Plus(table[f], job.acts[f])]

WriteActivities ==
  /\ At("activities")
  /\ activities' = Added(activities)
  /\ job' = [job EXCEPT !.pc = "targets"]
  /\ UNCHANGED <<posted, filings, targets, lobbyists, aliases, breaks>>

WriteTargets ==
  /\ At("targets")
  /\ targets' = Added(targets)
  /\ job' = [job EXCEPT !.pc = "lobbyists"]
  /\ UNCHANGED <<posted, filings, activities, lobbyists, aliases, breaks>>

WriteLobbyists ==
  /\ At("lobbyists")
  /\ lobbyists' = Added(lobbyists)
  /\ job' = [job EXCEPT !.pc = "aliases"]
  /\ UNCHANGED <<posted, filings, activities, targets, aliases, breaks>>

\* The client names that the resolver matched; one that it knows is learned no more.
WriteAliases ==
  /\ At("aliases")
  /\ \E learned \in SUBSET (job.buf \ aliases) : aliases' = aliases \cup learned
  /\ job' = Down
  /\ UNCHANGED <<posted, filings, activities, targets, lobbyists, breaks>>

\* The process dies, a page cannot be read or a write fails: the source has failed.
Break ==
  /\ ~At("down")
  /\ breaks < MaxBreaks /\ breaks' = breaks + 1
  /\ job' = Down
  /\ UNCHANGED <<posted, tables>>

\* A registrant files.
Post(f) ==
  /\ f \notin posted
  /\ posted' = posted \cup {f}
  /\ job' = IF At("read") THEN [job EXCEPT !.shifted = TRUE] ELSE job
  /\ UNCHANGED <<tables, breaks>>

-----------------------------------------------------------------------------
Init ==
  /\ posted = {} /\ filings = {} /\ aliases = {}
  /\ activities = Nothing /\ targets = Nothing /\ lobbyists = Nothing
  /\ job = Down
  /\ breaks = 0

Proceed ==
  \/ \E f \in Filings : Read(f)
  \/ ReadEnd
  \/ WriteFilings \/ WriteActivities \/ WriteTargets \/ WriteLobbyists \/ WriteAliases

Next ==
  \/ Start \/ Proceed \/ Break
  \/ \E f \in Filings : Reappear(f) \/ Post(f)

\* cron starts daily runs again and again, and a run goes on.
Daily == Start /\ ~job'.dry

Spec == Init /\ [][Next]_vars /\ WF_vars(Proceed) /\ SF_vars(Daily)

-----------------------------------------------------------------------------
(* Properties. *)

\* The foreign keys among the lobbying tables (those to lda_issue_codes and to
\* lda_government_entities are not modelled): no activity without its filing, no target or
\* lobbyist without its activity, wherever a run broke.
ParentsFirst ==
  \A f \in Filings : /\ activities[f] > 0 => f \in filings
                     /\ targets[f] <= activities[f] /\ lobbyists[f] <= targets[f]

\* Again and again every filing posted so far is stored with an activity, its targets and
\* lobbyists, although a run may break after the filing was written and before its activity was.
LobbyingStored ==
  \A f \in posted : f \in filings /\ activities[f] > 0 /\ targets[f] > 0 /\ lobbyists[f] > 0

\* orchestrator.py:10 "Each phase is independently runnable and idempotent": running the
\* source again does not store an activity again.
OneCopy == \A f \in Filings : activities[f] <= 1

=============================================================================
