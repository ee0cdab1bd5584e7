-------------------------- MODULE CorrectionReview --------------------------
(***************************************************************************)
(* The review of political corrections before the wave 4 backfill.  Legacy *)
(* rows are identified by key and content hash; candidates are staged for  *)
(* the current hash, enriched, and approved in batches; the backfill loads *)
(* a row by the approved correction and canonical ID of its current hash.   *)
(* Every command holds the migration lock, but a legacy writer may rewrite  *)
(* a row at any time, and backfill validates before it takes the lock.      *)
(* What a command inserts depends on nothing that can change while it holds *)
(* the lock, so that each is one action; backfill is one per statement.     *)
(*                                                                         *)
(* A revision stands for a content hash.  One legislator is behind all rows. *)
(***************************************************************************)
EXTENDS Integers

CONSTANTS
  Trades, Filings, Legislator, None,
  MaxRev,    \* bound on the revisions of a row
  Rewritten  \* bound: the rows that are rewritten

VARIABLES
  rev,       \* the current revision of each legacy row
  matched,   \* trades whose archived PDF supports their current revision
  sourced,   \* the source names the legislator by bioguide, or by a House alias
  crosswalk, \* meta.migration_id_crosswalk
  review,    \* meta.migration_political_trade_enrichment
  facts,     \* alt.political_filings and alt.political_trades
  backfill,  \* the validations and the statements of a backfill
  moved,     \* history: a row was rewritten after the validations of this backfill began
  complete   \* history: a backfill succeeded, nothing was rewritten since its validations began

legacy == <<rev, matched, sourced>>
tables == <<crosswalk, review, facts>>
vars   == <<legacy, tables, backfill, moved, complete>>

Rows == Trades \cup Filings          \* rows under review
Ids  == Trades \cup {Legislator}     \* rows with a canonical ID
Revs == 1 .. MaxRev

\* The semantic columns, the amounts being those of the trade; batch orders the approvals
\* of a key by version, 0 for a candidate.
Corrections == [who : {"nobody", "bioguide", "entity"}, listed : BOOLEAN, batch : Nat]
Facts       == [rev : Revs, who : {"nobody", "bioguide", "entity"}, listed : BOOLEAN]

ReviewAssumption == MaxRev \in Nat \ {0} /\ None \notin Corrections \cup Facts

TypeOK ==
  /\ rev \in [Rows \cup Ids -> Revs]
  /\ matched \subseteq Trades /\ sourced \in BOOLEAN
  /\ crosswalk \in [Ids \X Revs -> {"absent", "staged", "approved"}]
  /\ review \in [Rows \X Revs -> Corrections \cup {None}]
  /\ facts \in [Rows -> Facts \cup {None}]
  /\ backfill \in {"none", "reviewed", "passed", "filings", "trades"}
  /\ moved \in BOOLEAN /\ complete \in BOOLEAN

Free      == backfill \notin {"filings", "trades"}  \* of the migration lock
Semantics(c) == <<c.who, c.listed>>

Exists(kr)   == review[kr] # None
Pending(kr)  == Exists(kr) /\ review[kr].batch = 0
Approved(kr) == Exists(kr) /\ review[kr].batch > 0
Current(k)   == <<k, rev[k]>>

\* An insert goes out 5000 rows at a time: a failure leaves some of the rows out.
Written(all) == SUBSET all \ {{}}

-----------------------------------------------------------------------------
(* resolve_clickhouse_v2_candidates.py: canonical IDs. *)

PutIds(S, status) ==
  /\ crosswalk' = [kr \in Ids \X Revs |-> IF kr \in S THEN status ELSE crosswalk[kr]]
  /\ UNCHANGED <<legacy, review, facts, backfill, moved, complete>>

NewIds == {kr \in Ids \X Revs : kr = Current(kr[1]) /\ crosswalk[kr] = "absent"}

\* stage_candidates
StageIds ==
  /\ Free
  /\ \E S \in Written(NewIds) : PutIds(S, "staged")

StagedIds == {kr \in Ids \X Revs : crosswalk[kr] = "staged"}

\* approve_candidates: whatever is staged.
ApproveIds ==
  /\ Free
  /\ \E S \in Written(StagedIds) : PutIds(S, "approved")

-----------------------------------------------------------------------------
(* stage_clickhouse_v2_political.py: corrections. *)

Known == \E r \in Revs : crosswalk[<<Legislator, r>>] = "approved"

Put(new) ==
  /\ review' = [kr \in Rows \X Revs |-> IF kr \in DOMAIN new THEN new[kr] ELSE review[kr]]
  /\ UNCHANGED <<legacy, crosswalk, facts, backfill, moved, complete>>

\* resolve_legislator: a bioguide of the source is kept also when nobody knows it.
Who ==
  IF Known THEN "entity" ELSE IF sourced THEN "bioguide" ELSE "nobody"

Candidate == [who |-> Who, listed |-> FALSE, batch |-> 0]

\* A candidate of this revision that nobody has approved and that lacks the legislator.
Refreshable(k) ==
  Pending(Current(k)) /\ review[Current(k)].who = "nobody" /\ Who # "nobody"

Stageable == {k \in Filings \cup matched : ~Exists(Current(k)) \/ Refreshable(k)}

StageCorrections ==
  /\ Free
  /\ \E S \in Written({Current(k) : k \in Stageable}) : Put([kr \in S |-> Candidate])

\* resolve_sec_political_listings_v2.py enriches candidates of the current revision, of
\* those tickers that the SEC files of the moment list.
ListableAny == {t \in Trades : Exists(Current(t)) /\ ~review[Current(t)].listed}
Listable == {t \in Trades : Pending(Current(t)) /\ ~review[Current(t)].listed}

StageListings ==
  /\ Free
  /\ \E S \in SUBSET {Current(t) : t \in Listable} :
       S # {} /\ Put([kr \in S |-> [review[kr] EXCEPT !.listed = TRUE]])

-----------------------------------------------------------------------------
(* approve_clickhouse_v2_political.py *)

ApprovedOf(k) == {r \in Revs : Approved(<<k, r>>)}
PendingOf(k)  == {r \in Revs : Pending(<<k, r>>)}
Newest(k)     == {r \in ApprovedOf(k) : \A s \in ApprovedOf(k) :
                                          review[<<k, s>>].batch <= review[<<k, r>>].batch}

\* reviewed_candidates: the rows of one batch have one version, any of them may be the
\* prior decision.
UnchangedFrom(k, prior) ==
  \A r \in PendingOf(k) : Semantics(review[<<k, r>>]) = Semantics(review[<<k, prior>>])

Acceptable(k) == ApprovedOf(k) = {} \/ \E prior \in Newest(k) : UnchangedFrom(k, prior)

NextBatch(k) ==
  IF ApprovedOf(k) = {} THEN 1 ELSE 1 + review[<<k, CHOOSE r \in Newest(k) : TRUE>>].batch

AllPending == {kr \in Rows \X Revs : Pending(kr)}

ApproveCorrections ==
  /\ Free
  /\ \A k \in Rows : Acceptable(k)
  /\ \E S \in Written(AllPending) :
       Put([kr \in S |-> [review[kr] EXCEPT !.batch = NextBatch(kr[1])]])

\* One changed decision refuses the whole batch.
ApproveRefused ==
  /\ Free
  /\ \E k \in Rows : ~Acceptable(k)
  /\ UNCHANGED vars

-----------------------------------------------------------------------------
(* migrate_clickhouse_v2.py apply backfill --through-wave 4 *)

Step(next) == backfill' = next /\ UNCHANGED <<legacy, tables>>

\* The wave 0 validations: no unapproved row in either table.
ValidateReviewed ==
  /\ backfill = "none"
  /\ StagedIds = {} /\ AllPending = {}
  /\ Step("reviewed")
  /\ UNCHANGED <<moved, complete>>

\* The wave 4 validations: every current revision has an approved correction and ID.
CurrentReviewed == \A k \in Rows : Approved(Current(k))
CurrentApproved ==
  /\ \A k \in Rows : Approved(Current(k))
  /\ \A t \in Trades : crosswalk[Current(t)] = "approved"

ValidateCurrent ==
  /\ backfill = "reviewed"
  /\ Step(IF CurrentApproved THEN "passed" ELSE "none")
  /\ moved' = (moved /\ CurrentApproved) /\ UNCHANGED complete

LockBackfill ==
  /\ backfill = "passed"
  /\ Step("filings")
  /\ UNCHANGED <<moved, complete>>

\* The join admits the approved rows of the current revision; the versions only grow.
Admitted(k) == Approved(Current(k)) /\ (k \in Trades => crosswalk[Current(k)] = "approved")

Load(S) ==
  facts' = [k \in Rows |->
    IF k \in S /\ Admitted(k)
    THEN [rev |-> rev[k], who |-> review[Current(k)].who, listed |-> review[Current(k)].listed]
    ELSE facts[k]]

LoadFilings ==
  /\ backfill = "filings" /\ backfill' = "trades"
  /\ Load(Filings)
  /\ UNCHANGED <<legacy, crosswalk, review, moved, complete>>

LoadTrades ==
  /\ backfill = "trades" /\ backfill' = "none"
  /\ Load(Trades)
  /\ complete' = ~moved /\ moved' = FALSE
  /\ UNCHANGED <<legacy, crosswalk, review>>

\* Another command holds the lock, or a statement fails.
BackfillFails ==
  /\ backfill # "none"
  /\ Step("none")
  /\ moved' = FALSE /\ UNCHANGED complete

-----------------------------------------------------------------------------
(* The world. *)

\* A legacy writer stores the row again: a new hash, and other text for the PDF to match.
Rewrite(k) ==
  /\ rev[k] < MaxRev
  /\ rev' = [rev EXCEPT ![k] = @ + 1]
  /\ matched' \in {matched \ {k}, matched \cup ({k} \cap Trades)}
  /\ moved' = (backfill # "none") /\ complete' = FALSE
  /\ UNCHANGED <<sourced, tables, backfill>>

-----------------------------------------------------------------------------
Init ==
  /\ rev = [k \in Rows \cup Ids |-> 1]
  /\ matched \in SUBSET Trades
  /\ sourced \in BOOLEAN
  /\ crosswalk = [kr \in Ids \X Revs |-> "absent"]
  /\ review = [kr \in Rows \X Revs |-> None]
  /\ facts = [k \in Rows |-> None]
  /\ backfill = "none"
  /\ moved = FALSE /\ complete = FALSE

Next ==
  \/ StageIds \/ ApproveIds \/ StageCorrections \/ StageListings
  \/ ApproveCorrections \/ ApproveRefused
  \/ ValidateReviewed \/ ValidateCurrent \/ LockBackfill \/ LoadFilings \/ LoadTrades
  \/ BackfillFails
  \/ \E k \in Rewritten : Rewrite(k)

Spec == Init /\ [][Next]_vars

-----------------------------------------------------------------------------
(* Properties. *)

\* Two revisions of one row were staged and approved together with different decisions:
\* nothing compares the rows of a batch with each other.
Contradictory(k) ==
  \E r, s \in ApprovedOf(k) : /\ review[<<k, r>>].batch = review[<<k, s>>].batch
                              /\ Semantics(review[<<k, r>>]) # Semantics(review[<<k, s>>])

\* docs/operations/clickhouse-v2-data-completion.md:21 "refuses changes to previously
\* approved semantic corrections": whatever is rewritten, restaged, enriched or half
\* approved, a loaded fact never changes its decision, unless one batch contradicted itself.
FactKept ==
  [][\A k \in Rows : facts[k] # None /\ facts'[k] # facts[k] =>
       Semantics(facts'[k]) = Semantics(facts[k]) \/ Contradictory(k)]_vars

\* Validations run before the lock, in several queries, while other commands stage and
\* approve: a backfill that succeeds has still loaded every row by its approved correction,
\* if no legacy writer ran since the validations began.
SuccessIsLoaded ==
  complete => \A k \in Rows : /\ facts[k] # None /\ facts[k].rev = rev[k]
                              /\ Semantics(facts[k]) = Semantics(review[Current(k)])

=============================================================================
