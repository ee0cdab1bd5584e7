----------------------------- MODULE BillPasses -----------------------------
(***************************************************************************)
(* The Congress.gov passes of the political orchestrator for the active     *)
(* congress (congress_gov/ingest.py): A lists the bills, B asks for the     *)
(* detail of each bill without policy area, C for the sub-resources of the  *)
(* bills of a priority area, and one pass reads the hearings.  Each pass    *)
(* has a state file of units that are done and writes its rows in batches, *)
(* so that a run may break between any two writes.                        *)
(*                                                                         *)
(* One process at a time: the orchestrator holds its lock (RunLock).        *)
(***************************************************************************)
EXTENDS Integers

CONSTANTS
  Bills,      \* bills of the congress
  Hearings,   \* its hearings
  DryRuns,    \* whether somebody tries --dry-run
  MaxBreaks   \* bound on runs that break off

ASSUME PassesAssumption ==
  DryRuns \in BOOLEAN /\ MaxBreaks \in Nat /\ Bills \cap Hearings = {}

VARIABLES
  listed,   \* bills Congress.gov lists, with their type and number: without them one is passed over
  area,     \* their policy area, which is assigned some time after
  held,     \* hearings Congress.gov lists
  row,      \* table bills: no row, a row without policy area, or the area
  sponsor,  \* bills with a primary sponsor in bill_sponsors
  deep,     \* bills with their sub-resources stored, as far as those make rows
  heard,    \* table hearings
  marks,    \* the state files: list/<congress>/done, and the units done by pass
  run,      \* the process
  breaks,
  paged,    \* history: the bills that were listed when the list pass last began
  dropped,  \* history: bills the list pass never wrote although it went on or was marked
  torn,     \* history: bills whose run broke between the writes of row and sponsor
  wanting,  \* history: bills whose last answer to a real run named no sponsor, hearings
            \* whose last entry or answer was no good for a row
  dried     \* history: units marked done by a dry run

provider == <<listed, area, held>>
tables   == <<row, sponsor, deep, heard>>
history  == <<paged, dropped, torn, wanting, dried>>
vars     == <<provider, tables, marks, run, breaks, history>>

Areas == {"priority", "other"}
Units == Bills \cup Hearings
Passes == {"list", "detail", "hearings", "deep"}

Down == [pc |-> "down", pass |-> "list", dry |-> FALSE, todo |-> {}, buf |-> {},
         named |-> {}, done |-> {}]

TypeOK ==
  /\ listed \subseteq Bills /\ held \subseteq Hearings
  /\ area \in [Bills -> Areas \cup {"none"}]
  /\ row \in [Bills -> Areas \cup {"absent", "bare"}]
  /\ sponsor \subseteq Bills /\ deep \subseteq Bills /\ heard \subseteq Hearings
  /\ marks \in [list : BOOLEAN, detail : SUBSET Bills, hearings : SUBSET Hearings,
                deep : SUBSET Bills]
  /\ run \in [pc : {"down", "plan", "page", "tail", "fetch", "write", "sponsors", "save"},
              pass : Passes, dry : BOOLEAN, todo : SUBSET Units,
              buf : SUBSET (Units \X (Areas \cup {"bare", "row"})), named : SUBSET Bills,
              done : SUBSET Units]
  /\ breaks \in 0 .. MaxBreaks
  /\ paged \subseteq Bills /\ dropped \subseteq Bills
  /\ torn \subseteq Bills /\ wanting \subseteq Units /\ dried \subseteq Units

At(pc) == run.pc = pc
In(pass) == run.pass = pass
Buffered == {r[1] : r \in run.buf}
Enriched == {r[1] : r \in {q \in run.buf : q[2] \in Areas}}

-----------------------------------------------------------------------------
(* ingest_congress_gov: the passes of a daily run, or the deep pass of a weekly one. *)

Start ==
  /\ At("down")
  /\ \E first \in {"list", "deep"}, dry \in {FALSE, DryRuns} :
       run' = [Down EXCEPT !.pc = "plan", !.pass = first, !.dry = dry]
  /\ UNCHANGED <<provider, tables, marks, breaks, history>>

\* After the list the details, after them the hearings.
Following ==
  LET Then(pass) == [Down EXCEPT !.pc = "plan", !.pass = pass, !.dry = run.dry]
  IN  CASE In("list")   -> Then("detail")
        [] In("detail") -> Then("hearings")
        [] OTHER        -> Down

-----------------------------------------------------------------------------
(* ingest_bills_list. *)

PlanListAlone ==
  /\ At("plan") /\ In("list")
  /\ IF marks.list
     THEN run' = Down /\ UNCHANGED paged
     ELSE run' = [run EXCEPT !.pc = "page", !.todo = listed] /\ paged' = listed
  /\ UNCHANGED <<provider, tables, marks, breaks, dropped, torn, wanting, dried>>

PlanList ==
  /\ At("plan") /\ In("list")
  /\ IF marks.list
     THEN run' = Following /\ UNCHANGED paged
     ELSE run' = [run EXCEPT !.pc = "page", !.todo = listed] /\ paged' = listed
  /\ UNCHANGED <<provider, tables, marks, breaks, dropped, torn, wanting, dried>>

\* bulk_insert_ignore: skeleton rows for the bills that have none.
Insert(bs) == row' = [b \in Bills |-> IF b \in bs /\ row[b] = "absent" THEN "bare" ELSE row[b]]

Keep(bs) == IF run.dry THEN dropped' = dropped \cup bs /\ UNCHANGED row
            ELSE Insert(bs) /\ UNCHANGED dropped

\* A full batch among the pages read so far.
ListBatch ==
  /\ At("page")
  /\ \E batch \in SUBSET run.todo \ {{}} :
       Keep(batch) /\ run' = [run EXCEPT !.todo = @ \ batch]
  /\ UNCHANGED <<provider, sponsor, deep, heard, marks, breaks, paged, torn, wanting, dried>>

\* The last page: the congress is marked done on disk, and the rest is still in memory.
ListEnd ==
  /\ At("page")
  /\ marks' = [marks EXCEPT !.list = TRUE]
  /\ run' = [run EXCEPT !.pc = "tail", !.todo = {}, !.buf = {<<b, "bare">> : b \in run.todo}]
  /\ UNCHANGED <<provider, tables, breaks, history>>

ListTailLost ==
  /\ At("tail")
  /\ run' = Following
  /\ UNCHANGED <<provider, tables, marks, breaks, history>>

ListTail ==
  /\ At("tail")
  /\ Keep(Buffered)
  /\ run' = Following
  /\ UNCHANGED <<provider, sponsor, deep, heard, marks, breaks, paged, torn, wanting, dried>>

-----------------------------------------------------------------------------
(* The loops of ingest_bills_detail, ingest_hearings and ingest_bills_deep. *)

Targets(pass) ==
  CASE pass = "detail"   -> {b \in Bills : row[b] = "bare"}
    [] pass = "hearings" -> held
    [] pass = "deep"     -> {b \in Bills : row[b] \in Areas}

\* The state file is read, the targets are selected; units done before are passed over.
Plan ==
  /\ At("plan") /\ ~In("list")
  /\ run' = [run EXCEPT !.pc = "fetch", !.todo = Targets(run.pass) \ marks[run.pass],
                        !.done = marks[run.pass]]
  /\ UNCHANGED <<provider, tables, marks, breaks, history>>

Answer(u) ==
  CASE In("detail")   -> IF area[u] = "none" THEN "bare" ELSE area[u]
    [] In("hearings") -> "row"
    [] In("deep")     -> "row"

\* Nothing is asked about a bill of another area: it is just marked done.
Asked(u) == ~(In("deep") /\ row[u] = "other")

\* The rows that the converter makes of an answer: none if it lacks what a row must have.  Of
\* the sub-resources of a bill what makes rows is all there is to store.
Converted(u) == {rows \in SUBSET {<<u, Answer(u)>>} : In("deep") => (rows # {} <=> Asked(u))}

\* One unit is fetched and marked done in memory, whatever the answer was good for: a row for
\* the buffer or none, and a bill's primary sponsor with an identifier or none.
Fetch(u) ==
  /\ At("fetch") /\ u \in run.todo
  /\ \E rows \in Converted(u),
        named \in SUBSET (IF In("detail") THEN {u} ELSE {}) :
       /\ run' = [run EXCEPT !.todo = @ \ {u}, !.done = @ \cup {u},
                             !.buf = @ \cup rows, !.named = @ \cup named]
       /\ wanting' = IF run.dry \/ In("deep") THEN wanting
                    ELSE (wanting \ {u}) \cup {w \in {u} : (IF In("detail") THEN named ELSE rows) = {}}
  /\ UNCHANGED <<provider, tables, marks, breaks, paged, dropped, torn, dried>>

\* A hearing that is listed without its jacket number or its chamber is passed over: nothing is
\* asked, and nothing marked.
PassOver(h) ==
  /\ At("fetch") /\ In("hearings") /\ h \in run.todo
  /\ run' = [run EXCEPT !.todo = @ \ {h}]
  /\ wanting' = IF run.dry THEN wanting ELSE wanting \cup {h}
  /\ UNCHANGED <<provider, tables, marks, breaks, paged, dropped, torn, dried>>

\* The request fails: the loop goes on and the unit stays undone.
FetchFails(u) ==
  /\ At("fetch") /\ u \in run.todo /\ Asked(u)
  /\ breaks < MaxBreaks /\ breaks' = breaks + 1
  /\ run' = [run EXCEPT !.todo = @ \ {u}]
  /\ UNCHANGED <<provider, tables, marks, history>>

\* The buffer has reached its batch size, or the loop is over.
WriteDue ==
  /\ At("fetch") /\ (run.todo = {} \/ run.buf # {})
  /\ run' = [run EXCEPT !.pc = "write"]
  /\ UNCHANGED <<provider, tables, marks, breaks, history>>

\* The upserts of a batch, each a transaction: for details the rows, then the sponsors.
\* The three of the deep pass count as one, for they can all be repeated.
Write ==
  /\ At("write")
  /\ IF run.dry THEN UNCHANGED tables
     ELSE /\ row' = IF In("detail")
                    THEN [b \in Bills |-> IF b \in Enriched
                                          THEN CHOOSE a \in Areas : <<b, a>> \in run.buf
                                          ELSE row[b]]
                    ELSE row
          /\ deep' = IF In("deep") THEN deep \cup Buffered ELSE deep
          /\ heard' = IF In("hearings") THEN heard \cup Buffered ELSE heard
          /\ UNCHANGED sponsor
  /\ run' = [run EXCEPT !.pc = IF In("detail") THEN "sponsors" ELSE "save"]
  /\ UNCHANGED <<provider, marks, breaks, history>>

WriteSponsorsOfBatch ==
  /\ At("sponsors")
  /\ sponsor' = IF run.dry \/ run.todo = {} THEN sponsor ELSE sponsor \cup run.named
  /\ run' = [run EXCEPT !.pc = "save"]
  /\ UNCHANGED <<provider, row, deep, heard, marks, breaks, history>>

WriteSponsors ==
  /\ At("sponsors")
  /\ sponsor' = IF run.dry THEN sponsor ELSE sponsor \cup run.named
  /\ run' = [run EXCEPT !.pc = "save"]
  /\ UNCHANGED <<provider, row, deep, heard, marks, breaks, history>>

\* state.flush, in a dry run too.
Save ==
  /\ At("save")
  /\ marks' = [marks EXCEPT ![run.pass] = run.done]
  /\ run' = IF run.todo = {} THEN Following
            ELSE [run EXCEPT !.pc = "fetch", !.buf = {}, !.named = {}]
  /\ dried' = IF run.dry THEN dried \cup (run.done \ marks[run.pass]) ELSE dried
  /\ UNCHANGED <<provider, tables, breaks, paged, dropped, torn, wanting>>

\* The process dies, or the list, a write or a state file fails and the source with it.
Break ==
  /\ ~At("down")
  /\ breaks < MaxBreaks /\ breaks' = breaks + 1
  /\ run' = Down
  /\ dropped' = IF At("tail") THEN dropped \cup Buffered ELSE dropped
  /\ torn' = IF At("sponsors") /\ ~run.dry THEN torn \cup (Enriched \cap run.named) ELSE torn
  /\ UNCHANGED <<provider, tables, marks, paged, wanting, dried>>

-----------------------------------------------------------------------------
(* Congress. *)

Introduce(b) ==
  /\ b \notin listed
  /\ listed' = listed \cup {b}
  /\ UNCHANGED <<area, held, tables, marks, run, breaks, history>>

AssignArea(b) ==
  /\ b \in listed /\ area[b] = "none"
  /\ \E a \in Areas : area' = [area EXCEPT ![b] = a]
  /\ UNCHANGED <<listed, held, tables, marks, run, breaks, history>>

Hold(h) ==
  /\ h \notin held
  /\ held' = held \cup {h}
  /\ UNCHANGED <<listed, area, tables, marks, run, breaks, history>>

-----------------------------------------------------------------------------
Init ==
  /\ listed = {} /\ held = {}
  /\ area = [b \in Bills |-> "none"]
  /\ row = [b \in Bills |-> "absent"]
  /\ sponsor = {} /\ deep = {} /\ heard = {}
  /\ marks = [list |-> FALSE, detail |-> {}, hearings |-> {}, deep |-> {}]
  /\ run = Down
  /\ breaks = 0
  /\ paged = {} /\ dropped = {} /\ torn = {} /\ wanting = {} /\ dried = {}

Proceed ==
  \/ PlanList \/ ListBatch \/ ListEnd \/ ListTail
  \/ Plan \/ (\E u \in Units : Fetch(u)) \/ WriteDue \/ Write \/ WriteSponsors \/ Save

Next ==
  \/ Start \/ Proceed \/ Break
  \/ \E u \in Units : FetchFails(u)
  \/ \E b \in Bills : Introduce(b) \/ AssignArea(b)
  \/ \E h \in Hearings : PassOver(h) \/ Hold(h)

\* cron starts daily runs again and again, and a run goes on.
Daily == Start /\ run'.pass = "list" /\ ~run'.dry

Spec == Init /\ [][Next]_vars /\ WF_vars(Proceed) /\ SF_vars(Daily)

-----------------------------------------------------------------------------
(* Properties. *)

\* Every bill the list pass had to read before it was marked done has a row, unless its run
\* broke with the last batch in memory or was a dry run.
ListKept ==
  marks.list =>
    \A b \in paged : row[b] # "absent" \/ b \in dropped \/ (At("tail") /\ b \in Buffered)

\* What the answer for a unit was good for is in the tables once the unit is done on disk,
\* whenever the run that did it broke: a dry run is the only way to lose it.  A unit whose
\* answer had no sponsor or made no row is done as well, and not asked for again.
MarksStored ==
  /\ \A b \in marks.detail \ dried : row[b] # "absent" /\ b \in sponsor \cup wanting
  /\ marks.hearings \ dried \subseteq heard \cup wanting
  /\ marks.deep \ dried \subseteq {b \in Bills : row[b] = "other" \/ b \in deep}

\* A bill with a policy area is never a target of pass B again, so the sponsor that its answer
\* named must have been stored with it; only a run that broke between the two writes loses it.
SponsorKept ==
  \A b \in Bills : row[b] \in Areas =>
    b \in sponsor \cup wanting \cup torn \/ (At("sponsors") /\ b \in Enriched \cap run.named)

\* pipeline.md:141 "Expected to grow naturally - 119 is still active": again and again every
\* hearing that Congress.gov lists so far is stored, but for those of a dry run and those that
\* were last listed without jacket number or chamber, or answered without what makes a row.
HearingsStored == held \subseteq heard \cup dried \cup wanting

\* us_political_daily.py:229 "Congress.gov daily incremental - Pass A": a bill that
\* Congress.gov lists gets a row in the end.
BillsArrive == \A b \in Bills : b \in listed ~> row[b] # "absent"

=============================================================================
