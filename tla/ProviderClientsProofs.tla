------------------------ MODULE ProviderClientsProofs ------------------------
(***************************************************************************)
(* Proofs about the sources that talk to a provider: for any number of     *)
(* bills, committees, filings, keys and intervals, what the state files     *)
(* call done is stored, no foreign key refuses a batch, the client defers   *)
(* and answers as it should, and the collectors keep their token.          *)
(***************************************************************************)
EXTENDS ProviderClients, TLAPS

-----------------------------------------------------------------------------
(* The Congress.gov passes. *)

\* The steps of a pass over units.
Loop == {"fetch", "write", "sponsors", "save"}
UnitsOf(pass) == IF pass = "hearings" THEN Hearings ELSE Bills

\* Which fields of a run mean something, and what they hold, at each of its steps.
RunShape ==
  /\ run.pc \in {"down", "plan"} => run.buf = {} /\ run.named = {}
  /\ At("page") => ~marks.list /\ run.todo \subseteq Bills
  /\ At("tail") => run.buf \subseteq Bills \X {"bare"}
  /\ run.pc \in Loop => /\ ~In("list")
                        /\ run.todo \subseteq UnitsOf(run.pass) /\ run.done \subseteq UnitsOf(run.pass)
                        /\ Buffered \subseteq UnitsOf(run.pass)
                        /\ run.todo \cap (run.done \cup marks[run.pass]) = {}
  /\ At("sponsors") => In("detail")

\* The pages that are still to come hold the bills of the list that no batch has had.
PagesKept ==
  At("page") => \A b \in paged : row[b] # "absent" \/ b \in dropped \/ b \in run.todo

\* A bill whose detail is to be asked for, or whose answer is unwritten, has no policy area.  The
\* answer of a real run named a sponsor, or it is known that it did not.
DetailsBare ==
  run.pc \in Loop /\ In("detail") =>
    /\ \A b \in run.todo : row[b] = "bare" /\ b \notin Buffered
    /\ \A b \in Buffered \cup run.named : row[b] # "absent"
    /\ run.pc \in {"fetch", "write"} \/ run.dry => \A b \in Buffered : row[b] = "bare"
    /\ ~run.dry => Buffered \subseteq run.named \cup wanting

\* What a real run calls done in memory is stored, as far as the answer made rows, or is in the
\* batch that is written before the state file is.
IsStored(pass, u) ==
  /\ pass = "detail" => u \in sponsor \cup wanting /\ row[u] # "absent"
  /\ pass = "hearings" => u \in heard \cup wanting
  /\ pass = "deep" => row[u] = "other" \/ u \in deep

Unwritten == IF In("detail") THEN run.named ELSE Buffered

DoneSoFar ==
  run.pc \in Loop /\ ~run.dry =>
    \A u \in run.done : \/ u \in marks[run.pass] \/ IsStored(run.pass, u)
                        \/ ~At("save") /\ u \in Unwritten

BillsInv ==
  /\ TypeOK /\ RunShape /\ PagesKept /\ DetailsBare /\ DoneSoFar
  /\ ListKept /\ SponsorKept /\ MarksStored

Marks == [list : BOOLEAN, detail : SUBSET Bills, hearings : SUBSET Hearings, deep : SUBSET Bills]
Answers == Areas \cup {"bare", "row"}
Runs == [pc : {"down", "plan", "page", "tail", "fetch", "write", "sponsors", "save"},
         pass : Passes, dry : BOOLEAN, todo : SUBSET Units,
         buf : SUBSET (Units \X Answers), named : SUBSET Bills, done : SUBSET Units]

\* The variables by type.
LEMMA BillTypes ==
  TypeOK <=>
    /\ listed \subseteq Bills /\ held \subseteq Hearings
    /\ area \in [Bills -> Areas \cup {"none"}]
    /\ row \in [Bills -> Areas \cup {"absent", "bare"}]
    /\ sponsor \subseteq Bills /\ deep \subseteq Bills /\ heard \subseteq Hearings
    /\ marks \in Marks /\ run \in Runs
    /\ breaks \in 0 .. MaxBreaks
    /\ paged \subseteq Bills /\ dropped \subseteq Bills
    /\ torn \subseteq Bills /\ wanting \subseteq Units /\ dried \subseteq Units
BY DEF TypeOK, Marks, Runs, Answers

\* A run that is not yet, or no longer, in a pass.
LEMMA FollowingRests ==
  ASSUME run \in Runs
  PROVE  Following \in Runs /\ Following.pc \in {"down", "plan"} /\ Following.buf = {}
         /\ Following.named = {}
<1>1. \A pass \in Passes : [Down EXCEPT !.pc = "plan", !.pass = pass, !.dry = run.dry] \in Runs
  BY DEF Runs, Down, Passes
<1>2. Down \in Runs
  BY DEF Runs, Down, Passes
<1>3. CASE In("list")
  BY <1>1, <1>3 DEF Following, In, Passes, Down
<1>4. CASE In("detail")
  BY <1>1, <1>4 DEF Following, In, Passes, Down
<1>5. CASE ~In("list") /\ ~In("detail")
  BY <1>2, <1>5 DEF Following, Down
<1> QED BY <1>3, <1>4, <1>5

\* A run that rests leaves only what the tables and the state files say.
LEMMA RestKeeps ==
  ASSUME TypeOK', run'.pc \in {"down", "plan"}, run'.buf = {}, run'.named = {}, ListKept', SponsorKept', MarksStored'
  PROVE  BillsInv'
<1>1. RunShape'
  BY DEF RunShape, At, In, Loop
<1>2. PagesKept' /\ DetailsBare' /\ DoneSoFar'
  BY DEF PagesKept, DetailsBare, DoneSoFar, At, Loop
<1> QED BY <1>1, <1>2 DEF BillsInv

\* The units of a buffer that gets one more answer.
LEMMA OneMore ==
  ASSUME NEW S, NEW u, NEW v
  PROVE  {r[1] : r \in S \cup {<<u, v>>}} = {r[1] : r \in S} \cup {u}
<1>1. <<u, v>>[1] = u
  OBVIOUS
<1>2. \A x : x \in {r[1] : r \in S \cup {<<u, v>>}} <=> x \in {r[1] : r \in S} \/ x = <<u, v>>[1]
  OBVIOUS
<1> QED BY <1>1, <1>2

\* No run, no marks and no rows: the invariant holds.
LEMMA BillsBegin == Init => BillsInv
<1> SUFFICES ASSUME Init PROVE BillsInv
  OBVIOUS
<1>1. Down \in Runs /\ Down.pc = "down" /\ Down.buf = {} /\ Down.named = {}
  BY DEF Down, Runs, Passes
<1>2. TypeOK
  BY <1>1, ConstantsAssumption, PassesAssumption, BillTypes DEF Init, Marks
<1>3. RunShape /\ PagesKept /\ DetailsBare /\ DoneSoFar
  BY <1>1 DEF Init, RunShape, PagesKept, DetailsBare, DoneSoFar, At, In, Loop
<1>4. ListKept /\ SponsorKept /\ MarksStored
  BY DEF Init, ListKept, SponsorKept, MarksStored, Areas
<1> QED BY <1>2, <1>3, <1>4 DEF BillsInv

\* A run begins with the state files it finds.
LEMMA StartBills == BillsInv /\ Start => BillsInv'
<1> SUFFICES ASSUME BillsInv, Start PROVE BillsInv'
  OBVIOUS
<1>1. PICK first \in {"list", "deep"}, dry \in {FALSE, DryRuns} :
        run' = [Down EXCEPT !.pc = "plan", !.pass = first, !.dry = dry]
  BY DEF Start
<1>2. run' \in Runs /\ run'.pc = "plan" /\ run'.buf = {} /\ run'.named = {}
  BY <1>1, PassesAssumption DEF Down, Runs, Passes
<1>3. UNCHANGED <<provider, tables, marks, breaks, history>> /\ At("down")
  BY DEF Start
<1>4. TypeOK'
  BY <1>2, <1>3, BillTypes DEF BillsInv, provider, tables, history, TypeOK, Runs, Answers
<1>5. ListKept' /\ SponsorKept' /\ MarksStored'
  BY <1>3 DEF BillsInv, ListKept, SponsorKept, MarksStored, At, provider, tables, history
<1> QED BY <1>2, <1>4, <1>5, RestKeeps

\* The list pass is due, or it is marked done.
LEMMA PlanListBills == BillsInv /\ PlanList => BillsInv'
<1> SUFFICES ASSUME BillsInv, PlanList PROVE BillsInv'
  OBVIOUS
<1>1. run \in Runs /\ listed \subseteq Bills /\ run.buf = {} /\ run.named = {} /\ At("plan")
  BY BillTypes DEF BillsInv, PlanList, RunShape, At
<1>2. UNCHANGED <<provider, tables, marks, breaks, dropped, torn, wanting, dried>>
  BY DEF PlanList
<1>3. SponsorKept' /\ MarksStored'
  BY <1>1, <1>2 DEF BillsInv, SponsorKept, MarksStored, At, provider, tables
<1>4. CASE marks.list
  <2>1. run' = Following /\ paged' = paged
    BY <1>4 DEF PlanList
  <2>2. TypeOK'
    BY <1>1, <1>2, <2>1, FollowingRests DEF BillsInv, TypeOK, provider, tables, Runs, Answers
  <2>3. ListKept'
    BY <1>1, <1>2, <2>1 DEF BillsInv, ListKept, At, provider, tables
  <2> QED BY <1>1, <1>3, <2>1, <2>2, <2>3, FollowingRests, RestKeeps
<1>5. CASE ~marks.list
  <2>1. run' = [run EXCEPT !.pc = "page", !.todo = listed] /\ paged' = listed
    BY <1>5 DEF PlanList
  <2>2. run'.pc = "page" /\ run'.todo = listed /\ run'.pass = run.pass /\ run' \in Runs /\ In("list")
    BY <1>1, <2>1 DEF Runs, PlanList, Units
  <2>3. TypeOK'
    BY <1>1, <1>2, <2>1, <2>2 DEF BillsInv, TypeOK, provider, tables, Runs, Answers
  <2>4. RunShape' /\ PagesKept' /\ DetailsBare' /\ DoneSoFar'
    BY <1>1, <1>2, <1>5, <2>1, <2>2 DEF RunShape, PagesKept, DetailsBare, DoneSoFar, At, In, Loop
  <2>5. ListKept'
    BY <1>2, <1>5 DEF ListKept
  <2> QED BY <1>3, <2>3, <2>4, <2>5 DEF BillsInv
<1> QED BY <1>4, <1>5

\* A batch of the list: skeleton rows in a real run, none in a dry one.
LEMMA BatchKept ==
  ASSUME TypeOK, NEW bs \in SUBSET Bills, Keep(bs)
  PROVE  /\ row' \in [Bills -> Areas \cup {"absent", "bare"}] /\ dropped' \subseteq Bills
         /\ dropped \subseteq dropped'
         /\ \A b \in Bills : row[b] # "absent" => row'[b] = row[b]
         /\ \A b \in Bills : row'[b] \in Areas => row[b] = row'[b]
         /\ \A b \in bs : row'[b] # "absent" \/ b \in dropped'
BY BillTypes DEF Keep, Insert, Areas

\* A batch of the list is written or lost.
LEMMA ListBatchBills == BillsInv /\ ListBatch => BillsInv'
<1> SUFFICES ASSUME BillsInv, ListBatch PROVE BillsInv'
  OBVIOUS
<1>1. PICK batch \in SUBSET run.todo \ {{}} : Keep(batch) /\ run' = [run EXCEPT !.todo = @ \ batch]
  BY DEF ListBatch
<1>2. run \in Runs /\ run.pc = "page" /\ run.todo \subseteq Bills /\ ~marks.list
  BY BillTypes DEF BillsInv, ListBatch, RunShape, At
<1>3. UNCHANGED <<listed, area, held, sponsor, deep, heard, marks, breaks, paged, torn, wanting, dried>>
  BY DEF ListBatch, provider
<1>4. /\ run' \in Runs /\ run'.pc = "page" /\ run'.pass = run.pass
      /\ run'.todo = run.todo \ batch
  BY <1>1, <1>2 DEF Runs
<1>5. TypeOK
  BY DEF BillsInv
<1>6. /\ row' \in [Bills -> Areas \cup {"absent", "bare"}] /\ dropped' \subseteq Bills
      /\ dropped \subseteq dropped'
      /\ \A b \in Bills : row[b] # "absent" => row'[b] = row[b]
      /\ \A b \in Bills : row'[b] \in Areas => row[b] = row'[b]
      /\ \A b \in batch : row'[b] # "absent" \/ b \in dropped'
  BY <1>1, <1>2, <1>5, BatchKept
<1>7. TypeOK'
  BY <1>3, <1>4, <1>5, <1>6 DEF TypeOK, Runs, Answers
<1>8. RunShape' /\ DetailsBare' /\ DoneSoFar'
  BY <1>2, <1>3, <1>4 DEF RunShape, DetailsBare, DoneSoFar, At, In, Loop
<1>9. PagesKept'
  BY <1>2, <1>3, <1>4, <1>5, <1>6, BillTypes DEF BillsInv, PagesKept, At
<1>10. ListKept'
  BY <1>2, <1>3 DEF ListKept
<1>11. SponsorKept'
  BY <1>2, <1>3, <1>4, <1>6 DEF BillsInv, SponsorKept, At
<1>12. MarksStored'
  BY <1>3, <1>5, <1>6, BillTypes DEF BillsInv, MarksStored, Marks, Areas
<1> QED BY <1>7, <1>8, <1>9, <1>10, <1>11, <1>12 DEF BillsInv

\* The last page marks the list done, with its tail still in memory.
LEMMA ListEndBills == BillsInv /\ ListEnd => BillsInv'
<1> SUFFICES ASSUME BillsInv, ListEnd PROVE BillsInv'
  OBVIOUS
<1>1. /\ run \in Runs /\ run.pc = "page" /\ run.todo \subseteq Bills /\ marks \in Marks
      /\ TypeOK
  BY BillTypes DEF BillsInv, ListEnd, RunShape, At
<1>2. UNCHANGED <<provider, tables, breaks, history>> /\ marks' = [marks EXCEPT !.list = TRUE]
      /\ run' = [run EXCEPT !.pc = "tail", !.todo = {}, !.buf = {<<b, "bare">> : b \in run.todo}]
  BY DEF ListEnd
<1>3. /\ run'.pc = "tail" /\ run'.pass = run.pass /\ run'.buf = {<<b, "bare">> : b \in run.todo}
  BY <1>1, <1>2 DEF Runs
<1>4. {<<b, "bare">> : b \in run.todo} \subseteq Units \X Answers
  BY <1>1 DEF Units, Answers
<1>5. run' \in Runs
  BY <1>1, <1>2, <1>4 DEF Runs
<1>6. marks' \in Marks /\ marks'.detail = marks.detail /\ marks'.hearings = marks.hearings
      /\ marks'.deep = marks.deep
  BY <1>1, <1>2 DEF Marks
<1>7. TypeOK'
  BY <1>1, <1>2, <1>5, <1>6 DEF TypeOK, provider, tables, history, Runs, Marks, Answers
<1>8. \A b \in run.todo : b \in Buffered'
  <2>1. \A b \in run.todo : <<b, "bare">> \in run'.buf /\ <<b, "bare">>[1] = b
    BY <1>3
  <2> QED BY <2>1 DEF Buffered
<1>9. RunShape' /\ PagesKept' /\ DetailsBare' /\ DoneSoFar'
  BY <1>1, <1>3 DEF RunShape, PagesKept, DetailsBare, DoneSoFar, At, In, Loop
<1>10. ListKept'
  BY <1>1, <1>2, <1>3, <1>8 DEF BillsInv, PagesKept, ListKept, At, tables, history
<1>11. SponsorKept' /\ MarksStored'
  BY <1>1, <1>2, <1>3, <1>6 DEF BillsInv, SponsorKept, MarksStored, At, tables, history
<1> QED BY <1>7, <1>9, <1>10, <1>11 DEF BillsInv

\* The tail is written after the mark.
LEMMA ListTailBills == BillsInv /\ ListTail => BillsInv'
<1> SUFFICES ASSUME BillsInv, ListTail PROVE BillsInv'
  OBVIOUS
<1>1. run \in Runs /\ run.pc = "tail" /\ run.buf \subseteq Bills \X {"bare"} /\ TypeOK
  BY BillTypes DEF BillsInv, ListTail, RunShape, At
<1>2. /\ UNCHANGED <<listed, area, held, sponsor, deep, heard, marks, breaks, paged, torn, wanting, dried>>
      /\ Keep(Buffered) /\ run' = Following
  BY DEF ListTail, provider
<1>3. Buffered \subseteq Bills
  BY <1>1 DEF Buffered
<1>4. /\ row' \in [Bills -> Areas \cup {"absent", "bare"}] /\ dropped' \subseteq Bills
      /\ dropped \subseteq dropped'
      /\ \A b \in Bills : row[b] # "absent" => row'[b] = row[b]
      /\ \A b \in Bills : row'[b] \in Areas => row[b] = row'[b]
      /\ \A b \in Buffered : row'[b] # "absent" \/ b \in dropped'
  BY <1>1, <1>2, <1>3, BatchKept
<1>5. run' \in Runs /\ run'.pc \in {"down", "plan"} /\ run'.buf = {} /\ run'.named = {}
  BY <1>1, <1>2, FollowingRests
<1>6. TypeOK'
  BY <1>1, <1>2, <1>4, <1>5 DEF TypeOK, Runs, Answers
<1>7. ListKept'
  BY <1>1, <1>2, <1>4, BillTypes DEF BillsInv, ListKept, At
<1>8. SponsorKept'
  BY <1>1, <1>2, <1>4 DEF BillsInv, SponsorKept, At
<1>9. MarksStored'
  BY <1>1, <1>2, <1>4, BillTypes DEF BillsInv, MarksStored, Marks, Areas
<1> QED BY <1>5, <1>6, <1>7, <1>8, <1>9, RestKeeps

\* The other passes ask for what is not yet marked.
LEMMA PlanBills == BillsInv /\ Plan => BillsInv'
<1> SUFFICES ASSUME BillsInv, Plan PROVE BillsInv'
  OBVIOUS
<1>1. /\ run \in Runs /\ run.pc = "plan" /\ run.pass \in {"detail", "hearings", "deep"}
      /\ run.buf = {} /\ run.named = {} /\ TypeOK /\ marks \in Marks
  <2>1. /\ run \in Runs /\ run.pc = "plan" /\ ~In("list") /\ run.buf = {} /\ run.named = {}
        /\ TypeOK /\ marks \in Marks
    BY BillTypes DEF BillsInv, Plan, RunShape, At
  <2> QED BY <2>1 DEF Runs, Passes, In
<1>2. UNCHANGED <<provider, tables, marks, breaks, history>>
      /\ run' = [run EXCEPT !.pc = "fetch", !.todo = Targets(run.pass) \ marks[run.pass],
                            !.done = marks[run.pass]]
  BY DEF Plan
<1>3. /\ marks[run.pass] \subseteq UnitsOf(run.pass) /\ Targets(run.pass) \subseteq UnitsOf(run.pass)
      /\ run.pass = "detail" => \A b \in Targets(run.pass) : row[b] = "bare"
  <2>1. CASE run.pass = "detail"
    BY <1>1, <2>1 DEF Targets, UnitsOf, Marks
  <2>2. CASE run.pass = "hearings"
    BY <1>1, <2>2 DEF Targets, UnitsOf, Marks, TypeOK
  <2>3. CASE run.pass = "deep"
    BY <1>1, <2>3 DEF Targets, UnitsOf, Marks
  <2> QED BY <1>1, <2>1, <2>2, <2>3
<1>4. UnitsOf(run.pass) \subseteq Units
  BY DEF UnitsOf, Units
<1>5. /\ run'.pc = "fetch" /\ run'.pass = run.pass /\ run'.dry = run.dry /\ run'.buf = {}
      /\ run'.named = {} /\ run'.todo = Targets(run.pass) \ marks[run.pass] /\ run'.done = marks[run.pass]
  BY <1>1, <1>2 DEF Runs
<1>6. run' \in Runs
  BY <1>1, <1>2, <1>3, <1>4 DEF Runs
<1>7. TypeOK'
  BY <1>1, <1>2, <1>6 DEF TypeOK, provider, tables, history, Runs, Answers
<1>8. Buffered' = {}
  BY <1>5 DEF Buffered
<1>9. RunShape' /\ PagesKept'
  BY <1>1, <1>2, <1>3, <1>5, <1>8 DEF RunShape, PagesKept, At, In, Loop
<1>10. DetailsBare' /\ DoneSoFar'
  BY <1>1, <1>2, <1>3, <1>5, <1>8 DEF DetailsBare, DoneSoFar, At, In, Loop, tables
<1>11. ListKept' /\ SponsorKept' /\ MarksStored'
  BY <1>1, <1>2, <1>5 DEF BillsInv, ListKept, SponsorKept, MarksStored, At, tables, history
<1> QED BY <1>7, <1>9, <1>10, <1>11 DEF BillsInv

\* What a run at one of the steps of its pass holds.
LEMMA InTheLoop ==
  ASSUME BillsInv, run.pc \in Loop
  PROVE  /\ TypeOK /\ run \in Runs /\ marks \in Marks
         /\ run.pass \in {"detail", "hearings", "deep"}
         /\ run.todo \subseteq UnitsOf(run.pass) /\ run.done \subseteq UnitsOf(run.pass)
         /\ Buffered \subseteq UnitsOf(run.pass)
         /\ UnitsOf(run.pass) \subseteq Units
         /\ marks[run.pass] \subseteq UnitsOf(run.pass)
         /\ run.todo \cap (run.done \cup marks[run.pass]) = {}
<1>1. TypeOK /\ run \in Runs /\ marks \in Marks /\ ~In("list")
      /\ run.todo \subseteq UnitsOf(run.pass) /\ run.done \subseteq UnitsOf(run.pass)
      /\ Buffered \subseteq UnitsOf(run.pass)
      /\ run.todo \cap (run.done \cup marks[run.pass]) = {}
  BY BillTypes DEF BillsInv, RunShape
<1>2. run.pass \in {"detail", "hearings", "deep"}
  BY <1>1 DEF Runs, Passes, In
<1>3. CASE run.pass = "detail"
  BY <1>1, <1>2, <1>3 DEF UnitsOf, Units, Marks
<1>4. CASE run.pass = "hearings"
  BY <1>1, <1>2, <1>4 DEF UnitsOf, Units, Marks
<1>5. CASE run.pass = "deep"
  BY <1>1, <1>2, <1>5 DEF UnitsOf, Units, Marks
<1> QED BY <1>1, <1>2, <1>3, <1>4, <1>5

\* A unit's answer joins the batch, as far as it makes rows.
LEMMA FetchBills == ASSUME NEW u \in Units PROVE BillsInv /\ Fetch(u) => BillsInv'
<1> SUFFICES ASSUME BillsInv, Fetch(u) PROVE BillsInv'
  OBVIOUS
<1>1. /\ run.pc = "fetch" /\ u \in run.todo
      /\ UNCHANGED <<provider, tables, marks, breaks, paged, dropped, torn, dried>>
  BY DEF Fetch, At
<1>2. PICK rows \in Converted(u), named \in SUBSET (IF In("detail") THEN {u} ELSE {}) :
        /\ run' = [run EXCEPT !.todo = @ \ {u}, !.done = @ \cup {u},
                              !.buf = @ \cup rows, !.named = @ \cup named]
        /\ wanting' = IF run.dry \/ In("deep") THEN wanting
                     ELSE (wanting \ {u}) \cup {w \in {u} : (IF In("detail") THEN named ELSE rows) = {}}
  BY DEF Fetch
<1>3. /\ TypeOK /\ run \in Runs /\ marks \in Marks
      /\ run.pass \in {"detail", "hearings", "deep"}
      /\ run.todo \subseteq UnitsOf(run.pass) /\ run.done \subseteq UnitsOf(run.pass)
      /\ Buffered \subseteq UnitsOf(run.pass)
      /\ UnitsOf(run.pass) \subseteq Units
      /\ run.todo \cap (run.done \cup marks[run.pass]) = {}
  BY <1>1, InTheLoop DEF Loop
<1>4. Answer(u) \in Answers
  <2>1. CASE run.pass = "detail"
    BY <1>1, <1>3, <2>1 DEF Answer, In, UnitsOf, Answers, TypeOK
  <2>2. CASE run.pass # "detail"
    BY <1>3, <2>2 DEF Answer, In, Answers
  <2> QED BY <2>1, <2>2
<1>5. /\ rows \in {{}, {<<u, Answer(u)>>}}
      /\ In("deep") => (rows # {} <=> Asked(u))
  BY DEF Converted
<1>6. /\ named \subseteq {u} /\ named \subseteq Bills
      /\ ~In("detail") => named = {}
  BY <1>1, <1>3 DEF In, UnitsOf
<1>7. /\ run'.pc = "fetch" /\ run'.pass = run.pass /\ run'.dry = run.dry
      /\ run'.todo = run.todo \ {u} /\ run'.done = run.done \cup {u}
      /\ run'.buf = run.buf \cup rows /\ run'.named = run.named \cup named
  BY <1>1, <1>2, <1>3 DEF Runs
<1>8. run' \in Runs
  <2>1. rows \subseteq Units \X Answers
    BY <1>4, <1>5
  <2> QED BY <1>1, <1>2, <1>3, <1>6, <2>1 DEF Runs
<1>9. /\ wanting' \subseteq Units
      /\ \A w : w # u => (w \in wanting' <=> w \in wanting)
      /\ run.dry \/ In("deep") => wanting' = wanting
      /\ ~run.dry /\ In("detail") => u \in wanting' \cup named
      /\ ~run.dry /\ In("hearings") => u \in wanting' \/ rows # {}
  <2>1. wanting \subseteq Units
    BY <1>3, BillTypes
  <2>2. CASE run.dry \/ In("deep")
    BY <1>2, <2>1, <2>2 DEF In
  <2>3. CASE ~run.dry /\ In("detail")
    <3>1. wanting' = (wanting \ {u}) \cup {w \in {u} : named = {}}
      BY <1>2, <2>3 DEF In
    <3> QED BY <1>6, <2>1, <2>3, <3>1 DEF In
  <2>4. CASE ~run.dry /\ In("hearings")
    <3>1. wanting' = (wanting \ {u}) \cup {w \in {u} : rows = {}}
      BY <1>2, <2>4 DEF In
    <3> QED BY <2>1, <2>4, <3>1 DEF In
  <2> QED BY <1>3, <2>2, <2>3, <2>4 DEF In
<1>10. TypeOK'
  BY <1>1, <1>3, <1>8, <1>9 DEF TypeOK, provider, tables, Runs, Answers
<1>11. Buffered' = IF rows = {} THEN Buffered ELSE Buffered \cup {u}
  <2>1. {r[1] : r \in run.buf \cup {<<u, Answer(u)>>}} = {r[1] : r \in run.buf} \cup {u}
    BY OneMore
  <2>2. CASE rows = {}
    BY <1>7, <2>2 DEF Buffered
  <2>3. CASE rows = {<<u, Answer(u)>>}
    BY <1>7, <2>1, <2>3 DEF Buffered
  <2> QED BY <1>5, <2>2, <2>3
<1>12. RunShape' /\ PagesKept'
  BY <1>1, <1>3, <1>7, <1>11 DEF RunShape, PagesKept, At, In, Loop
<1>13. DetailsBare'
  <2> SUFFICES ASSUME In("detail")
               PROVE  /\ \A b \in run'.todo : row[b] = "bare" /\ b \notin Buffered'
                      /\ \A b \in Buffered' \cup run'.named : row[b] # "absent"
                      /\ \A b \in Buffered' : row[b] = "bare"
                      /\ ~run.dry => Buffered' \subseteq run'.named \cup wanting'
    BY <1>1, <1>7 DEF DetailsBare, In, tables
  <2>1. /\ \A b \in run.todo : row[b] = "bare" /\ b \notin Buffered
        /\ \A b \in Buffered \cup run.named : row[b] # "absent"
        /\ \A b \in Buffered : row[b] = "bare"
        /\ ~run.dry => Buffered \subseteq run.named \cup wanting
    BY <1>1 DEF BillsInv, DetailsBare, Loop
  <2>2. ~run.dry => Buffered' \subseteq run'.named \cup wanting'
    BY <1>1, <1>7, <1>9, <1>11, <2>1
  <2> QED BY <1>1, <1>6, <1>7, <1>11, <2>1, <2>2
<1>14. DoneSoFar'
  <2> SUFFICES ASSUME ~run.dry, NEW w \in run.done \cup {u}
               PROVE  w \in marks[run.pass] \/ IsStored(run.pass, w)' \/ w \in Unwritten'
    BY <1>1, <1>7 DEF DoneSoFar, At
  <2>1. CASE w \in run.done
    <3>1. w # u
      BY <1>1, <1>3, <2>1
    <3>2. w \in marks[run.pass] \/ IsStored(run.pass, w) \/ w \in Unwritten
      BY <1>1, <2>1 DEF BillsInv, DoneSoFar, At, Loop
    <3>3. w \in Unwritten => w \in Unwritten'
      BY <1>7, <1>11 DEF Unwritten, In
    <3>4. IsStored(run.pass, w) => IsStored(run.pass, w)'
      BY <1>1, <1>7, <1>9, <3>1 DEF IsStored, tables
    <3> QED BY <3>2, <3>3, <3>4
  <2>2. CASE w = u /\ In("detail")
    <3>1. u \in wanting' \cup named /\ row'[u] # "absent"
      BY <1>1, <1>9, <2>2 DEF BillsInv, DetailsBare, Loop, tables
    <3> QED BY <1>7, <2>2, <3>1 DEF IsStored, Unwritten, In
  <2>3. CASE w = u /\ In("hearings")
    BY <1>7, <1>9, <1>11, <2>3 DEF IsStored, Unwritten, In
  <2>4. CASE w = u /\ In("deep") /\ ~Asked(u)
    BY <1>1, <1>7, <2>4 DEF Asked, IsStored, In, tables
  <2>5. CASE w = u /\ In("deep") /\ Asked(u)
    BY <1>5, <1>7, <1>11, <2>5 DEF Unwritten, In
  <2> QED BY <1>3, <2>1, <2>2, <2>3, <2>4, <2>5 DEF In
<1>15. ListKept'
  BY <1>1, <1>7 DEF BillsInv, ListKept, At, tables
<1>16. \A b \in Bills : row[b] # "bare" \/ b \in marks.detail => (b \in wanting => b \in wanting')
  <2>1. CASE run.pass = "detail"
    BY <1>1, <1>3, <1>9, <2>1 DEF BillsInv, DetailsBare, In, Loop
  <2>2. CASE run.pass = "hearings"
    <3>1. u \notin Bills
      BY <1>1, <1>3, <2>2, PassesAssumption DEF UnitsOf
    <3> QED BY <1>9, <3>1
  <2>3. CASE run.pass = "deep"
    BY <1>9, <2>3 DEF In
  <2> QED BY <1>3, <2>1, <2>2, <2>3
<1>17. SponsorKept'
  <2>1. \A b \in Bills : row[b] \in Areas => b \in sponsor \cup wanting \cup torn
    BY <1>1 DEF BillsInv, SponsorKept, At
  <2> QED BY <1>1, <1>16, <2>1 DEF SponsorKept, Areas, tables
<1>18. \A h \in marks.hearings : h \in wanting => h \in wanting'
  <2>1. CASE run.pass = "hearings"
    BY <1>1, <1>3, <1>9, <2>1
  <2>2. CASE run.pass # "hearings"
    <3>1. u \in Bills /\ marks.hearings \subseteq Hearings
      BY <1>1, <1>3, <2>2 DEF UnitsOf, Marks
    <3> QED BY <1>9, <3>1, PassesAssumption
  <2> QED BY <2>1, <2>2
<1>19. MarksStored'
  <2>1. marks.detail \subseteq Bills
    BY <1>3 DEF Marks
  <2> QED BY <1>1, <1>16, <1>18, <2>1 DEF BillsInv, MarksStored, tables
<1> QED BY <1>10, <1>12, <1>13, <1>14, <1>15, <1>17, <1>19 DEF BillsInv

\* A step that only lets a unit go, or comes to the write.
LEMMA MovesBills ==
  BillsInv /\ (WriteDue \/ (\E u \in Units : FetchFails(u)) \/ \E h \in Hearings : PassOver(h)) => BillsInv'
<1> SUFFICES ASSUME BillsInv,
                    WriteDue \/ (\E u \in Units : FetchFails(u)) \/ \E h \in Hearings : PassOver(h)
             PROVE  BillsInv'
  OBVIOUS
<1>1. run.pc = "fetch" /\ UNCHANGED <<provider, tables, marks, paged, dropped, torn, dried>>
  BY DEF WriteDue, FetchFails, PassOver, At, history
<1>2. /\ TypeOK /\ run \in Runs /\ marks \in Marks
      /\ run.pass \in {"detail", "hearings", "deep"}
      /\ run.todo \subseteq UnitsOf(run.pass) /\ run.done \subseteq UnitsOf(run.pass)
      /\ Buffered \subseteq UnitsOf(run.pass)
      /\ UnitsOf(run.pass) \subseteq Units
      /\ run.todo \cap (run.done \cup marks[run.pass]) = {}
  BY <1>1, InTheLoop DEF Loop
<1>3. /\ run' \in Runs /\ run'.pc \in {"fetch", "write"} /\ run'.pass = run.pass
      /\ run'.dry = run.dry /\ run'.todo \subseteq run.todo /\ run'.buf = run.buf
      /\ run'.named = run.named /\ run'.done = run.done /\ breaks' \in 0 .. MaxBreaks
      /\ wanting \subseteq wanting' /\ wanting' \subseteq Units
  <2>1. wanting \subseteq Units /\ breaks \in 0 .. MaxBreaks
    BY <1>2, BillTypes
  <2>2. CASE WriteDue
    BY <1>2, <2>1, <2>2 DEF WriteDue, Runs, history
  <2>3. CASE \E u \in Units : FetchFails(u)
    <3>1. PICK u \in Units : FetchFails(u)
      BY <2>3
    <3>2. breaks < MaxBreaks /\ breaks' = breaks + 1 /\ MaxBreaks \in Nat
      BY <3>1, PassesAssumption DEF FetchFails
    <3> QED BY <1>1, <1>2, <2>1, <3>1, <3>2 DEF FetchFails, Runs, history
  <2>4. CASE \E h \in Hearings : PassOver(h)
    <3>1. PICK h \in Hearings : PassOver(h)
      BY <2>4
    <3>2. run' = [run EXCEPT !.todo = @ \ {h}] /\ breaks' = breaks
          /\ wanting \subseteq wanting' /\ wanting' \subseteq Units
      BY <2>1, <3>1 DEF PassOver, Units
    <3> QED BY <1>1, <1>2, <2>1, <3>2 DEF Runs
  <2> QED BY <2>2, <2>3, <2>4
<1>4. TypeOK'
  BY <1>1, <1>2, <1>3 DEF TypeOK, provider, tables, Runs, Answers
<1>5. Buffered' = Buffered
  BY <1>3 DEF Buffered
<1>6. RunShape' /\ PagesKept'
  BY <1>1, <1>2, <1>3, <1>5 DEF RunShape, PagesKept, At, In, Loop
<1>7. DetailsBare'
  <2>1. In("detail") =>
          /\ \A b \in run.todo : row[b] = "bare" /\ b \notin Buffered
          /\ \A b \in Buffered \cup run.named : row[b] # "absent"
          /\ \A b \in Buffered : row[b] = "bare"
          /\ ~run.dry => Buffered \subseteq run.named \cup wanting
    BY <1>1 DEF BillsInv, DetailsBare, Loop
  <2>2. In("detail")' => In("detail")
    BY <1>3 DEF In
  <2> QED BY <1>1, <1>3, <1>5, <2>1, <2>2 DEF DetailsBare, tables
<1>8. DoneSoFar'
  <2> SUFFICES ASSUME ~run.dry, NEW w \in run.done
               PROVE  w \in marks[run.pass] \/ IsStored(run.pass, w)' \/ w \in Unwritten'
    BY <1>1, <1>3 DEF DoneSoFar, At
  <2>1. w \in marks[run.pass] \/ IsStored(run.pass, w) \/ w \in Unwritten
    BY <1>1 DEF BillsInv, DoneSoFar, At, Loop
  <2>2. Unwritten' = Unwritten
    BY <1>3, <1>5 DEF Unwritten, In
  <2>3. IsStored(run.pass, w) => IsStored(run.pass, w)'
    BY <1>1, <1>3 DEF IsStored, tables
  <2> QED BY <2>1, <2>2, <2>3
<1>9. ListKept' /\ SponsorKept' /\ MarksStored'
  BY <1>1, <1>3 DEF BillsInv, ListKept, SponsorKept, MarksStored, At, tables
<1> QED BY <1>4, <1>6, <1>7, <1>8, <1>9 DEF BillsInv

\* The batch is written.
LEMMA WriteBills == BillsInv /\ Write => BillsInv'
<1> SUFFICES ASSUME BillsInv, Write PROVE BillsInv'
  OBVIOUS
<1>1. /\ run.pc = "write" /\ UNCHANGED <<provider, sponsor, marks, breaks, history>>
      /\ run' = [run EXCEPT !.pc = IF In("detail") THEN "sponsors" ELSE "save"]
  BY DEF Write, At, tables
<1>2. /\ TypeOK /\ run \in Runs /\ marks \in Marks
      /\ run.pass \in {"detail", "hearings", "deep"}
      /\ run.todo \subseteq UnitsOf(run.pass) /\ run.done \subseteq UnitsOf(run.pass)
      /\ Buffered \subseteq UnitsOf(run.pass)
      /\ UnitsOf(run.pass) \subseteq Units
      /\ run.todo \cap (run.done \cup marks[run.pass]) = {}
  BY <1>1, InTheLoop DEF Loop
<1>3. /\ run' \in Runs /\ run'.pc = (IF In("detail") THEN "sponsors" ELSE "save")
      /\ run'.pass = run.pass /\ run'.dry = run.dry /\ run'.todo = run.todo
      /\ run'.buf = run.buf /\ run'.named = run.named /\ run'.done = run.done
  BY <1>1, <1>2 DEF Runs
<1>4. Buffered' = Buffered /\ Enriched' = Enriched /\ Enriched \subseteq Buffered
  BY <1>3 DEF Buffered, Enriched
<1>5. \A b \in Enriched : (CHOOSE a \in Areas : <<b, a>> \in run.buf) \in Areas
  <2> SUFFICES ASSUME NEW b \in Enriched PROVE \E a \in Areas : <<b, a>> \in run.buf
    OBVIOUS
  <2>1. PICK q \in run.buf : q[2] \in Areas /\ b = q[1]
    BY DEF Enriched
  <2>2. q = <<q[1], q[2]>>
    BY <1>2, <2>1 DEF Runs
  <2> QED BY <2>1, <2>2
<1>6. /\ row' \in [Bills -> Areas \cup {"absent", "bare"}]
      /\ deep \subseteq deep' /\ deep' \subseteq Bills
      /\ heard \subseteq heard' /\ heard' \subseteq Hearings
      /\ \A b \in Bills : \/ row'[b] = row[b]
                          \/ ~run.dry /\ In("detail") /\ b \in Enriched /\ row'[b] \in Areas
      /\ ~run.dry /\ In("deep") => Buffered \subseteq deep'
      /\ ~run.dry /\ In("hearings") => Buffered \subseteq heard'
  <2>1. CASE run.dry
    BY <1>2, <2>1, BillTypes DEF Write, tables
  <2>2. CASE ~run.dry /\ run.pass = "detail"
    <3>1. /\ row' = [b \in Bills |-> IF b \in Enriched
                                     THEN CHOOSE a \in Areas : <<b, a>> \in run.buf ELSE row[b]]
          /\ deep' = deep /\ heard' = heard
      BY <2>2 DEF Write, In
    <3>2. row \in [Bills -> Areas \cup {"absent", "bare"}] /\ deep \subseteq Bills /\ heard \subseteq Hearings
      BY <1>2, BillTypes
    <3> QED BY <1>5, <2>2, <3>1, <3>2 DEF In
  <2>3. CASE ~run.dry /\ run.pass # "detail"
    BY <1>2, <2>3, BillTypes DEF Write, In, UnitsOf
  <2> QED BY <2>1, <2>2, <2>3
<1>7. TypeOK'
  BY <1>1, <1>2, <1>3, <1>6 DEF TypeOK, provider, history, Runs, Answers
<1>8. RunShape' /\ PagesKept'
  BY <1>1, <1>2, <1>3, <1>4 DEF RunShape, PagesKept, At, In, Loop
<1>9. \A b \in Bills : row[b] # "absent" => row'[b] # "absent"
  BY <1>6 DEF Areas
<1>10. DetailsBare'
  <2> SUFFICES ASSUME In("detail")
               PROVE  /\ \A b \in run.todo : row'[b] = "bare" /\ b \notin Buffered
                      /\ \A b \in Buffered \cup run.named : row'[b] # "absent"
                      /\ \A b \in Buffered : run.dry => row'[b] = "bare"
                      /\ ~run.dry => Buffered \subseteq run.named \cup wanting
    BY <1>1, <1>3, <1>4 DEF DetailsBare, In, history
  <2>1. UnitsOf(run.pass) = Bills
    BY DEF In, UnitsOf
  <2>2. /\ \A b \in run.todo : row[b] = "bare" /\ b \notin Buffered
        /\ \A b \in Buffered \cup run.named : row[b] # "absent"
        /\ \A b \in Buffered : row[b] = "bare"
        /\ ~run.dry => Buffered \subseteq run.named \cup wanting
    BY <1>1 DEF BillsInv, DetailsBare, Loop
  <2>3. run.named \subseteq Bills
    BY <1>2 DEF Runs
  <2> QED BY <1>2, <1>4, <1>6, <1>9, <2>1, <2>2, <2>3
<1>11. DoneSoFar'
  <2> SUFFICES ASSUME ~run.dry, NEW w \in run.done
               PROVE  \/ w \in marks[run.pass] \/ IsStored(run.pass, w)'
                      \/ run'.pc # "save" /\ w \in Unwritten'
    BY <1>1, <1>3 DEF DoneSoFar, At
  <2>1. w \in marks[run.pass] \/ IsStored(run.pass, w) \/ w \in Unwritten
    BY <1>1 DEF BillsInv, DoneSoFar, At, Loop
  <2>2. wanting' = wanting /\ Unwritten' = Unwritten
    BY <1>1, <1>3, <1>4 DEF history, Unwritten, In
  <2>3. CASE run.pass = "detail"
    BY <1>1, <1>2, <1>3, <1>9, <2>1, <2>2, <2>3 DEF IsStored, In, UnitsOf
  <2>4. CASE run.pass = "hearings"
    BY <1>2, <1>3, <1>6, <2>1, <2>2, <2>4 DEF IsStored, In, Unwritten
  <2>5. CASE run.pass = "deep"
    BY <1>2, <1>3, <1>6, <2>1, <2>2, <2>5 DEF IsStored, In, UnitsOf, Unwritten
  <2> QED BY <1>2, <2>3, <2>4, <2>5
<1>12. ListKept'
  BY <1>1, <1>2, <1>6, <1>9, BillTypes DEF BillsInv, ListKept, At, history
<1>13. SponsorKept'
  <2>1. \A b \in Bills : row[b] \in Areas => b \in sponsor \cup wanting \cup torn
    BY <1>1 DEF BillsInv, SponsorKept, At
  <2>2. ~run.dry /\ In("detail") => Enriched \subseteq run.named \cup wanting
    BY <1>1, <1>4 DEF BillsInv, DetailsBare, Loop
  <2> QED BY <1>1, <1>2, <1>3, <1>4, <1>6, <2>1, <2>2 DEF SponsorKept, At, In, history
<1>14. MarksStored'
  <2>1. \A b \in Bills : row[b] = "other" => row'[b] = "other"
    BY <1>1, <1>2, <1>4, <1>6 DEF BillsInv, DetailsBare, Loop
  <2>2. sponsor \subseteq Bills /\ sponsor' = sponsor /\ marks' = marks /\ dried' = dried
        /\ wanting' = wanting /\ marks.detail \subseteq Bills
    BY <1>1, <1>2, BillTypes DEF history, Marks
  <2> QED BY <1>6, <1>9, <2>1, <2>2 DEF BillsInv, MarksStored
<1> QED BY <1>7, <1>8, <1>10, <1>11, <1>12, <1>13, <1>14 DEF BillsInv

\* ... and then the sponsors of its bills.
LEMMA WriteSponsorsBills == BillsInv /\ WriteSponsors => BillsInv'
<1> SUFFICES ASSUME BillsInv, WriteSponsors PROVE BillsInv'
  OBVIOUS
<1>1. /\ run.pc = "sponsors" /\ run.pass = "detail"
      /\ UNCHANGED <<provider, row, deep, heard, marks, breaks, history>>
      /\ run' = [run EXCEPT !.pc = "save"]
      /\ sponsor' = IF run.dry THEN sponsor ELSE sponsor \cup run.named
  BY DEF WriteSponsors, BillsInv, RunShape, At, In
<1>2. /\ TypeOK /\ run \in Runs /\ marks \in Marks
      /\ run.todo \subseteq UnitsOf(run.pass) /\ run.done \subseteq UnitsOf(run.pass)
      /\ Buffered \subseteq UnitsOf(run.pass) /\ UnitsOf(run.pass) = Bills
      /\ run.todo \cap (run.done \cup marks[run.pass]) = {}
  BY <1>1, InTheLoop DEF Loop, UnitsOf
<1>3. /\ run' \in Runs /\ run'.pc = "save" /\ run'.pass = "detail" /\ run'.dry = run.dry
      /\ run'.todo = run.todo /\ run'.buf = run.buf /\ run'.named = run.named
      /\ run'.done = run.done /\ run.named \subseteq Bills
  BY <1>1, <1>2 DEF Runs
<1>4. Buffered' = Buffered /\ Enriched \subseteq Buffered
  BY <1>3 DEF Buffered, Enriched
<1>5. sponsor \subseteq sponsor' /\ sponsor' \subseteq Bills
  BY <1>1, <1>2, <1>3, BillTypes
<1>6. TypeOK'
  BY <1>1, <1>2, <1>3, <1>5 DEF TypeOK, provider, history, Runs, Answers
<1>7. RunShape' /\ PagesKept'
  BY <1>1, <1>2, <1>3, <1>4 DEF RunShape, PagesKept, At, In, Loop, UnitsOf
<1>8. DetailsBare'
  BY <1>1, <1>3, <1>4 DEF BillsInv, DetailsBare, In, Loop, history
<1>9. DoneSoFar'
  <2> SUFFICES ASSUME ~run.dry, NEW w \in run.done
               PROVE  w \in marks.detail \/ (w \in sponsor' \cup wanting /\ row[w] # "absent")
    BY <1>1, <1>3 DEF DoneSoFar, IsStored, history
  <2>1. w \in marks[run.pass] \/ IsStored(run.pass, w) \/ w \in run.named
    BY <1>1 DEF BillsInv, DoneSoFar, At, Loop, Unwritten, In
  <2>2. \A b \in run.named : row[b] # "absent"
    BY <1>1 DEF BillsInv, DetailsBare, In, Loop
  <2> QED BY <1>1, <1>5, <2>1, <2>2 DEF IsStored
<1>10. ListKept'
  BY <1>1, <1>3 DEF BillsInv, ListKept, At, history
<1>11. SponsorKept'
  <2>1. run.dry => \A b \in Bills : b \in Enriched => row[b] = "bare"
    BY <1>1, <1>4 DEF BillsInv, DetailsBare, In, Loop
  <2>2. \A b \in Bills : row[b] \in Areas =>
          b \in sponsor \cup wanting \cup torn \/ b \in Enriched \cap run.named
    BY DEF BillsInv, SponsorKept
  <2> QED BY <1>1, <1>4, <2>1, <2>2 DEF SponsorKept, history, Areas
<1>12. MarksStored'
  BY <1>1, <1>5 DEF BillsInv, MarksStored, history
<1> QED BY <1>6, <1>7, <1>8, <1>9, <1>10, <1>11, <1>12 DEF BillsInv

\* The state file is written after the batch.
LEMMA SaveBills == BillsInv /\ Save => BillsInv'
<1> SUFFICES ASSUME BillsInv, Save PROVE BillsInv'
  OBVIOUS
<1>1. /\ run.pc = "save" /\ UNCHANGED <<provider, tables, breaks, paged, dropped, torn, wanting>>
      /\ marks' = [marks EXCEPT ![run.pass] = run.done]
      /\ run' = IF run.todo = {} THEN Following
                ELSE [run EXCEPT !.pc = "fetch", !.buf = {}, !.named = {}]
      /\ dried' = IF run.dry THEN dried \cup (run.done \ marks[run.pass]) ELSE dried
  BY DEF Save, At
<1>2. /\ TypeOK /\ run \in Runs /\ marks \in Marks
      /\ run.pass \in {"detail", "hearings", "deep"}
      /\ run.todo \subseteq UnitsOf(run.pass) /\ run.done \subseteq UnitsOf(run.pass)
      /\ Buffered \subseteq UnitsOf(run.pass)
      /\ UnitsOf(run.pass) \subseteq Units
      /\ run.todo \cap (run.done \cup marks[run.pass]) = {}
  BY <1>1, InTheLoop DEF Loop
<1>3. /\ marks' \in Marks /\ marks'.list = marks.list /\ marks'[run.pass] = run.done
      /\ \A pass \in {"detail", "hearings", "deep"} \ {run.pass} : marks'[pass] = marks[pass]
  <2>1. CASE run.pass = "detail"
    BY <1>1, <1>2, <2>1 DEF Marks, UnitsOf
  <2>2. CASE run.pass = "hearings"
    BY <1>1, <1>2, <2>2 DEF Marks, UnitsOf
  <2>3. CASE run.pass = "deep"
    BY <1>1, <1>2, <2>3 DEF Marks, UnitsOf
  <2> QED BY <1>2, <2>1, <2>2, <2>3
<1>4. dried \subseteq dried' /\ dried' \subseteq Units
  BY <1>1, <1>2, BillTypes
<1>5. ASSUME NEW w \in run.done, w \notin dried'
      PROVE  w \in marks[run.pass] \/ IsStored(run.pass, w)
  <2>1. CASE run.dry
    BY <1>1, <1>5, <2>1
  <2>2. CASE ~run.dry
    BY <1>1, <2>2 DEF BillsInv, DoneSoFar, At, Loop
  <2> QED BY <2>1, <2>2
<1>6. MarksStored'
  <2>1. ASSUME NEW w \in marks'.detail, w \notin dried' PROVE w \in sponsor \cup wanting /\ row[w] # "absent"
    <3>1. w \in marks.detail => w \in sponsor \cup wanting /\ row[w] # "absent"
      BY <1>4, <2>1 DEF BillsInv, MarksStored
    <3> QED BY <1>2, <1>3, <1>5, <2>1, <3>1 DEF IsStored
  <2>2. ASSUME NEW w \in marks'.hearings, w \notin dried' PROVE w \in heard \cup wanting
    <3>1. w \in marks.hearings => w \in heard \cup wanting
      BY <1>4, <2>2 DEF BillsInv, MarksStored
    <3> QED BY <1>2, <1>3, <1>5, <2>2, <3>1 DEF IsStored
  <2>3. ASSUME NEW w \in marks'.deep, w \notin dried' PROVE row[w] = "other" \/ w \in deep
    <3>1. w \in marks.deep => row[w] = "other" \/ w \in deep
      BY <1>4, <2>3 DEF BillsInv, MarksStored
    <3> QED BY <1>2, <1>3, <1>5, <2>3, <3>1 DEF IsStored
  <2>4. marks'.deep \subseteq Bills
    BY <1>3 DEF Marks
  <2> QED BY <1>1, <2>1, <2>2, <2>3, <2>4 DEF MarksStored, tables
<1>7. CASE run.todo = {}
  <2>1. run' \in Runs /\ run'.pc \in {"down", "plan"} /\ run'.buf = {} /\ run'.named = {}
    BY <1>1, <1>2, <1>7, FollowingRests
  <2>2. TypeOK'
    BY <1>1, <1>2, <1>3, <1>4, <2>1 DEF TypeOK, provider, tables, Runs, Marks, Answers
  <2>3. ListKept' /\ SponsorKept'
    BY <1>1, <1>3 DEF BillsInv, ListKept, SponsorKept, At, tables
  <2> QED BY <1>6, <2>1, <2>2, <2>3, RestKeeps
<1>8. CASE run.todo # {}
  <2>1. /\ run' \in Runs /\ run'.pc = "fetch" /\ run'.pass = run.pass /\ run'.dry = run.dry
        /\ run'.todo = run.todo /\ run'.buf = {} /\ run'.named = {} /\ run'.done = run.done
    BY <1>1, <1>2, <1>8 DEF Runs
  <2>2. Buffered' = {}
    BY <2>1 DEF Buffered
  <2>3. TypeOK'
    BY <1>1, <1>2, <1>3, <1>4, <2>1 DEF TypeOK, provider, tables, Runs, Marks, Answers
  <2>4. RunShape' /\ PagesKept'
    BY <1>1, <1>2, <1>3, <2>1, <2>2 DEF RunShape, PagesKept, At, In, Loop
  <2>5. DetailsBare' /\ DoneSoFar'
    BY <1>1, <1>3, <2>1, <2>2 DEF BillsInv, DetailsBare, DoneSoFar, At, In, Loop, tables
  <2>6. ListKept' /\ SponsorKept'
    BY <1>1, <1>3, <2>1 DEF BillsInv, ListKept, SponsorKept, At, tables
  <2> QED BY <1>6, <2>3, <2>4, <2>5, <2>6 DEF BillsInv
<1> QED BY <1>7, <1>8

\* The process dies with its batch.
LEMMA BreakBills == BillsInv /\ Break => BillsInv'
<1> SUFFICES ASSUME BillsInv, Break PROVE BillsInv'
  OBVIOUS
<1>1. /\ UNCHANGED <<provider, tables, marks, paged, wanting, dried>> /\ run' = Down
      /\ dropped' = (IF At("tail") THEN dropped \cup Buffered ELSE dropped)
      /\ torn' = (IF At("sponsors") /\ ~run.dry THEN torn \cup (Enriched \cap run.named) ELSE torn)
      /\ breaks' \in 0 .. MaxBreaks
  <2>1. breaks \in 0 .. MaxBreaks /\ breaks < MaxBreaks /\ breaks' = breaks + 1 /\ MaxBreaks \in Nat
    BY BillTypes, PassesAssumption DEF Break, BillsInv
  <2> QED BY <2>1 DEF Break
<1>2. Down \in Runs /\ Down.pc = "down" /\ Down.buf = {} /\ Down.named = {}
  BY DEF Down, Runs, Passes
<1>3. dropped' \subseteq Bills
  <2>1. At("tail") => Buffered \subseteq Bills
    BY DEF BillsInv, RunShape, Buffered
  <2> QED BY <1>1, <2>1, BillTypes DEF BillsInv
<1>4. torn' \subseteq Bills
  <2>1. At("sponsors") => Enriched \subseteq Bills
    <3> HAVE At("sponsors")
    <3>1. run.pass = "detail" /\ Buffered \subseteq UnitsOf(run.pass)
      BY InTheLoop DEF BillsInv, RunShape, At, In, Loop
    <3> QED BY <3>1 DEF Enriched, Buffered, UnitsOf
  <2> QED BY <1>1, <2>1, BillTypes DEF BillsInv
<1>5. TypeOK'
  BY <1>1, <1>2, <1>3, <1>4 DEF BillsInv, TypeOK, provider, tables, Runs, Answers
<1>6. ListKept'
  BY <1>1 DEF BillsInv, ListKept, tables
<1>7. SponsorKept'
  <2>1. At("sponsors") /\ run.dry => \A b \in Bills : b \in Enriched => row[b] = "bare"
    BY DEF BillsInv, RunShape, DetailsBare, At, Loop, Enriched, Buffered
  <2>2. \A b \in Bills : row[b] \in Areas =>
          b \in sponsor \cup wanting \cup torn \/ (At("sponsors") /\ b \in Enriched \cap run.named)
    BY DEF BillsInv, SponsorKept
  <2>3. \A b \in Bills : row[b] \in Areas => b \in sponsor \cup wanting \cup torn'
    BY <1>1, <2>1, <2>2 DEF Areas
  <2> QED BY <1>1, <2>3 DEF SponsorKept, tables
<1>8. MarksStored'
  BY <1>1 DEF BillsInv, MarksStored, tables
<1> QED BY <1>1, <1>2, <1>5, <1>6, <1>7, <1>8, RestKeeps

\* The provider's side moves nothing that was stored.
LEMMA ProviderBills ==
  BillsInv /\ ((\E b \in Bills : Introduce(b) \/ AssignArea(b)) \/ \E h \in Hearings : Hold(h)) => BillsInv'
<1> SUFFICES ASSUME BillsInv,
                    (\E b \in Bills : Introduce(b) \/ AssignArea(b)) \/ \E h \in Hearings : Hold(h)
             PROVE  BillsInv'
  OBVIOUS
<1>1. UNCHANGED <<tables, marks, run, breaks, history>>
  BY DEF Introduce, AssignArea, Hold
<1>2. listed' \subseteq Bills /\ held' \subseteq Hearings /\ area' \in [Bills -> Areas \cup {"none"}]
  BY BillTypes DEF BillsInv, Introduce, AssignArea, Hold
<1>3. TypeOK'
  BY <1>1, <1>2 DEF BillsInv, TypeOK, tables, history
<1>4. Buffered' = Buffered /\ Enriched' = Enriched
  BY <1>1 DEF Buffered, Enriched
<1>5. RunShape' /\ PagesKept' /\ DetailsBare'
  BY <1>1, <1>4 DEF BillsInv, RunShape, PagesKept, DetailsBare, At, In, tables, history
<1>6. DoneSoFar' /\ MarksStored'
  BY <1>1, <1>4 DEF BillsInv, DoneSoFar, IsStored, Unwritten, MarksStored, At, In, tables, history
<1>7. ListKept' /\ SponsorKept'
  BY <1>1, <1>4 DEF BillsInv, ListKept, SponsorKept, At, tables, history
<1> QED BY <1>3, <1>5, <1>6, <1>7 DEF BillsInv

\* Every step of the passes keeps the invariant.
LEMMA BillsStep == BillsInv /\ [Next]_vars => BillsInv'
<1> SUFFICES ASSUME BillsInv, [Next]_vars PROVE BillsInv'
  OBVIOUS
<1>1. CASE Start
  BY <1>1, StartBills
<1>2. CASE Proceed
  BY <1>2, PlanListBills, ListBatchBills, ListEndBills, ListTailBills, PlanBills, FetchBills,
     MovesBills, WriteBills, WriteSponsorsBills, SaveBills DEF Proceed
<1>3. CASE Break
  BY <1>3, BreakBills
<1>4. CASE (\E u \in Units : FetchFails(u)) \/ \E h \in Hearings : PassOver(h)
  BY <1>4, MovesBills
<1>5. CASE (\E b \in Bills : Introduce(b) \/ AssignArea(b)) \/ \E h \in Hearings : Hold(h)
  BY <1>5, ProviderBills
<1>6. CASE UNCHANGED vars
  <2>1. UNCHANGED <<provider, tables, marks, run, breaks, history>>
    BY <1>6 DEF vars
  <2>2. Buffered' = Buffered /\ Enriched' = Enriched
    BY <2>1 DEF Buffered, Enriched
  <2>3. TypeOK' /\ RunShape' /\ PagesKept' /\ DetailsBare'
    BY <2>1, <2>2 DEF BillsInv, TypeOK, RunShape, PagesKept, DetailsBare, At, In, provider, tables, history
  <2>4. DoneSoFar' /\ MarksStored' /\ ListKept' /\ SponsorKept'
    BY <2>1, <2>2 DEF BillsInv, DoneSoFar, IsStored, Unwritten, MarksStored, ListKept, SponsorKept, At, In, tables, history
  <2> QED BY <2>3, <2>4 DEF BillsInv
<1> QED BY <1>1, <1>2, <1>3, <1>4, <1>5, <1>6 DEF Next

-----------------------------------------------------------------------------
(* The FEC stages. *)

FecSteps == {"rows", "committees", "stubs", "donations"}

\* The fields of the process: the units of its stage, and rows the FEC has.
JobShape ==
  /\ job.todo \subseteq Fec!Units(job.stage) /\ job.done \subseteq Fec!Units(job.stage)
  /\ job.unit # None => job.unit \in Fec!Units(job.stage) /\ job.pc \in FecSteps
  /\ job.buf \subseteq filed /\ job.unread \subseteq filed
  /\ \A d \in job.unread : Fec!Unit(d) = job.unit
  /\ job.unread # {} => job.unit # None
  /\ job.pc = "rows" => job.unit # None
  /\ job.pc \in {"candidates", "sweep", "store"} => job.stage = "candidates"
  /\ job.pc \in {"units", "save"} \cup FecSteps => job.stage # "candidates"
  /\ job.pc \in {"down", "plan", "candidates", "sweep", "store"} => job.buf = {}
  /\ job.pc = "save" /\ ~job.dry => job.buf = {}
  /\ job.pc \in {"committees", "stubs", "donations"} => ~job.dry
  /\ job.pc \in {"down", "plan"} => job.rich = {}

\* The order of the three writes: when the dictionaries are emptied, no recipient that came
\* with its object is without its row.
ParentsWritten ==
  job.pc = "stubs" => \A d \in job.buf : Fec!Kept(d[2]) \/ d \in job.flat

ReadShape ==
  \A r \in read : /\ r[2] \in filed
                  /\ r[1] \in Pacs => r[1] = r[2][1]
                  /\ r[1] \in Pccs => r[1] = r[2][2]

\* Stored, dead in memory with its mark on disk, or in the buffer of a real run of the stage.
Accounted(stage, d) ==
  d \in donated \/ d \in orphaned \/ (job.stage = stage /\ ~job.dry /\ d \in job.buf)

Listed(c) ==
  \/ committees[c] = "row" \/ c \in unlisted \/ <<"candidates", c>> \in fecDried
  \/ job.stage = "candidates" /\ ~job.dry /\ c \in job.rich

MarksAccounted ==
  /\ \A c \in fecMarks.candidates : Listed(c)
  /\ \A stage \in {"a", "b"} : \A r \in read :
       r[1] \in fecMarks[stage] =>
         Accounted(stage, r[2]) \/ <<stage, r[1]>> \in fecDried

\* The same for what a real run has done and not yet flushed, and for the unit it reads:
\* what earlier runs read of it is read again.
DoneAccounted ==
  ~job.dry =>
    /\ job.stage = "candidates" => \A c \in job.done : Listed(c)
    /\ job.stage # "candidates" =>
         \A r \in read : r[1] \in job.done =>
           Accounted(job.stage, r[2]) \/ <<job.stage, r[1]>> \in fecDried
    /\ \A r \in read : r[1] = job.unit => Accounted(job.stage, r[2]) \/ r[2] \in job.unread

FecInv ==
  /\ Fec!TypeOK /\ JobShape /\ ParentsWritten /\ ReadShape /\ MarksAccounted /\ DoneAccounted
  /\ Fec!BatchAdmissible

FecMarks == [candidates : SUBSET Pccs, a : SUBSET Pacs, b : SUBSET Pccs]
Jobs == [pc : {"down", "plan", "candidates", "sweep", "store", "units", "rows",
               "committees", "stubs", "donations", "save"},
         stage : Fec!Stages, dry : BOOLEAN, todo : SUBSET Fec!Committees, done : SUBSET Fec!Committees,
         unit : Fec!Committees \cup {None}, unread : SUBSET Fec!Donations, buf : SUBSET Fec!Donations,
         flat : SUBSET Fec!Donations, rich : SUBSET Fec!Committees, stubs : SUBSET Pacs]

\* The variables by type, and the constants.
LEMMA FecTypes ==
  /\ Fec!TypeOK <=>
       /\ filed \subseteq Fec!Donations /\ donated \subseteq filed
       /\ committees \in [Fec!Committees -> {"absent", "stub", "row"}]
       /\ fecMarks \in FecMarks /\ job \in Jobs /\ faults \in 0 .. MaxFaults
       /\ read \subseteq Fec!Committees \X Fec!Donations /\ orphaned \subseteq Fec!Donations
       /\ unlisted \subseteq Pccs /\ fecDried \subseteq Fec!Stages \X Fec!Committees
  /\ Batch \in Nat \ {0} /\ DryRuns \in BOOLEAN /\ MaxFaults \in Nat
  /\ None \notin Pacs /\ None \notin Pccs /\ Pacs \cap Pccs = {}
  /\ Fec!Committees = Pacs \cup Pccs /\ None \notin Fec!Committees
<1>1. Fec!FecAssumption
  BY ConstantsAssumption
<1> QED BY <1>1 DEF Fec!TypeOK, FecMarks, Jobs, Fec!FecAssumption, Fec!Committees

\* The units of a stage are of its kind, and those of the stages of donations are apart.
LEMMA UnitsApart ==
  /\ \A stage \in Fec!Stages : Fec!Units(stage) \subseteq Fec!Committees
  /\ Fec!Units("a") = Pacs /\ Fec!Units("b") = Pccs /\ Fec!Units("candidates") = Pccs
BY FecTypes DEF Fec!Units, Fec!Committees, Fec!Stages

\* The units a stage has marked are units of its kind.
LEMMA MarksOfStage ==
  ASSUME fecMarks \in FecMarks, NEW stage \in Fec!Stages
  PROVE  fecMarks[stage] \subseteq Fec!Units(stage)
<1>1. CASE stage = "candidates"
  BY <1>1, UnitsApart DEF FecMarks
<1>2. CASE stage = "a"
  BY <1>2, UnitsApart DEF FecMarks
<1>3. CASE stage = "b"
  BY <1>3, UnitsApart DEF FecMarks
<1> QED BY <1>1, <1>2, <1>3 DEF Fec!Stages

\* A donation read under a unit of the stage is one of that unit.
LEMMA ReadUnit ==
  ASSUME FecInv, NEW r \in read, r[1] \in Fec!Units(job.stage)
  PROVE  Fec!Unit(r[2]) = r[1]
BY FecTypes DEF FecInv, ReadShape, Fec!Units, Fec!Unit

\* A job that rests, between two stages or two runs.
Resting ==
  /\ job \in Jobs /\ job.pc \in {"down", "plan"}
  /\ job.todo = {} /\ job.done = {} /\ job.buf = {} /\ job.unread = {}
  /\ job.rich = {} /\ job.stubs = {} /\ job.unit = None

\* A job that is down, or between two stages, rests.
LEMMA RestingJobs ==
  ASSUME job' = Fec!Down \/ (job.dry \in BOOLEAN /\ (job' = Fec!Stage("a") \/ job' = Fec!Stage("b")))
  PROVE  Resting'
<1>1. CASE job' = Fec!Down
  BY <1>1, FecTypes DEF Fec!Down, Resting, Jobs, Fec!Stages
<1>2. CASE job.dry \in BOOLEAN /\ job' = Fec!Stage("a")
  BY <1>2, FecTypes DEF Fec!Down, Fec!Stage, Resting, Jobs, Fec!Stages
<1>3. CASE job.dry \in BOOLEAN /\ job' = Fec!Stage("b")
  BY <1>3, FecTypes DEF Fec!Down, Fec!Stage, Resting, Jobs, Fec!Stages
<1> QED BY <1>1, <1>2, <1>3

\* The invariant of a job that rests.
LEMMA FecRests ==
  ASSUME Resting', Fec!TypeOK', ReadShape', MarksAccounted',
         \A d \in donated' : committees'[d[2]] # "absent" /\ (d[1] # None => committees'[d[1]] # "absent")
  PROVE  FecInv'
<1>1. JobShape' /\ ParentsWritten'
  BY FecTypes DEF Resting, JobShape, ParentsWritten, FecSteps
<1>2. \A r \in read' : r[1] # None
  BY FecTypes DEF Fec!TypeOK
<1>3. DoneAccounted'
  BY <1>2 DEF Resting, DoneAccounted
<1>4. Fec!BatchAdmissible'
  BY DEF Resting, Fec!BatchAdmissible, Fec!Admitted, Fec!Kept
<1> QED BY <1>1, <1>3, <1>4 DEF FecInv

\* A step that moves only the job and drops nothing of what it holds.
LEMMA FecMoves ==
  ASSUME FecInv, UNCHANGED <<filed, committees, donated, fecMarks, read, orphaned, unlisted, fecDried>>,
         faults' \in 0 .. MaxFaults, job' \in Jobs, JobShape', DoneAccounted',
         job'.pc # "stubs", job'.stage = job.stage, job'.dry = job.dry,
         job'.buf = job.buf, job'.flat = job.flat, job.rich \subseteq job'.rich, job.stubs \subseteq job'.stubs
  PROVE  FecInv'
<1>1. Fec!TypeOK'
  BY DEF FecInv, Fec!TypeOK, Jobs
<1>2. ParentsWritten' /\ ReadShape'
  BY DEF FecInv, ParentsWritten, ReadShape
<1>3. MarksAccounted'
  BY DEF FecInv, MarksAccounted, Accounted, Listed
<1>4. Fec!BatchAdmissible'
  BY DEF FecInv, Fec!BatchAdmissible, Fec!Admitted, Fec!Kept
<1> QED BY <1>1, <1>2, <1>3, <1>4 DEF FecInv

\* No run, no marks and no rows: the invariant holds.
LEMMA FecBegins == Fec!Init => FecInv
<1> SUFFICES ASSUME Fec!Init PROVE FecInv
  OBVIOUS
<1>1. Fec!TypeOK
  <2>1. Fec!Down \in Jobs
    BY DEF Fec!Down, Jobs, Fec!Stages
  <2>2. job = Fec!Down /\ [candidates |-> {}, a |-> {}, b |-> {}] \in FecMarks
    BY DEF Fec!Init, FecMarks
  <2> QED BY <2>1, <2>2, FecTypes DEF Fec!Init
<1>2. Fec!Down.todo = {} /\ Fec!Down.done = {} /\ Fec!Down.buf = {} /\ Fec!Down.unread = {}
      /\ Fec!Down.rich = {} /\ Fec!Down.unit = None /\ Fec!Down.pc = "down"
  BY DEF Fec!Down
<1>3. JobShape /\ ParentsWritten /\ ReadShape
  BY <1>2 DEF Fec!Init, JobShape, ParentsWritten, ReadShape, FecSteps
<1>4. MarksAccounted /\ DoneAccounted /\ Fec!BatchAdmissible
  BY <1>2 DEF Fec!Init, MarksAccounted, DoneAccounted, Fec!BatchAdmissible
<1> QED BY <1>1, <1>3, <1>4 DEF FecInv

\* A run begins with the first stage.
LEMMA StartFec == FecInv /\ Fec!Start => FecInv'
<1> SUFFICES ASSUME FecInv, Fec!Start PROVE FecInv'
  OBVIOUS
<1>1. PICK dry \in {FALSE, DryRuns} : job' = [Fec!Down EXCEPT !.pc = "plan", !.dry = dry]
  BY DEF Fec!Start
<1>2. UNCHANGED <<filed, committees, donated, fecMarks, faults, read, orphaned, unlisted, fecDried>>
      /\ job.pc = "down"
  BY DEF Fec!Start, Fec!tables, Fec!history, Fec!At
<1>3. Resting'
  <2>1. dry \in BOOLEAN
    BY FecTypes
  <2> QED BY <1>1, <2>1, FecTypes, ZenonT(40) DEF Fec!Down, Resting, Jobs, Fec!Stages
<1>4. Fec!TypeOK'
  BY <1>2, <1>3 DEF FecInv, Fec!TypeOK, Resting, Jobs
<1>5. ReadShape' /\ MarksAccounted'
  <2>1. job.buf = {} /\ job.rich = {}
    BY <1>2 DEF FecInv, JobShape
  <2> QED BY <1>2, <2>1 DEF FecInv, ReadShape, MarksAccounted, Accounted, Listed
<1>6. \A d \in donated' : committees'[d[2]] # "absent" /\ (d[1] # None => committees'[d[1]] # "absent")
  BY <1>2 DEF FecInv, Fec!BatchAdmissible, Fec!Admitted, Fec!Kept
<1> QED BY <1>3, <1>4, <1>5, <1>6, FecRests

\* A stage asks for what its state file does not hold.
LEMMA PlanFec == FecInv /\ Fec!Plan => FecInv'
<1> SUFFICES ASSUME FecInv, Fec!Plan PROVE FecInv'
  OBVIOUS
<1>1. /\ UNCHANGED <<filed, committees, donated, fecMarks, faults, read, orphaned, unlisted, fecDried>>
      /\ job.pc = "plan"
      /\ job' = [job EXCEPT !.pc = IF job.stage = "candidates" THEN "candidates" ELSE "units",
                            !.todo = Fec!Targets(job.stage) \ fecMarks[job.stage],
                            !.done = fecMarks[job.stage]]
  BY DEF Fec!Plan, Fec!tables, Fec!history, Fec!At
<1>2. job \in Jobs /\ job.stage \in Fec!Stages /\ fecMarks \in FecMarks /\ faults \in 0 .. MaxFaults
  BY FecTypes DEF FecInv, Jobs
<1>3. fecMarks[job.stage] \subseteq Fec!Units(job.stage)
      /\ Fec!Targets(job.stage) \subseteq Fec!Units(job.stage)
      /\ Fec!Units(job.stage) \subseteq Fec!Committees
  BY <1>2, MarksOfStage, UnitsApart DEF Fec!Targets
<1>4. /\ job' \in Jobs
      /\ job'.pc = (IF job.stage = "candidates" THEN "candidates" ELSE "units")
      /\ job'.todo = Fec!Targets(job.stage) \ fecMarks[job.stage] /\ job'.done = fecMarks[job.stage]
      /\ job'.stage = job.stage /\ job'.dry = job.dry /\ job'.buf = job.buf /\ job'.rich = job.rich
      /\ job'.stubs = job.stubs /\ job'.unit = job.unit /\ job'.unread = job.unread
      /\ job'.flat = job.flat
  BY <1>1, <1>2, <1>3 DEF Jobs
<1>5. job.unit = None /\ job.unread = {} /\ job.buf = {}
  BY <1>1 DEF FecInv, JobShape, FecSteps
<1>6. JobShape'
  BY <1>3, <1>4, <1>5 DEF JobShape, FecSteps
<1>7. \A r \in read : r[1] # None
  BY FecTypes DEF FecInv
<1>8. DoneAccounted'
  <2>1. CASE job.stage = "candidates"
    BY <1>1, <1>4, <1>5, <1>7, <2>1 DEF FecInv, MarksAccounted, DoneAccounted, Listed
  <2>2. CASE job.stage \in {"a", "b"}
    BY <1>1, <1>4, <1>5, <1>7, <2>2 DEF FecInv, MarksAccounted, DoneAccounted, Accounted
  <2> QED BY <1>2, <2>1, <2>2 DEF Fec!Stages
<1> QED BY <1>1, <1>2, <1>4, <1>6, <1>8, FecMoves

\* The fetches of the candidates, and the sweep.
LEMMA CandidatesFec ==
  FecInv /\ ((\E c \in Pccs : Fec!FetchCandidate(c) \/ Fec!CandidateFails(c)) \/ Fec!Sweep) => FecInv'
<1> SUFFICES ASSUME FecInv,
                    (\E c \in Pccs : Fec!FetchCandidate(c) \/ Fec!CandidateFails(c)) \/ Fec!Sweep
             PROVE  FecInv'
  OBVIOUS
<1>1. /\ UNCHANGED <<filed, committees, donated, fecMarks, read, orphaned, unlisted, fecDried>>
      /\ job.pc \in {"candidates", "sweep"}
      /\ faults' = faults \/ (faults < MaxFaults /\ faults' = faults + 1)
  BY DEF Fec!FetchCandidate, Fec!CandidateFails, Fec!Sweep, Fec!Fault, Fec!tables, Fec!history, Fec!At
<1>2. job \in Jobs /\ faults \in 0 .. MaxFaults /\ MaxFaults \in Nat
      /\ Fec!Committees = Pacs \cup Pccs
  BY FecTypes DEF FecInv
<1>3. faults' \in 0 .. MaxFaults
  BY <1>1, <1>2
<1>4. job.stage = "candidates" /\ job.buf = {} /\ job.unit = None /\ job.unread = {}
      /\ job.todo \subseteq Pccs /\ job.done \subseteq Pccs
  BY <1>1, UnitsApart DEF FecInv, JobShape, FecSteps
<1>5. /\ job' \in Jobs /\ job'.pc \in {"candidates", "store"}
      /\ job'.stage = job.stage /\ job'.dry = job.dry /\ job'.buf = job.buf /\ job'.flat = job.flat
      /\ job'.stubs = job.stubs /\ job'.unit = job.unit /\ job'.unread = job.unread
      /\ job'.todo \subseteq job.todo /\ job'.done \subseteq Pccs /\ job.rich \subseteq job'.rich
      /\ \A c \in job'.done : c \in job.done \/ c \in job'.rich
  <2>1. CASE \E c \in Pccs : Fec!FetchCandidate(c)
    <3>1. PICK c \in Pccs : Fec!FetchCandidate(c)
      BY <2>1
    <3>2. job' = [job EXCEPT !.todo = @ \ {c}, !.done = @ \cup {c}, !.rich = @ \cup {c}]
          /\ job.pc = "candidates"
      BY <3>1 DEF Fec!FetchCandidate, Fec!At
    <3>3. job' \in Jobs
      BY <1>2, <3>2 DEF Jobs
    <3> QED BY <1>2, <1>4, <3>2, <3>3 DEF Jobs
  <2>2. CASE \E c \in Pccs : Fec!CandidateFails(c)
    BY <1>1, <1>2, <1>4, <2>2 DEF Fec!CandidateFails, Fec!At, Jobs
  <2>3. CASE Fec!Sweep
    BY <1>1, <1>2, <1>4, <2>3 DEF Fec!Sweep, Fec!At, Jobs
  <2> QED BY <2>1, <2>2, <2>3
<1>6. JobShape'
  BY <1>1, <1>4, <1>5, UnitsApart DEF FecInv, JobShape, FecSteps
<1>7. DoneAccounted'
  <2>1. \A r \in read : r[1] # None
    BY FecTypes DEF FecInv
  <2>2. \A c : Listed(c) => Listed(c)'
    BY <1>1, <1>5 DEF Listed
  <2>3. ~job.dry => \A c \in job'.done : Listed(c)'
    BY <1>4, <1>5, <2>2 DEF FecInv, DoneAccounted, Listed
  <2> QED BY <1>1, <1>4, <1>5, <2>1, <2>3 DEF DoneAccounted
<1> QED BY <1>1, <1>3, <1>5, <1>6, <1>7, FecMoves

\* A unit is opened, its donations unread.
LEMMA OpenUnitFec == ASSUME NEW u \in Fec!Committees PROVE FecInv /\ Fec!OpenUnit(u) => FecInv'
<1> SUFFICES ASSUME FecInv, Fec!OpenUnit(u) PROVE FecInv'
  OBVIOUS
<1>1. UNCHANGED <<filed, committees, donated, fecMarks, faults, read, orphaned, unlisted, fecDried>>
      /\ job.pc = "units" /\ u \in job.todo
      /\ job' = [job EXCEPT !.pc = "rows", !.todo = @ \ {u}, !.unit = u,
                            !.unread = Fec!DonationsOf(u)]
  BY DEF Fec!OpenUnit, Fec!tables, Fec!history, Fec!At
<1>2. /\ job \in Jobs /\ job.stage # "candidates" /\ u \in Fec!Units(job.stage) /\ filed \subseteq Fec!Donations
      /\ job.todo \subseteq Fec!Units(job.stage) /\ faults \in 0 .. MaxFaults /\ u # None
  BY <1>1, FecTypes DEF FecInv, JobShape
<1>3. Fec!DonationsOf(u) \subseteq filed /\ \A d \in Fec!DonationsOf(u) : Fec!Unit(d) = u
  BY DEF Fec!DonationsOf
<1>4. /\ job' \in Jobs /\ job'.pc = "rows"
      /\ job'.stage = job.stage /\ job'.dry = job.dry /\ job'.buf = job.buf /\ job'.rich = job.rich
      /\ job'.stubs = job.stubs /\ job'.unit = u /\ job'.unread = Fec!DonationsOf(u)
      /\ job'.todo = job.todo \ {u} /\ job'.done = job.done /\ job'.flat = job.flat
  BY <1>1, <1>2, <1>3 DEF Jobs
<1>5. \A d \in Fec!DonationsOf(u) : Fec!Unit(d)' = u
  BY <1>3, <1>4 DEF Fec!Unit
<1>6. JobShape'
  BY <1>1, <1>2, <1>3, <1>4, <1>5 DEF FecInv, JobShape, FecSteps
<1>7. ASSUME NEW r \in read, r[1] = u PROVE r[2] \in Fec!DonationsOf(u)
  BY <1>2, <1>7, ReadUnit DEF FecInv, ReadShape, Fec!DonationsOf
<1>8. DoneAccounted'
  BY <1>1, <1>2, <1>4, <1>7 DEF FecInv, DoneAccounted, Accounted
<1> QED BY <1>1, <1>2, <1>4, <1>6, <1>8, FecMoves

\* A batch that the foreign keys refuse while a unit is read.
RefusedInUnit == Fec!DonationsRefused /\ job' = Fec!Abandoned /\ UNCHANGED <<orphaned, unlisted>>

\* The end of a unit, of all units, and what is raised while a unit is read.
LEMMA EndsFec ==
  ASSUME FecInv,
         Fec!CloseUnit \/ Fec!UnitsEnd \/ Fec!WriteFails \/ Fec!RequestFails \/ RefusedInUnit
  PROVE  FecInv'
<1>1. UNCHANGED <<filed, committees, donated, fecMarks, read, orphaned, unlisted, fecDried>>
      /\ job.pc \in {"units"} \cup FecSteps
  BY DEF Fec!CloseUnit, Fec!UnitsEnd, Fec!WriteFails, Fec!RequestFails, RefusedInUnit,
         Fec!DonationsRefused, Fec!tables, Fec!history, Fec!At, FecSteps
<1>2. job \in Jobs /\ faults \in 0 .. MaxFaults /\ MaxFaults \in Nat
  BY FecTypes DEF FecInv
<1>3. faults' \in 0 .. MaxFaults
  BY <1>2 DEF Fec!CloseUnit, Fec!UnitsEnd, Fec!WriteFails, Fec!RequestFails, RefusedInUnit,
              Fec!DonationsRefused, Fec!Fault
<1>4. job.stage # "candidates" /\ job.done \subseteq Fec!Units(job.stage)
  BY <1>1 DEF FecInv, JobShape
<1>5. /\ job' \in Jobs
      /\ job'.pc = "units" \/ (job'.pc = "save" /\ job.dry) \/ (job'.pc = "committees" /\ ~job.dry)
      /\ job'.stage = job.stage /\ job'.dry = job.dry /\ job'.buf = job.buf
      /\ job'.rich = job.rich /\ job'.stubs = job.stubs /\ job'.flat = job.flat
      /\ job'.unit = None /\ job'.unread = {} /\ job'.todo = job.todo
      /\ \/ job'.done = job.done
         \/ job'.done = job.done \cup {job.unit} /\ job.unit # None /\ job.unread = {}
  <2>1. CASE Fec!CloseUnit
    <3>1. job.unit # None
      BY <2>1 DEF FecInv, JobShape, Fec!CloseUnit, Fec!At
    <3> QED BY <1>2, <2>1, <3>1 DEF Fec!CloseUnit, Jobs
  <2>2. CASE Fec!UnitsEnd
    <3>1. job.pc = "units" /\ job.unit = None /\ job.unread = {}
      BY <2>2 DEF FecInv, JobShape, Fec!UnitsEnd, Fec!At, FecSteps
    <3> QED BY <1>2, <2>2, <3>1 DEF Fec!UnitsEnd, Jobs
  <2>3. CASE Fec!WriteFails \/ Fec!RequestFails \/ RefusedInUnit
    <3>1. job' = [job EXCEPT !.pc = "units", !.unit = None, !.unread = {}]
      BY <2>3 DEF Fec!WriteFails, Fec!RequestFails, RefusedInUnit, Fec!Abandoned
    <3> QED BY <1>2, <3>1 DEF Jobs
  <2> QED BY <2>1, <2>2, <2>3
<1>6. job'.done \subseteq Fec!Units(job.stage)
  BY <1>4, <1>5 DEF FecInv, JobShape
<1>7. JobShape'
  BY <1>1, <1>4, <1>5, <1>6 DEF FecInv, JobShape, FecSteps
<1>8. \A r \in read : r[1] # None
  BY FecTypes DEF FecInv
<1>9. DoneAccounted'
  BY <1>1, <1>4, <1>5, <1>8 DEF FecInv, DoneAccounted, Accounted
<1> QED BY <1>1, <1>3, <1>5, <1>7, <1>9, FecMoves

\* A donation is read into the buffer, and its donor's stub with it.
LEMMA ReadRowFec == ASSUME NEW d \in Fec!Donations PROVE FecInv /\ Fec!ReadRow(d) => FecInv'
<1> SUFFICES ASSUME FecInv, Fec!ReadRow(d) PROVE FecInv'
  OBVIOUS
<1> DEFINE full == Fec!Cardinality(job.buf \cup {d}) >= Batch
<1>1. /\ UNCHANGED <<filed, committees, donated, fecMarks, faults, orphaned, unlisted, fecDried>>
      /\ job.pc = "rows" /\ d \in job.unread
      /\ \E flat \in {{}, {d}} :
           job' = [job EXCEPT !.pc = IF full /\ ~job.dry THEN "committees" ELSE @,
                              !.unread = @ \ {d},
                              !.buf = IF full /\ job.dry THEN {} ELSE job.buf \cup {d},
                              !.flat = IF full /\ job.dry THEN {} ELSE (@ \ {d}) \cup flat,
                              !.rich = @ \cup {c \in {d[2]} : flat = {}},
                              !.stubs = @ \cup ({d[1]} \ {None})]
      /\ read' = IF job.dry THEN read ELSE read \cup {<<job.unit, d>>}
  BY DEF Fec!ReadRow, Fec!tables, Fec!At
<1>2. /\ job \in Jobs /\ job.unit \in Fec!Units(job.stage) /\ job.unit # None
      /\ Fec!Unit(d) = job.unit /\ d \in filed /\ job.buf \subseteq filed
      /\ job.stage # "candidates" /\ job.stage \in Fec!Stages
      /\ d[2] \in Pccs /\ (d[1] # None => d[1] \in Pacs)
  <2>1. job \in Jobs
    BY FecTypes DEF FecInv
  <2> QED BY <1>1, <2>1, FecTypes DEF FecInv, JobShape, Jobs, Fec!Donations
<1> HIDE DEF full
<1>a. PICK flat \in {{}, {d}} :
        job' = [job EXCEPT !.pc = IF full /\ ~job.dry THEN "committees" ELSE @,
                           !.unread = @ \ {d},
                           !.buf = IF full /\ job.dry THEN {} ELSE job.buf \cup {d},
                           !.flat = IF full /\ job.dry THEN {} ELSE (@ \ {d}) \cup flat,
                           !.rich = @ \cup {c \in {d[2]} : flat = {}},
                           !.stubs = @ \cup ({d[1]} \ {None})]
  BY <1>1
<1>3. /\ job'.pc \in {"rows", "committees"} /\ (job'.pc = "committees" => ~job.dry)
      /\ job'.stage = job.stage /\ job'.dry = job.dry /\ job'.todo = job.todo /\ job'.done = job.done
      /\ job'.unit = job.unit /\ job'.unread = job.unread \ {d}
      /\ job'.buf \subseteq job.buf \cup {d} /\ (~job.dry => job'.buf = job.buf \cup {d})
      /\ job.rich \subseteq job'.rich /\ job'.stubs = job.stubs \cup ({d[1]} \ {None})
      /\ \A e \in job'.buf : e \in job.flat \ {d} => e \in job'.flat
      /\ \A e \in job'.buf \cap {d} : e \in job'.flat \/ d[2] \in job'.rich
  BY <1>1, <1>2, <1>a DEF Jobs
<1>4. job' \in Jobs
  <2> DEFINE pc == IF full /\ ~job.dry THEN "committees" ELSE job.pc
             buf == IF full /\ job.dry THEN {} ELSE job.buf \cup {d}
             flats == IF full /\ job.dry THEN {} ELSE (job.flat \ {d}) \cup flat
             rich == job.rich \cup {c \in {d[2]} : flat = {}}
             stubs == job.stubs \cup ({d[1]} \ {None})
  <2>1. job.pc = "rows" /\ job.flat \subseteq Fec!Donations /\ job.buf \subseteq Fec!Donations
        /\ job.rich \subseteq Fec!Committees /\ job.stubs \subseteq Pacs
    BY <1>1, <1>2 DEF Jobs
  <2>2. pc \in {"rows", "committees"} /\ buf \subseteq Fec!Donations /\ flats \subseteq Fec!Donations
    BY <2>1
  <2>3. rich \subseteq Fec!Committees /\ stubs \subseteq Pacs
    BY <1>2, <2>1, FecTypes
  <2>4. job' = [job EXCEPT !.pc = pc, !.unread = job.unread \ {d}, !.buf = buf, !.flat = flats,
                           !.rich = rich, !.stubs = stubs]
    BY <1>a
  <2> HIDE DEF pc, buf, flats, rich, stubs
  <2> QED BY <1>2, <2>2, <2>3, <2>4 DEF Jobs
<1>5. job.unit \in Fec!Committees
  BY <1>2, UnitsApart
<1>6. Fec!TypeOK'
  <2>1. read' \subseteq Fec!Committees \X Fec!Donations
    BY <1>1, <1>5, FecTypes DEF FecInv
  <2> QED BY <1>1, <1>4, <2>1, FecTypes DEF FecInv, Fec!TypeOK, Jobs
<1>7. \A e \in job.unread : Fec!Unit(e)' = Fec!Unit(e)
  BY <1>3 DEF Fec!Unit
<1>8. JobShape'
  BY <1>1, <1>2, <1>3, <1>7 DEF FecInv, JobShape, FecSteps
<1>9. ParentsWritten'
  BY <1>3 DEF ParentsWritten
<1>10. ReadShape'
  <2>1. /\ job.unit \in Pacs => job.unit = d[1]
        /\ job.unit \in Pccs => job.unit = d[2]
    BY <1>2, UnitsApart, FecTypes DEF Fec!Units, Fec!Unit
  <2> QED BY <1>1, <1>2, <2>1 DEF FecInv, ReadShape
<1>11. \A stage, e : Accounted(stage, e) => Accounted(stage, e)'
  BY <1>1, <1>3 DEF Accounted
<1>12. \A r \in read' : r \in read \/ (~job.dry /\ r[1] = job.unit /\ r[2] = d)
  BY <1>1
<1>13. \A stage : stage = job.stage /\ ~job.dry => Accounted(stage, d)'
  BY <1>3 DEF Accounted
<1>14. MarksAccounted'
  <2>1. \A c \in fecMarks.candidates : Listed(c)'
    BY <1>1, <1>2, <1>3 DEF FecInv, MarksAccounted, Listed
  <2>2. ASSUME NEW stage \in {"a", "b"}, NEW r \in read', r[1] \in fecMarks[stage]
        PROVE  Accounted(stage, r[2])' \/ <<stage, r[1]>> \in fecDried
    <3>1. CASE r \in read
      BY <1>11, <2>2, <3>1 DEF FecInv, MarksAccounted
    <3>2. CASE ~job.dry /\ r[1] = job.unit /\ r[2] = d
      <4>1. job.unit \in Fec!Units(stage)
        BY <2>2, <3>2, MarksOfStage, FecTypes DEF FecInv, Fec!Stages
      <4>2. stage = job.stage
        BY <1>2, <4>1, UnitsApart, FecTypes DEF Fec!Stages
      <4> QED BY <1>13, <3>2, <4>2
    <3> QED BY <1>12, <3>1, <3>2
  <2> QED BY <1>1, <2>1, <2>2 DEF MarksAccounted
<1>15. DoneAccounted'
  <2>1. ASSUME ~job.dry, NEW r \in read', r[1] \in job.done
        PROVE  (Accounted(job.stage, r[2]) \/ <<job.stage, r[1]>> \in fecDried)'
    <3>1. CASE r \in read
      BY <1>1, <1>2, <1>3, <1>11, <2>1, <3>1 DEF FecInv, DoneAccounted
    <3>2. CASE r[2] = d
      BY <1>3, <1>13, <3>2, <2>1
    <3> QED BY <1>12, <3>1, <3>2
  <2>2. ASSUME ~job.dry, NEW r \in read', r[1] = job.unit
        PROVE  (Accounted(job.stage, r[2]) \/ r[2] \in job.unread)'
    <3>1. CASE r \in read
      BY <1>1, <1>2, <1>3, <1>11, <1>13, <2>2, <3>1 DEF FecInv, DoneAccounted
    <3>2. CASE r[2] = d
      BY <1>3, <1>13, <3>2, <2>2
    <3> QED BY <1>12, <3>1, <3>2
  <2> QED BY <1>2, <1>3, <2>1, <2>2 DEF DoneAccounted
<1>16. Fec!BatchAdmissible'
  BY <1>1, <1>2, <1>3 DEF FecInv, Fec!BatchAdmissible, Fec!Admitted, Fec!Kept
<1> QED BY <1>6, <1>8, <1>9, <1>10, <1>14, <1>15, <1>16 DEF FecInv

\* A row without its key is passed over.
LEMMA SkipRowFec == ASSUME NEW d \in Fec!Donations PROVE FecInv /\ Fec!SkipRow(d) => FecInv'
<1> SUFFICES ASSUME FecInv, Fec!SkipRow(d) PROVE FecInv'
  OBVIOUS
<1>1. /\ UNCHANGED <<filed, committees, donated, fecMarks, faults, orphaned, unlisted, fecDried>>
      /\ job.pc = "rows" /\ d \in job.unread
      /\ job' = [job EXCEPT !.unread = @ \ {d}]
      /\ read' = IF job.dry THEN read ELSE read \ {<<job.unit, d>>}
  BY DEF Fec!SkipRow, Fec!tables, Fec!At
<1>2. job \in Jobs /\ read \subseteq Fec!Committees \X Fec!Donations
  BY FecTypes DEF FecInv
<1>3. /\ job' \in Jobs /\ job'.unread = job.unread \ {d}
      /\ job'.pc = job.pc /\ job'.stage = job.stage /\ job'.dry = job.dry /\ job'.todo = job.todo
      /\ job'.done = job.done /\ job'.unit = job.unit /\ job'.buf = job.buf /\ job'.flat = job.flat
      /\ job'.rich = job.rich /\ job'.stubs = job.stubs
  BY <1>1, <1>2 DEF Jobs
<1>4. /\ read' \subseteq read
      /\ ~job.dry => \A r \in read' : r[1] = job.unit => r[2] # d
  BY <1>1, <1>2
<1>5. Fec!TypeOK'
  BY <1>1, <1>3, <1>4 DEF FecInv, Fec!TypeOK, Jobs
<1>6. \A e \in job.unread : Fec!Unit(e)' = Fec!Unit(e)
  BY <1>3 DEF Fec!Unit
<1>7. JobShape'
  BY <1>1, <1>3, <1>6 DEF FecInv, JobShape, FecSteps
<1>8. ParentsWritten' /\ ReadShape' /\ Fec!BatchAdmissible'
  BY <1>1, <1>3, <1>4 DEF FecInv, ParentsWritten, ReadShape, Fec!BatchAdmissible, Fec!Admitted, Fec!Kept
<1>9. \A stage, e : Accounted(stage, e) => Accounted(stage, e)'
  BY <1>1, <1>3 DEF Accounted
<1>10. \A c : Listed(c) => Listed(c)'
  BY <1>1, <1>3 DEF Listed
<1>11. MarksAccounted'
  BY <1>1, <1>4, <1>9, <1>10 DEF FecInv, MarksAccounted
<1>12. DoneAccounted'
  BY <1>1, <1>3, <1>4, <1>9, <1>10 DEF FecInv, DoneAccounted
<1> QED BY <1>5, <1>7, <1>8, <1>11, <1>12 DEF FecInv

\* A write that gives committees their rows takes none from any.
LEMMA UpsertedKept ==
  ASSUME committees \in [Fec!Committees -> {"absent", "stub", "row"}], NEW cs \in SUBSET Fec!Committees,
         committees' = Fec!Upserted(cs)
  PROVE  /\ committees' \in [Fec!Committees -> {"absent", "stub", "row"}]
         /\ \A c \in Fec!Committees : committees[c] = "row" \/ c \in cs => committees'[c] = "row"
         /\ \A c \in Fec!Committees : committees[c] # "absent" => committees'[c] # "absent"
BY DEF Fec!Upserted

\* The committees of a donation.
LEMMA ParentsOf ==
  ASSUME Fec!TypeOK, NEW d \in filed
  PROVE  d[2] \in Fec!Committees /\ (d[1] # None => d[1] \in Fec!Committees)
BY FecTypes DEF Fec!Donations

\* The committees of a buffer are upserted first.
LEMMA StoreCommitteesFec == FecInv /\ Fec!StoreCommittees => FecInv'
<1> SUFFICES ASSUME FecInv, Fec!StoreCommittees PROVE FecInv'
  OBVIOUS
<1>1. /\ UNCHANGED <<filed, donated, fecMarks, faults, read, orphaned, unlisted, fecDried>>
      /\ job.pc = "store"
      /\ committees' = (IF job.dry THEN committees ELSE Fec!Upserted(job.rich))
      /\ job' = Fec!Stage("a")
  BY DEF Fec!StoreCommittees, Fec!history, Fec!At
<1>2. /\ Fec!TypeOK /\ job \in Jobs /\ job.rich \subseteq Fec!Committees /\ job.dry \in BOOLEAN
      /\ committees \in [Fec!Committees -> {"absent", "stub", "row"}]
      /\ job.buf = {} /\ job.stage = "candidates"
      /\ fecMarks.candidates \subseteq Fec!Committees /\ donated \subseteq filed
  BY <1>1, FecTypes DEF FecInv, JobShape, Jobs, FecMarks
<1>3. /\ committees' \in [Fec!Committees -> {"absent", "stub", "row"}]
      /\ \A c \in Fec!Committees : committees[c] = "row" => committees'[c] = "row"
      /\ \A c \in Fec!Committees : ~job.dry /\ c \in job.rich => committees'[c] = "row"
      /\ \A c \in Fec!Committees : committees[c] # "absent" => committees'[c] # "absent"
  BY <1>1, <1>2, UpsertedKept
<1>4. Resting'
  BY <1>1, <1>2, RestingJobs
<1>5. Fec!TypeOK'
  BY <1>1, <1>2, <1>3, <1>4 DEF Fec!TypeOK, Resting, Jobs
<1>6. ReadShape'
  BY <1>1 DEF FecInv, ReadShape
<1>7. MarksAccounted'
  <2>1. \A c \in fecMarks.candidates : Listed(c)'
    BY <1>1, <1>2, <1>3 DEF FecInv, MarksAccounted, Listed
  <2>2. \A stage, d : Accounted(stage, d) => Accounted(stage, d)'
    BY <1>1, <1>2 DEF Accounted
  <2> QED BY <1>1, <2>1, <2>2 DEF FecInv, MarksAccounted
<1>8. \A d \in donated' : committees'[d[2]] # "absent" /\ (d[1] # None => committees'[d[1]] # "absent")
  BY <1>1, <1>2, <1>3, ParentsOf DEF FecInv, Fec!BatchAdmissible, Fec!Admitted, Fec!Kept
<1> QED BY <1>4, <1>5, <1>6, <1>7, <1>8, FecRests

\* The three writes of a batch.
LEMMA WritesFec ==
  FecInv /\ (Fec!WriteCommittees \/ Fec!WriteStubs \/ Fec!WriteDonations) => FecInv'
<1> SUFFICES ASSUME FecInv, Fec!WriteCommittees \/ Fec!WriteStubs \/ Fec!WriteDonations PROVE FecInv'
  OBVIOUS
<1>1. UNCHANGED <<filed, fecMarks, faults, read, orphaned, unlisted, fecDried>>
      /\ job.pc \in {"committees", "stubs", "donations"}
  BY DEF Fec!WriteCommittees, Fec!WriteStubs, Fec!WriteDonations, Fec!history, Fec!At
<1>2. /\ Fec!TypeOK /\ job \in Jobs /\ job.rich \subseteq Fec!Committees /\ job.stubs \subseteq Fec!Committees
      /\ committees \in [Fec!Committees -> {"absent", "stub", "row"}]
      /\ ~job.dry /\ job.stage # "candidates" /\ donated \subseteq filed /\ job.buf \subseteq filed
      /\ fecMarks.candidates \subseteq Fec!Committees
  BY <1>1, FecTypes DEF FecInv, JobShape, FecSteps, Jobs, FecMarks
<1>3. /\ job'.stage = job.stage /\ job'.dry = job.dry /\ job'.todo = job.todo /\ job'.done = job.done
      /\ job'.unit = job.unit /\ job'.unread = job.unread /\ job' \in Jobs
      /\ job'.buf \subseteq job.buf /\ \A d \in job.buf : d \in job'.buf \/ d \in donated'
      /\ donated \subseteq donated' /\ donated' \subseteq donated \cup job.buf
      /\ \A d \in job'.buf : d \in job.flat => d \in job'.flat
  <2>1. CASE Fec!WriteCommittees
    BY <1>2, <2>1 DEF Fec!WriteCommittees, Jobs
  <2>2. CASE Fec!WriteStubs
    BY <1>2, <2>2 DEF Fec!WriteStubs, Jobs
  <2>3. CASE Fec!WriteDonations
    BY <1>2, <2>3 DEF Fec!WriteDonations, Jobs
  <2> QED BY <2>1, <2>2, <2>3
<1>4. /\ committees' \in [Fec!Committees -> {"absent", "stub", "row"}]
      /\ \A c \in Fec!Committees : committees[c] = "row" => committees'[c] = "row"
      /\ \A c \in Fec!Committees : committees[c] # "absent" => committees'[c] # "absent"
  <2>1. CASE Fec!WriteCommittees
    BY <1>2, <2>1, UpsertedKept DEF Fec!WriteCommittees
  <2>2. CASE Fec!WriteStubs
    BY <1>2, <2>2 DEF Fec!WriteStubs, Fec!Kept
  <2>3. CASE Fec!WriteDonations
    BY <1>2, <2>3 DEF Fec!WriteDonations
  <2> QED BY <2>1, <2>2, <2>3
<1>5. \/ /\ job.pc = "committees" /\ job'.pc = "stubs" /\ job'.buf = job.buf /\ donated' = donated
         /\ job'.stubs = job.stubs /\ \A c \in job.rich : committees'[c] = "row"
      \/ /\ job.pc = "stubs" /\ job'.pc = "donations" /\ job'.buf = job.buf /\ donated' = donated
         /\ \A c \in job.stubs : committees'[c] # "absent"
      \/ /\ job.pc = "donations" /\ job'.pc = (IF job.unit = None THEN "save" ELSE "rows")
         /\ job'.buf = {} /\ committees' = committees /\ \A d \in job.buf : Fec!Admitted(d)
  <2>1. CASE Fec!WriteCommittees
    BY <1>2, <2>1, UpsertedKept DEF Fec!WriteCommittees, Fec!At, Jobs
  <2>2. CASE Fec!WriteStubs
    BY <1>2, <2>2 DEF Fec!WriteStubs, Fec!Kept, Fec!At, Jobs
  <2>3. CASE Fec!WriteDonations
    BY <1>2, <2>3 DEF Fec!WriteDonations, Fec!At, Jobs
  <2> QED BY <2>1, <2>2, <2>3
<1>6. Fec!TypeOK'
  BY <1>1, <1>2, <1>3, <1>4 DEF Fec!TypeOK, Jobs
<1>7. \A d \in job.unread : Fec!Unit(d)' = Fec!Unit(d)
  BY <1>3 DEF Fec!Unit
<1>8. JobShape'
  <2>1. job'.pc \in {"stubs", "donations", "save", "rows"} /\ (job'.pc = "save" => job.unit = None)
        /\ (job'.pc = "rows" => job.unit # None) /\ (job'.pc = "save" => job'.buf = {})
    BY <1>5
  <2>2. job.unread # {} => job.unit # None
    BY DEF FecInv, JobShape
  <2> QED BY <1>1, <1>2, <1>3, <1>7, <2>1, <2>2 DEF FecInv, JobShape, FecSteps
<1>9. \A d \in job.buf : d[2] \in Fec!Committees /\ (d[1] # None => d[1] \in Fec!Committees)
  BY <1>2, ParentsOf
<1>10. ParentsWritten'
  BY <1>2, <1>3, <1>4, <1>5, <1>9
     DEF FecInv, ParentsWritten, Fec!BatchAdmissible, Fec!Admitted, Fec!Kept
<1>11. ReadShape'
  BY <1>1 DEF FecInv, ReadShape
<1>12. \A stage, d : Accounted(stage, d) => Accounted(stage, d)'
  BY <1>1, <1>3 DEF Accounted
<1>13. MarksAccounted'
  <2>1. \A c \in fecMarks.candidates : Listed(c)'
    BY <1>1, <1>2, <1>4 DEF FecInv, MarksAccounted, Listed
  <2> QED BY <1>1, <1>12, <2>1 DEF FecInv, MarksAccounted
<1>14. DoneAccounted'
  BY <1>1, <1>2, <1>3, <1>12 DEF FecInv, DoneAccounted
<1>15. Fec!BatchAdmissible'
  <2>1. \A d \in donated : committees'[d[2]] # "absent" /\ (d[1] # None => committees'[d[1]] # "absent")
    BY <1>2, <1>4, ParentsOf DEF FecInv, Fec!BatchAdmissible, Fec!Admitted, Fec!Kept
  <2>2. CASE job.pc = "donations"
    BY <1>2, <1>3, <1>4, <1>5, <1>9, <2>1, <2>2
       DEF FecInv, ParentsWritten, Fec!BatchAdmissible, Fec!Admitted, Fec!Kept
  <2>3. CASE job.pc = "stubs"
    BY <1>2, <1>3, <1>4, <1>5, <1>9, <2>1, <2>3
       DEF FecInv, ParentsWritten, Fec!BatchAdmissible, Fec!Admitted, Fec!Kept
  <2>4. CASE job.pc = "committees"
    BY <1>2, <1>3, <1>4, <1>5, <1>9, <2>1, <2>4 DEF FecInv, Fec!BatchAdmissible, Fec!Admitted, Fec!Kept
  <2> QED BY <1>1, <2>2, <2>3, <2>4
<1> QED BY <1>6, <1>8, <1>10, <1>11, <1>13, <1>14, <1>15 DEF FecInv

\* A flush: what becomes done on disk was done in memory, or a dry run called it so.
LEMMA FlushKeeps ==
  ASSUME FecInv, Fec!Flush, UNCHANGED <<committees, donated, read, orphaned, unlisted>>,
         job.pc \notin {"down", "plan"}
  PROVE  /\ fecMarks' \in FecMarks /\ fecDried \subseteq fecDried'
         /\ fecDried' \subseteq Fec!Stages \X Fec!Committees
         /\ \A c \in fecMarks'.candidates : Listed(c) \/ <<"candidates", c>> \in fecDried'
         /\ \A stage \in {"a", "b"} : \A r \in read :
              r[1] \in fecMarks'[stage] =>
                Accounted(stage, r[2]) \/ <<stage, r[1]>> \in fecDried'
<1>1. /\ fecMarks \in FecMarks /\ job.stage \in Fec!Stages /\ job.done \subseteq Fec!Units(job.stage)
      /\ Fec!Units(job.stage) \subseteq Fec!Committees
      /\ fecDried \subseteq Fec!Stages \X Fec!Committees
  BY FecTypes, UnitsApart DEF FecInv, JobShape, Jobs
<1>2. /\ fecMarks' = [fecMarks EXCEPT ![job.stage] = job.done]
      /\ fecDried' = IF job.dry THEN fecDried \cup ({job.stage} \X (job.done \ fecMarks[job.stage]))
                     ELSE fecDried
  BY DEF Fec!Flush
<1>3. /\ fecMarks' \in FecMarks /\ fecMarks'[job.stage] = job.done
      /\ \A stage \in Fec!Stages \ {job.stage} : fecMarks'[stage] = fecMarks[stage]
  <2>1. CASE job.stage = "candidates"
    BY <1>1, <1>2, <2>1, UnitsApart DEF FecMarks, Fec!Stages
  <2>2. CASE job.stage = "a"
    BY <1>1, <1>2, <2>2, UnitsApart DEF FecMarks, Fec!Stages
  <2>3. CASE job.stage = "b"
    BY <1>1, <1>2, <2>3, UnitsApart DEF FecMarks, Fec!Stages
  <2> QED BY <1>1, <2>1, <2>2, <2>3 DEF Fec!Stages
<1>4. fecDried \subseteq fecDried' /\ fecDried' \subseteq Fec!Stages \X Fec!Committees
  BY <1>1, <1>2
<1>5. \A u \in job.done : job.dry => u \in fecMarks[job.stage] \/ <<job.stage, u>> \in fecDried'
  BY <1>2
<1>6. ASSUME NEW c \in fecMarks'.candidates
      PROVE  Listed(c) \/ <<"candidates", c>> \in fecDried'
  <2>1. c \in fecMarks.candidates => Listed(c)
    BY DEF FecInv, MarksAccounted
  <2>2. CASE job.stage = "candidates" /\ ~job.dry
    BY <1>3, <1>6, <2>1, <2>2 DEF FecInv, DoneAccounted
  <2>3. CASE job.stage = "candidates" /\ job.dry
    BY <1>3, <1>5, <1>6, <2>1, <2>3
  <2>4. CASE job.stage # "candidates"
    BY <1>3, <1>6, <2>1, <2>4 DEF Fec!Stages
  <2> QED BY <2>2, <2>3, <2>4
<1>7. ASSUME NEW stage \in {"a", "b"}, NEW r \in read, r[1] \in fecMarks'[stage]
      PROVE  Accounted(stage, r[2]) \/ <<stage, r[1]>> \in fecDried'
  <2>1. r[1] \in fecMarks[stage] => Accounted(stage, r[2]) \/ <<stage, r[1]>> \in fecDried
    BY DEF FecInv, MarksAccounted
  <2>2. CASE job.stage = stage /\ ~job.dry
    BY <1>3, <1>4, <1>7, <2>1, <2>2 DEF FecInv, DoneAccounted
  <2>3. CASE job.stage = stage /\ job.dry
    BY <1>3, <1>4, <1>5, <1>7, <2>1, <2>3
  <2>4. CASE job.stage # stage
    BY <1>3, <1>4, <1>7, <2>1, <2>4 DEF Fec!Stages
  <2> QED BY <2>2, <2>3, <2>4
<1> QED BY <1>3, <1>4, <1>6, <1>7

\* The flushes in the middle of a stage and after the candidates.
LEMMA FlushFec == FecInv /\ (Fec!FlushMarks \/ Fec!CandidatesEnd) => FecInv'
<1> SUFFICES ASSUME FecInv, Fec!FlushMarks \/ Fec!CandidatesEnd PROVE FecInv'
  OBVIOUS
<1>1. UNCHANGED <<filed, committees, donated, faults, read, orphaned, unlisted>>
      /\ job.pc \in {"candidates", "units"} /\ Fec!Flush
  BY DEF Fec!FlushMarks, Fec!CandidatesEnd, Fec!tables, Fec!At
<1>2. /\ fecMarks' \in FecMarks /\ fecDried \subseteq fecDried'
      /\ fecDried' \subseteq Fec!Stages \X Fec!Committees
      /\ \A c \in fecMarks'.candidates : Listed(c) \/ <<"candidates", c>> \in fecDried'
      /\ \A stage \in {"a", "b"} : \A r \in read :
           r[1] \in fecMarks'[stage] => Accounted(stage, r[2]) \/ <<stage, r[1]>> \in fecDried'
  BY <1>1, FlushKeeps
<1>3. job \in Jobs
  BY FecTypes DEF FecInv
<1>4. /\ job' \in Jobs /\ job'.pc \in {"candidates", "units", "sweep"}
      /\ (job'.pc = "units" <=> job.pc = "units")
      /\ job'.stage = job.stage /\ job'.dry = job.dry /\ job'.todo = job.todo /\ job'.done = job.done
      /\ job'.unit = job.unit /\ job'.unread = job.unread /\ job'.buf = job.buf
      /\ job'.rich = job.rich /\ job'.stubs = job.stubs /\ job'.flat = job.flat
  BY <1>1, <1>3 DEF Fec!FlushMarks, Fec!CandidatesEnd, Fec!At, Jobs
<1>5. Fec!TypeOK'
  BY <1>1, <1>2, <1>4 DEF FecInv, Fec!TypeOK, Jobs, FecMarks
<1>6. \A d \in job.unread : Fec!Unit(d)' = Fec!Unit(d)
  BY <1>4 DEF Fec!Unit
<1>7. JobShape'
  BY <1>1, <1>4, <1>6 DEF FecInv, JobShape, FecSteps
<1>8. ParentsWritten' /\ ReadShape' /\ Fec!BatchAdmissible'
  BY <1>1, <1>4 DEF FecInv, ParentsWritten, ReadShape, Fec!BatchAdmissible, Fec!Admitted, Fec!Kept
<1>9. /\ \A stage, d : Accounted(stage, d)' <=> Accounted(stage, d)
      /\ \A c : Listed(c) \/ <<"candidates", c>> \in fecDried' => Listed(c)'
  BY <1>1, <1>2, <1>4 DEF Accounted, Listed
<1>10. MarksAccounted'
  BY <1>1, <1>2, <1>9 DEF MarksAccounted
<1>11. DoneAccounted'
  BY <1>1, <1>2, <1>4, <1>9 DEF FecInv, DoneAccounted
<1> QED BY <1>5, <1>7, <1>8, <1>10, <1>11 DEF FecInv

\* The state file is written.
LEMMA SaveFec == FecInv /\ Fec!Save => FecInv'
<1> SUFFICES ASSUME FecInv, Fec!Save PROVE FecInv'
  OBVIOUS
<1>1. /\ UNCHANGED <<filed, committees, donated, faults, read, orphaned, unlisted>>
      /\ job.pc = "save" /\ Fec!Flush
      /\ job' = (IF job.stage = "a" THEN Fec!Stage("b") ELSE Fec!Down)
  BY DEF Fec!Save, Fec!tables, Fec!At
<1>2. /\ fecMarks' \in FecMarks /\ fecDried \subseteq fecDried'
      /\ fecDried' \subseteq Fec!Stages \X Fec!Committees
      /\ \A c \in fecMarks'.candidates : Listed(c) \/ <<"candidates", c>> \in fecDried'
      /\ \A stage \in {"a", "b"} : \A r \in read :
           r[1] \in fecMarks'[stage] => Accounted(stage, r[2]) \/ <<stage, r[1]>> \in fecDried'
  BY <1>1, FlushKeeps
<1>3. job \in Jobs /\ job.dry \in BOOLEAN /\ job.stage # "candidates" /\ (~job.dry => job.buf = {})
  BY <1>1, FecTypes DEF FecInv, JobShape, Jobs
<1>4. Resting'
  BY <1>1, <1>3, RestingJobs
<1>5. Fec!TypeOK'
  BY <1>1, <1>2, <1>4 DEF FecInv, Fec!TypeOK, Resting, Jobs, FecMarks
<1>6. ReadShape'
  BY <1>1 DEF FecInv, ReadShape
<1>7. /\ \A stage, d : Accounted(stage, d) => Accounted(stage, d)'
      /\ \A c : Listed(c) \/ <<"candidates", c>> \in fecDried' => Listed(c)'
  BY <1>1, <1>2, <1>3 DEF Accounted, Listed
<1>8. MarksAccounted'
  BY <1>1, <1>2, <1>7 DEF MarksAccounted
<1>9. \A d \in donated' : committees'[d[2]] # "absent" /\ (d[1] # None => committees'[d[1]] # "absent")
  BY <1>1 DEF FecInv, Fec!BatchAdmissible, Fec!Admitted, Fec!Kept
<1> QED BY <1>4, <1>5, <1>6, <1>8, <1>9, FecRests

\* The process dies with its buffers, or the last batch of a stage is refused.
LEMMA LostFec ==
  ASSUME FecInv, Fec!Lost, UNCHANGED <<filed, committees, donated, fecMarks, read, fecDried>>,
         faults' \in 0 .. MaxFaults
  PROVE  FecInv'
<1>1. /\ UNCHANGED <<filed, committees, donated, fecMarks, read, fecDried>> /\ job' = Fec!Down
      /\ orphaned' = orphaned \cup {d \in job.buf : ~job.dry /\ Fec!Unit(d) \in fecMarks[job.stage]}
      /\ unlisted' = unlisted \cup {c \in job.rich : /\ ~job.dry /\ job.stage = "candidates"
                                                     /\ c \in fecMarks.candidates}
  BY DEF Fec!Lost
<1>2. /\ job \in Jobs /\ job.stage \in Fec!Stages
      /\ fecMarks \in FecMarks
      /\ unlisted \subseteq Pccs /\ orphaned \subseteq Fec!Donations /\ job.buf \subseteq Fec!Donations
  BY FecTypes DEF FecInv, Jobs
<1>3. Resting'
  BY <1>1, RestingJobs
<1>4. unlisted' \subseteq Pccs /\ orphaned' \subseteq Fec!Donations
  BY <1>1, <1>2 DEF FecMarks
<1>5. Fec!TypeOK'
  BY <1>1, <1>3, <1>4 DEF FecInv, Fec!TypeOK, Resting, Jobs
<1>6. ReadShape'
  BY <1>1 DEF FecInv, ReadShape
<1>7. MarksAccounted'
  <2>1. \A c \in fecMarks.candidates : Listed(c)'
    BY <1>1 DEF FecInv, MarksAccounted, Listed
  <2>2. ASSUME NEW stage \in {"a", "b"}, NEW r \in read, r[1] \in fecMarks[stage]
        PROVE  Accounted(stage, r[2])' \/ <<stage, r[1]>> \in fecDried
    <3>1. Accounted(stage, r[2]) \/ <<stage, r[1]>> \in fecDried
      BY <2>2 DEF FecInv, MarksAccounted
    <3>2. CASE r[2] \in job.buf /\ job.stage = stage /\ ~job.dry
      <4>1. Fec!Unit(r[2]) = r[1]
        BY <1>2, <2>2, <3>2, MarksOfStage, ReadUnit
      <4> QED BY <1>1, <2>2, <3>2, <4>1 DEF Accounted
    <3> QED BY <1>1, <3>1, <3>2 DEF Accounted
  <2> QED BY <1>1, <2>1, <2>2 DEF MarksAccounted
<1>8. \A d \in donated' : committees'[d[2]] # "absent" /\ (d[1] # None => committees'[d[1]] # "absent")
  BY <1>1 DEF FecInv, Fec!BatchAdmissible, Fec!Admitted, Fec!Kept
<1> QED BY <1>3, <1>5, <1>6, <1>7, <1>8, FecRests

\* The two ways in which that happens, and a refused batch in the middle of a stage.
LEMMA BreakFec == FecInv /\ (Fec!Break \/ Fec!DonationsRefused) => FecInv'
<1> SUFFICES ASSUME FecInv, Fec!Break \/ Fec!DonationsRefused PROVE FecInv'
  OBVIOUS
<1>1. faults \in 0 .. MaxFaults /\ MaxFaults \in Nat
  BY FecTypes DEF FecInv
<1>2. CASE Fec!Break
  BY <1>1, <1>2, LostFec DEF Fec!Break, Fec!Fault, Fec!tables
<1>3. CASE Fec!DonationsRefused /\ Fec!Lost
  BY <1>1, <1>3, LostFec DEF Fec!DonationsRefused, Fec!tables
<1>4. CASE Fec!DonationsRefused /\ ~Fec!Lost
  BY <1>4, EndsFec DEF Fec!DonationsRefused, RefusedInUnit
<1> QED BY <1>2, <1>3, <1>4

\* The FEC publishes a donation.
LEMMA FileFec == ASSUME NEW d \in Fec!Donations PROVE FecInv /\ Fec!File(d) => FecInv'
<1> SUFFICES ASSUME FecInv, Fec!File(d) PROVE FecInv'
  OBVIOUS
<1>1. UNCHANGED <<committees, donated, fecMarks, job, faults, read, orphaned, unlisted, fecDried>>
      /\ filed' = filed \cup {d}
  BY DEF Fec!File, Fec!tables, Fec!history
<1>2. Fec!TypeOK'
  BY <1>1 DEF FecInv, Fec!TypeOK
<1>3. JobShape' /\ ParentsWritten' /\ ReadShape'
  BY <1>1 DEF FecInv, JobShape, ParentsWritten, ReadShape, Fec!Unit, Fec!Kept
<1>4. MarksAccounted' /\ DoneAccounted' /\ Fec!BatchAdmissible'
  BY <1>1
     DEF FecInv, MarksAccounted, DoneAccounted, Accounted, Listed, Fec!BatchAdmissible, Fec!Admitted, Fec!Kept
<1> QED BY <1>2, <1>3, <1>4 DEF FecInv

\* Every step of the FEC stages keeps the invariant.
LEMMA FecStep == FecInv /\ [Fec!Next]_(Fec!vars) => FecInv'
<1> SUFFICES ASSUME FecInv, [Fec!Next]_(Fec!vars) PROVE FecInv'
  OBVIOUS
<1>1. CASE UNCHANGED Fec!vars
  <2>1. UNCHANGED <<filed, committees, donated, fecMarks, job, faults, read, orphaned, unlisted, fecDried>>
    BY <1>1 DEF Fec!vars, Fec!tables, Fec!history
  <2>2. Fec!TypeOK' /\ JobShape' /\ ParentsWritten' /\ ReadShape'
    BY <2>1 DEF FecInv, Fec!TypeOK, JobShape, ParentsWritten, ReadShape, Fec!Unit, Fec!Kept
  <2>3. MarksAccounted' /\ DoneAccounted' /\ Fec!BatchAdmissible'
    BY <2>1
       DEF FecInv, MarksAccounted, DoneAccounted, Accounted, Listed, Fec!BatchAdmissible, Fec!Admitted, Fec!Kept
  <2> QED BY <2>2, <2>3 DEF FecInv
<1>2. CASE Fec!Next
  BY <1>2, StartFec, PlanFec, FlushFec, BreakFec, CandidatesFec, StoreCommitteesFec, OpenUnitFec,
     SkipRowFec, ReadRowFec, FileFec, EndsFec, WritesFec, SaveFec DEF Fec!Next
<1> QED BY <1>1, <1>2

\* The properties of the runs.
LEMMA FecHolds == FecInv => Fec!BatchAdmissible /\ Fec!DoneIsStored
<1> SUFFICES ASSUME FecInv PROVE Fec!DoneIsStored
  BY DEF FecInv
<1>1. \A c \in fecMarks.candidates :
        \/ committees[c] = "row" \/ c \in unlisted \/ <<"candidates", c>> \in fecDried
        \/ job.stage = "candidates" /\ c \in job.rich
  BY DEF FecInv, MarksAccounted, Listed
<1>2. \A stage \in {"a", "b"}, r \in read :
        r[1] \in Fec!Units(stage) \cap fecMarks[stage] =>
          r[2] \in donated \cup orphaned \cup job.buf \/ <<stage, r[1]>> \in fecDried
  BY DEF FecInv, MarksAccounted, Accounted
<1> QED BY <1>1, <1>2 DEF Fec!DoneIsStored

-----------------------------------------------------------------------------
(* The lobbying source. *)

\* Each table is written with the same copies as the one above it.
LdaInv ==
  /\ Lda!TypeOK /\ Lda!ParentsFirst
  /\ ldaJob.buf \subseteq posted /\ ldaJob.unread \subseteq posted
  /\ \A f \in Filings : ldaJob.acts[f] > 0 => f \in ldaJob.buf
  /\ ldaJob.pc \in {"activities", "targets", "lobbyists", "aliases"} => ldaJob.buf \subseteq filings
  /\ ldaJob.pc = "targets" => \A f \in Filings : Lda!Plus(targets[f], ldaJob.acts[f]) <= activities[f]
  /\ ldaJob.pc = "lobbyists" => \A f \in Filings : Lda!Plus(lobbyists[f], ldaJob.acts[f]) <= targets[f]

LdaJobs == [pc : {"down", "read", "filings", "activities", "targets", "lobbyists", "aliases"},
            dry : BOOLEAN, unread : SUBSET Filings, shifted : BOOLEAN,
            buf : SUBSET Filings, acts : [Filings -> Lda!Copies]]

\* The variables by type, and counts that stop at several.
LEMMA LdaTypes ==
  /\ Lda!TypeOK <=>
       /\ posted \subseteq Filings /\ filings \subseteq posted /\ aliases \subseteq filings
       /\ activities \in [Filings -> 0 .. 2]
       /\ targets \in [Filings -> 0 .. 2] /\ lobbyists \in [Filings -> 0 .. 2]
       /\ ldaJob \in LdaJobs /\ ldaBreaks \in 0 .. MaxFaults
  /\ DryRuns \in BOOLEAN /\ MaxFaults \in Nat
  /\ Lda!Down \in LdaJobs /\ Lda!Down.pc = "down" /\ Lda!Down.buf = {} /\ Lda!Down.unread = {}
  /\ \A f \in Filings : Lda!Down.acts[f] = 0
<1>1. Lda!LdaAssumption
  BY ConstantsAssumption
<1>2. Lda!Nothing \in [Filings -> Lda!Copies] /\ \A f \in Filings : Lda!Nothing[f] = 0
  BY DEF Lda!Nothing, Lda!Copies
<1>3. Lda!Down \in LdaJobs /\ Lda!Down.pc = "down" /\ Lda!Down.buf = {} /\ Lda!Down.unread = {}
      /\ Lda!Down.acts = Lda!Nothing
  BY <1>2 DEF Lda!Down, LdaJobs
<1> QED BY <1>1, <1>2, <1>3 DEF Lda!LdaAssumption, Lda!TypeOK, LdaJobs, Lda!Copies

\* The count of copies saturates, and respects the order.
LEMMA Saturates ==
  \A m, n, k \in 0 .. 2 :
    /\ Lda!Plus(m, n) \in 0 .. 2 /\ m <= Lda!Plus(m, n) /\ Lda!Plus(m, 0) = m
    /\ m <= k => Lda!Plus(m, n) <= Lda!Plus(k, n)
    /\ Lda!Plus(m, n) > 0 => m > 0 \/ n > 0
BY DEF Lda!Plus

\* No run and no rows: the invariant holds.
LEMMA LdaBegins == Lda!Init => LdaInv
<1> SUFFICES ASSUME Lda!Init PROVE LdaInv
  OBVIOUS
<1>1. Lda!Nothing \in [Filings -> 0 .. 2] /\ \A f \in Filings : Lda!Nothing[f] = 0
  BY DEF Lda!Nothing
<1>2. Lda!TypeOK
  BY <1>1, LdaTypes DEF Lda!Init
<1>3. Lda!ParentsFirst
  BY <1>1 DEF Lda!Init, Lda!ParentsFirst
<1> QED BY <1>2, <1>3, LdaTypes DEF Lda!Init, LdaInv

\* A job that begins or is over holds nothing.
LEMMA LdaRests ==
  ASSUME LdaInv, ldaJob' \in LdaJobs, ldaJob'.pc \in {"down", "read"}, ldaJob'.buf \subseteq posted',
         ldaJob'.unread \subseteq posted', \A f \in Filings : ldaJob'.acts[f] > 0 => f \in ldaJob'.buf,
         posted' \subseteq Filings, posted \subseteq posted', UNCHANGED <<filings, activities, targets, lobbyists>>,
         aliases' \subseteq filings, ldaBreaks' \in 0 .. MaxFaults
  PROVE  LdaInv'
<1>1. Lda!TypeOK'
  BY DEF LdaInv, Lda!TypeOK, LdaJobs, Lda!Copies
<1>2. Lda!ParentsFirst'
  BY DEF LdaInv, Lda!ParentsFirst
<1> QED BY <1>1, <1>2 DEF LdaInv

\* The steps that only read, and those that begin or end a run.
LEMMA ReadsLda ==
  LdaInv /\ (Lda!Start \/ (\E f \in Filings : Lda!Read(f) \/ Lda!Reappear(f)) \/ Lda!Break \/ Lda!WriteAliases)
    => LdaInv'
<1> SUFFICES ASSUME LdaInv,
                    Lda!Start \/ (\E f \in Filings : Lda!Read(f) \/ Lda!Reappear(f)) \/ Lda!Break
                      \/ Lda!WriteAliases
             PROVE  LdaInv'
  OBVIOUS
<1>1. /\ ldaJob \in LdaJobs /\ posted \subseteq Filings /\ filings \subseteq posted /\ aliases \subseteq filings
      /\ ldaBreaks \in 0 .. MaxFaults /\ MaxFaults \in Nat
      /\ ldaJob.buf \subseteq posted /\ ldaJob.unread \subseteq posted
  BY LdaTypes DEF LdaInv
<1>2. CASE Lda!Start
  <2>1. PICK dry \in {FALSE, DryRuns} :
          ldaJob' = [Lda!Down EXCEPT !.pc = "read", !.dry = dry, !.unread = posted]
    BY <1>2 DEF Lda!Start
  <2>2. ldaJob' \in LdaJobs /\ ldaJob'.pc = "read" /\ ldaJob'.buf = {} /\ ldaJob'.unread = posted
        /\ ldaJob'.acts = Lda!Down.acts
    BY <1>1, <2>1, LdaTypes DEF LdaJobs
  <2> QED BY <1>1, <1>2, <2>2, LdaTypes, LdaRests DEF Lda!Start, Lda!tables
<1>3. ASSUME NEW f \in Filings, Lda!Read(f) \/ Lda!Reappear(f) PROVE LdaInv'
  <2>1. /\ ldaJob.pc = "read" /\ UNCHANGED <<posted, filings, activities, targets, lobbyists, aliases, ldaBreaks>>
        /\ f \in posted
    BY <1>1, <1>3 DEF Lda!Read, Lda!Reappear, Lda!tables, Lda!At
  <2>2. Lda!Take(f) \in LdaJobs /\ Lda!Take(f).pc = "read" /\ Lda!Take(f).unread \subseteq ldaJob.unread
        /\ Lda!Take(f).buf = ldaJob.buf \cup {f}
        /\ \A g \in Filings \ {f} : Lda!Take(f).acts[g] = ldaJob.acts[g]
    <3>1. ldaJob.acts \in [Filings -> 0 .. 2] /\ Lda!Plus(ldaJob.acts[f], 1) \in 0 .. 2
      BY <1>1, Saturates DEF LdaJobs, Lda!Copies
    <3>2. [ldaJob.acts EXCEPT ![f] = Lda!Plus(ldaJob.acts[f], 1)] \in [Filings -> 0 .. 2]
      BY <3>1
    <3>3. Lda!Take(f) = [ldaJob EXCEPT !.unread = @ \ {f}, !.buf = @ \cup {f},
                                       !.acts = [ldaJob.acts EXCEPT ![f] = Lda!Plus(ldaJob.acts[f], 1)]]
      BY <1>1 DEF Lda!Take, LdaJobs
    <3>4. /\ Lda!Take(f).pc = "read" /\ Lda!Take(f).unread = ldaJob.unread \ {f}
          /\ Lda!Take(f).buf = ldaJob.buf \cup {f}
          /\ Lda!Take(f).acts = [ldaJob.acts EXCEPT ![f] = Lda!Plus(ldaJob.acts[f], 1)]
      BY <1>1, <2>1, <3>3 DEF LdaJobs
    <3> DEFINE acts == [ldaJob.acts EXCEPT ![f] = Lda!Plus(ldaJob.acts[f], 1)]
    <3>5. acts \in [Filings -> Lda!Copies]
      BY <3>2 DEF Lda!Copies
    <3>6. Lda!Take(f) = [ldaJob EXCEPT !.unread = @ \ {f}, !.buf = @ \cup {f}, !.acts = acts]
      BY <3>3
    <3> HIDE DEF acts
    <3>7. Lda!Take(f) = [pc |-> ldaJob.pc, dry |-> ldaJob.dry, unread |-> ldaJob.unread \ {f},
                         shifted |-> ldaJob.shifted, buf |-> ldaJob.buf \cup {f}, acts |-> acts]
      BY <1>1, <3>6 DEF LdaJobs
    <3>8. Lda!Take(f) \in LdaJobs
      BY <1>1, <3>5, <3>7 DEF LdaJobs
    <3> QED BY <3>1, <3>4, <3>8
  <2>3. ldaJob' \in LdaJobs /\ ldaJob'.pc = "read" /\ ldaJob'.unread = Lda!Take(f).unread
        /\ ldaJob'.buf = Lda!Take(f).buf /\ ldaJob'.acts = Lda!Take(f).acts
    BY <1>3, <2>2 DEF Lda!Read, Lda!Reappear, LdaJobs
  <2>4. \A g \in Filings : ldaJob'.acts[g] > 0 => g \in ldaJob'.buf
    BY <2>2, <2>3 DEF LdaInv
  <2> QED BY <1>1, <2>1, <2>2, <2>3, <2>4, LdaRests
<1>4. CASE Lda!Break
  BY <1>1, <1>4, LdaTypes, LdaRests DEF Lda!Break, Lda!tables
<1>5. CASE Lda!WriteAliases
  <2>1. aliases' \subseteq filings
    BY <1>1, <1>5 DEF LdaInv, Lda!WriteAliases, Lda!At
  <2> QED BY <1>1, <1>5, <2>1, LdaTypes, LdaRests DEF Lda!WriteAliases
<1> QED BY <1>2, <1>3, <1>4, <1>5

\* The last page of a run.
LEMMA ReadEndLda == LdaInv /\ Lda!ReadEnd => LdaInv'
<1> SUFFICES ASSUME LdaInv, Lda!ReadEnd PROVE LdaInv'
  OBVIOUS
<1>1. /\ ldaJob \in LdaJobs /\ posted \subseteq Filings /\ filings \subseteq posted /\ aliases \subseteq filings
      /\ ldaBreaks \in 0 .. MaxFaults
      /\ UNCHANGED <<posted, filings, activities, targets, lobbyists, aliases, ldaBreaks>>
  BY LdaTypes DEF LdaInv, Lda!ReadEnd, Lda!tables
<1>2. CASE ldaJob.dry
  BY <1>1, <1>2, LdaTypes, LdaRests DEF Lda!ReadEnd
<1>3. CASE ~ldaJob.dry
  <2>1. /\ ldaJob' \in LdaJobs /\ ldaJob'.pc = "filings" /\ ldaJob'.unread = ldaJob.unread
        /\ ldaJob'.buf = ldaJob.buf /\ ldaJob'.acts = ldaJob.acts
    BY <1>1, <1>3 DEF Lda!ReadEnd, LdaJobs
  <2>2. Lda!TypeOK'
    BY <1>1, <2>1 DEF LdaInv, Lda!TypeOK, LdaJobs, Lda!Copies
  <2>3. Lda!ParentsFirst'
    BY <1>1 DEF LdaInv, Lda!ParentsFirst
  <2> QED BY <1>1, <2>1, <2>2, <2>3 DEF LdaInv
<1> QED BY <1>2, <1>3

\* The writes, one table after the other.
LEMMA WritesLda ==
  LdaInv /\ (Lda!WriteFilings \/ Lda!WriteActivities \/ Lda!WriteTargets \/ Lda!WriteLobbyists) => LdaInv'
<1> SUFFICES ASSUME LdaInv,
                    Lda!WriteFilings \/ Lda!WriteActivities \/ Lda!WriteTargets \/ Lda!WriteLobbyists
             PROVE  LdaInv'
  OBVIOUS
<1>1. /\ ldaJob \in LdaJobs /\ posted \subseteq Filings /\ filings \subseteq posted /\ aliases \subseteq filings
      /\ ldaBreaks \in 0 .. MaxFaults /\ ldaJob.buf \subseteq posted
      /\ UNCHANGED <<posted, aliases, ldaBreaks>>
      /\ activities \in [Filings -> 0 .. 2] /\ targets \in [Filings -> 0 .. 2]
      /\ lobbyists \in [Filings -> 0 .. 2] /\ ldaJob.acts \in [Filings -> 0 .. 2]
  BY LdaTypes DEF LdaInv, LdaJobs, Lda!Copies, Lda!WriteFilings, Lda!WriteActivities, Lda!WriteTargets,
     Lda!WriteLobbyists
<1>2. /\ ldaJob' \in LdaJobs /\ ldaJob'.unread = ldaJob.unread
      /\ ldaJob'.buf = ldaJob.buf /\ ldaJob'.acts = ldaJob.acts
  <2>1. \E pc \in {"activities", "targets", "lobbyists", "aliases"} : ldaJob' = [ldaJob EXCEPT !.pc = pc]
    BY DEF Lda!WriteFilings, Lda!WriteActivities, Lda!WriteTargets, Lda!WriteLobbyists
  <2> QED BY <1>1, <2>1 DEF LdaJobs
<1>3. ASSUME NEW table \in [Filings -> 0 .. 2]
      PROVE  /\ Lda!Added(table) \in [Filings -> 0 .. 2]
             /\ \A f \in Filings : Lda!Added(table)[f] = Lda!Plus(table[f], ldaJob.acts[f])
  BY <1>1, Saturates DEF Lda!Added
<1>4. CASE Lda!WriteFilings
  <2>1. /\ ldaJob.pc = "filings" /\ ldaJob'.pc = "activities" /\ filings' = filings \cup ldaJob.buf
        /\ UNCHANGED <<activities, targets, lobbyists>>
    BY <1>1, <1>4 DEF Lda!WriteFilings, Lda!At, LdaJobs
  <2>2. Lda!TypeOK'
    BY <1>1, <1>2, <2>1 DEF LdaInv, Lda!TypeOK, LdaJobs, Lda!Copies
  <2>3. Lda!ParentsFirst'
    BY <2>1 DEF LdaInv, Lda!ParentsFirst
  <2> QED BY <1>1, <1>2, <2>1, <2>2, <2>3 DEF LdaInv
<1>5. CASE Lda!WriteActivities
  <2>1. /\ ldaJob.pc = "activities" /\ ldaJob'.pc = "targets" /\ activities' = Lda!Added(activities)
        /\ UNCHANGED <<filings, targets, lobbyists>> /\ ldaJob.buf \subseteq filings
    BY <1>1, <1>5 DEF LdaInv, Lda!WriteActivities, Lda!At, LdaJobs
  <2>2. \A f \in Filings : /\ activities[f] <= activities'[f]
                           /\ Lda!Plus(targets[f], ldaJob.acts[f]) <= activities'[f]
                           /\ activities'[f] > 0 => activities[f] > 0 \/ ldaJob.acts[f] > 0
    BY <1>1, <1>3, <2>1, Saturates DEF LdaInv, Lda!ParentsFirst
  <2>3. Lda!TypeOK'
    BY <1>1, <1>2, <1>3, <2>1 DEF LdaInv, Lda!TypeOK, LdaJobs, Lda!Copies
  <2>4. activities' \in [Filings -> 0 .. 2]
    BY <1>1, <1>3, <2>1
  <2>5. Lda!ParentsFirst'
    BY <1>1, <2>1, <2>2, <2>4 DEF LdaInv, Lda!ParentsFirst
  <2> QED BY <1>1, <1>2, <2>1, <2>2, <2>3, <2>5 DEF LdaInv
<1>6. CASE Lda!WriteTargets
  <2>1. /\ ldaJob.pc = "targets" /\ ldaJob'.pc = "lobbyists" /\ targets' = Lda!Added(targets)
        /\ UNCHANGED <<filings, activities, lobbyists>> /\ ldaJob.buf \subseteq filings
    BY <1>1, <1>6 DEF LdaInv, Lda!WriteTargets, Lda!At, LdaJobs
  <2>2. \A f \in Filings : /\ targets[f] <= targets'[f] /\ targets'[f] <= activities[f]
                           /\ Lda!Plus(lobbyists[f], ldaJob.acts[f]) <= targets'[f]
    BY <1>1, <1>3, <2>1, Saturates DEF LdaInv, Lda!ParentsFirst
  <2>3. Lda!TypeOK'
    BY <1>1, <1>2, <1>3, <2>1 DEF LdaInv, Lda!TypeOK, LdaJobs, Lda!Copies
  <2>4. targets' \in [Filings -> 0 .. 2]
    BY <1>1, <1>3, <2>1
  <2>5. Lda!ParentsFirst'
    BY <1>1, <2>1, <2>2, <2>4 DEF LdaInv, Lda!ParentsFirst
  <2> QED BY <1>1, <1>2, <2>1, <2>2, <2>3, <2>5 DEF LdaInv
<1>7. CASE Lda!WriteLobbyists
  <2>1. /\ ldaJob.pc = "lobbyists" /\ ldaJob'.pc = "aliases" /\ lobbyists' = Lda!Added(lobbyists)
        /\ UNCHANGED <<filings, activities, targets>> /\ ldaJob.buf \subseteq filings
    BY <1>1, <1>7 DEF LdaInv, Lda!WriteLobbyists, Lda!At, LdaJobs
  <2>2. \A f \in Filings : lobbyists'[f] <= targets[f]
    BY <1>1, <1>3, <2>1 DEF LdaInv
  <2>3. Lda!TypeOK'
    BY <1>1, <1>2, <1>3, <2>1 DEF LdaInv, Lda!TypeOK, LdaJobs, Lda!Copies
  <2>4. Lda!ParentsFirst'
    BY <1>1, <2>1, <2>2 DEF LdaInv, Lda!ParentsFirst
  <2> QED BY <1>1, <1>2, <2>1, <2>3, <2>4 DEF LdaInv
<1> QED BY <1>4, <1>5, <1>6, <1>7

\* The provider lists a filing.
LEMMA PostLda == ASSUME NEW f \in Filings PROVE LdaInv /\ Lda!Post(f) => LdaInv'
<1> SUFFICES ASSUME LdaInv, Lda!Post(f) PROVE LdaInv'
  OBVIOUS
<1>1. /\ ldaJob \in LdaJobs /\ posted' = posted \cup {f}
      /\ UNCHANGED <<filings, activities, targets, lobbyists, aliases, ldaBreaks>>
  BY LdaTypes DEF LdaInv, Lda!Post, Lda!tables
<1>2. /\ ldaJob' \in LdaJobs /\ ldaJob'.pc = ldaJob.pc /\ ldaJob'.unread = ldaJob.unread
      /\ ldaJob'.buf = ldaJob.buf /\ ldaJob'.acts = ldaJob.acts
  <2>1. ldaJob' = ldaJob \/ ldaJob' = [ldaJob EXCEPT !.shifted = TRUE]
    BY DEF Lda!Post
  <2> QED BY <1>1, <2>1 DEF LdaJobs
<1>3. Lda!TypeOK'
  BY <1>1, <1>2 DEF LdaInv, Lda!TypeOK, LdaJobs, Lda!Copies
<1>4. Lda!ParentsFirst'
  BY <1>1 DEF LdaInv, Lda!ParentsFirst
<1> QED BY <1>1, <1>2, <1>3, <1>4 DEF LdaInv

\* Every step of the lobbying source keeps the invariant.
LEMMA LdaStep == LdaInv /\ [Lda!Next]_(Lda!vars) => LdaInv'
<1> SUFFICES ASSUME LdaInv, [Lda!Next]_(Lda!vars) PROVE LdaInv'
  OBVIOUS
<1>1. CASE UNCHANGED Lda!vars
  <2>1. UNCHANGED <<posted, filings, activities, targets, lobbyists, aliases, ldaJob, ldaBreaks>>
    BY <1>1 DEF Lda!vars, Lda!tables
  <2>2. Lda!TypeOK' /\ Lda!ParentsFirst'
    BY <2>1 DEF LdaInv, Lda!TypeOK, Lda!ParentsFirst
  <2> QED BY <2>1, <2>2 DEF LdaInv
<1>2. CASE Lda!Next
  BY <1>2, ReadsLda, ReadEndLda, WritesLda, PostLda DEF Lda!Next, Lda!Proceed
<1> QED BY <1>1, <1>2

-----------------------------------------------------------------------------
(* The client. *)

\* In the second round every key before the present one has been refused, and a copy is no
\* longer behind the provider than it is old.
ApiInv ==
  /\ Api!TypeOK /\ Api!DeferralIsDue /\ Api!AnswerIsRecent
  /\ call.pc = "poolwait" => mode = "pool"
  /\ call.pc = "request" /\ mode = "pool" /\ call.cycle = 1 =>
       \A k \in 1 .. Pool : k < key => k \in call.refused
  /\ \A p \in Api!Pages : /\ cache[p].behind <= cache[p].age
                          /\ cache[p].copy = "absent" => cache[p].age = 0

Cached == [copy : {"absent", "current", "old", "torn"}, age : 0 .. Ttl + 1, behind : 0 .. Ttl + 1]
Calls == [pc : {"idle", "request", "poolwait", "answered", "failed", "deferred"},
          page : Api!Pages, cycle : 0 .. 1, attempt : 0 .. Retries - 1, refused : SUBSET Api!Keys]

\* The variables by type, and the constants.
LEMMA ApiTypes ==
  /\ Api!TypeOK <=>
       /\ mode \in {"pool", "inline"} /\ spent \subseteq Api!Keys
       /\ cache \in [Api!Pages -> Cached] /\ key \in Api!Keys /\ call \in Calls
  /\ Pool \in Nat \ {0} /\ Retries \in Nat \ {0} /\ Ttl \in Nat
  /\ Api!Keys = (IF mode = "pool" THEN 1 .. Pool ELSE {1}) /\ 1 \in Api!Keys
<1>1. Api!ApiAssumption
  BY ConstantsAssumption
<1> QED BY <1>1 DEF Api!ApiAssumption, Api!TypeOK, Cached, Calls, Api!Keys

\* A call that has just begun, or has not.
LEMMA IdleCalls ==
  ASSUME NEW p \in Api!Pages, NEW pc \in {"idle", "request", "answered", "failed"}
  PROVE  [Api!Idle EXCEPT !.page = p, !.pc = pc] \in Calls
<1>1. Api!Idle \in Calls
  BY ApiTypes DEF Api!Idle, Calls, Api!Pages
<1> QED BY <1>1 DEF Calls

\* No call and no copies: the invariant holds.
LEMMA ApiBegins == Api!Init => ApiInv
<1> SUFFICES ASSUME Api!Init PROVE ApiInv
  OBVIOUS
<1>1. Api!Absent \in Cached /\ Api!Absent.behind = 0 /\ Api!Absent.age = 0
  BY ApiTypes DEF Api!Absent, Cached
<1>2. Api!Idle \in Calls /\ Api!Idle.pc = "idle"
  BY ApiTypes DEF Api!Idle, Calls, Api!Pages
<1>3. Api!TypeOK
  BY <1>1, <1>2, ApiTypes DEF Api!Init
<1>4. \A p \in Api!Pages : cache[p].behind <= cache[p].age /\ cache[p].age = 0
  BY <1>1 DEF Api!Init
<1> QED BY <1>2, <1>3, <1>4 DEF Api!Init, ApiInv, Api!DeferralIsDue, Api!AnswerIsRecent, Api!At

\* What the invariant says of the variables one by one.
LEMMA ApiFacts ==
  ASSUME ApiInv
  PROVE  /\ spent \subseteq Api!Keys /\ cache \in [Api!Pages -> Cached] /\ key \in Api!Keys /\ call \in Calls
         /\ \A q \in Api!Pages : /\ cache[q].behind <= cache[q].age
                                 /\ cache[q].copy = "absent" => cache[q].age = 0
<1>1. Api!TypeOK
  BY DEF ApiInv
<1>2. spent \subseteq Api!Keys /\ cache \in [Api!Pages -> Cached] /\ key \in Api!Keys /\ call \in Calls
  BY <1>1, ApiTypes
<1>3. \A q \in Api!Pages : /\ cache[q].behind <= cache[q].age
                           /\ cache[q].copy = "absent" => cache[q].age = 0
  BY DEF ApiInv
<1> QED BY <1>2, <1>3

\* What the invariant needs of a step that is not to defer: the keys that were refused.
LEMMA ApiKeeps ==
  ASSUME ApiInv, UNCHANGED mode, spent' \subseteq Api!Keys, cache' \in [Api!Pages -> Cached],
         key' \in Api!Keys, call' \in Calls,
         \A p \in Api!Pages : /\ cache'[p].behind <= cache'[p].age
                              /\ cache'[p].copy = "absent" => cache'[p].age = 0,
         call'.pc = "poolwait" => mode = "pool",
         call'.pc = "request" /\ mode = "pool" /\ call'.cycle = 1 =>
           \A k \in 1 .. Pool : k < key' => k \in call'.refused,
         call'.pc = "deferred" /\ mode = "pool" => call'.cycle = 1 /\ call'.refused = Api!Keys,
         call'.pc = "answered" => /\ cache'[call'.page].copy \in {"current", "old"}
                                  /\ call'.page = "active" => cache'[call'.page].behind <= Ttl
  PROVE  ApiInv'
<1>1. Api!Keys' = Api!Keys
  BY DEF Api!Keys
<1>2. Api!TypeOK'
  BY <1>1 DEF ApiInv, Api!TypeOK, Cached, Calls
<1>3. Api!DeferralIsDue' /\ Api!AnswerIsRecent'
  BY <1>1 DEF Api!DeferralIsDue, Api!AnswerIsRecent, Api!At
<1>4. \A p \in Api!Pages : (/\ cache[p].behind <= cache[p].age
                            /\ cache[p].copy = "absent" => cache[p].age = 0)'
  OBVIOUS
<1> QED BY <1>2, <1>3, <1>4 DEF ApiInv

\* A page is asked for.
LEMMA CallApi == ASSUME NEW p \in Api!Pages PROVE ApiInv /\ Api!Call(p) => ApiInv'
<1> SUFFICES ASSUME ApiInv, Api!Call(p) PROVE ApiInv'
  OBVIOUS
<1>1. /\ UNCHANGED <<mode, spent, cache, key>>
      /\ call' = [Api!Idle EXCEPT !.page = p,
                                  !.pc = IF ~Api!Fresh(p) THEN "request"
                                         ELSE IF cache[p].copy = "torn" THEN "failed" ELSE "answered"]
  BY DEF Api!Call
<1>2. /\ spent \subseteq Api!Keys /\ cache \in [Api!Pages -> Cached] /\ key \in Api!Keys
      /\ Ttl \in Nat /\ \A q \in Api!Pages : /\ cache[q].behind <= cache[q].age
                                             /\ cache[q].copy = "absent" => cache[q].age = 0
  BY ApiFacts, ApiTypes
<1>3. /\ call' \in Calls /\ call'.page = p /\ call'.cycle = 0
      /\ call'.pc \in {"request", "failed", "answered"}
      /\ call'.pc = "answered" => Api!Fresh(p) /\ cache[p].copy # "torn"
  <2>1. call' \in Calls
    BY <1>1, IdleCalls
  <2> QED BY <1>1, <2>1 DEF Api!Idle
<1>4. cache[p].copy \in {"absent", "current", "old", "torn"} /\ cache[p].age \in 0 .. Ttl + 1
      /\ cache[p].behind \in 0 .. Ttl + 1 /\ cache[p].behind <= cache[p].age
  BY <1>2 DEF Cached
<1>5. call'.pc = "answered" => /\ cache[p].copy \in {"current", "old"}
                               /\ p = "active" => cache[p].behind <= Ttl
  BY <1>2, <1>3, <1>4 DEF Api!Fresh
<1> QED BY <1>1, <1>2, <1>3, <1>5, ApiKeeps

\* A page is stored: as the provider serves it, or torn.
LEMMA StoredApi == ApiInv /\ (Api!Answer \/ Api!DieWriting) => ApiInv'
<1> SUFFICES ASSUME ApiInv, Api!Answer \/ Api!DieWriting PROVE ApiInv'
  OBVIOUS
<1>1. /\ spent \subseteq Api!Keys /\ cache \in [Api!Pages -> Cached] /\ key \in Api!Keys /\ call \in Calls
      /\ 1 \in Api!Keys
      /\ Ttl \in Nat /\ \A q \in Api!Pages : /\ cache[q].behind <= cache[q].age
                                             /\ cache[q].copy = "absent" => cache[q].age = 0
  BY ApiFacts, ApiTypes
<1>2. UNCHANGED <<mode, spent>>
  BY DEF Api!Answer, Api!DieWriting
<1>3. ASSUME NEW copy \in {"current", "torn"}
      PROVE  /\ Api!Stored(copy) \in [Api!Pages -> Cached]
             /\ \A q \in Api!Pages : /\ Api!Stored(copy)[q].behind <= Api!Stored(copy)[q].age
                                     /\ Api!Stored(copy)[q].copy = "absent" => Api!Stored(copy)[q].age = 0
             /\ Api!Stored(copy)[call.page].copy = copy /\ Api!Stored(copy)[call.page].behind = 0
  <2>1. [copy |-> copy, age |-> 0, behind |-> 0] \in Cached /\ call.page \in Api!Pages
    BY <1>1 DEF Cached, Calls
  <2> QED BY <1>1, <2>1 DEF Api!Stored
<1>4. CASE Api!Answer
  <2>1. cache' = Api!Stored("current") /\ call' = [call EXCEPT !.pc = "answered"] /\ key' = key
    BY <1>4 DEF Api!Answer
  <2>2. call' \in Calls /\ call'.pc = "answered" /\ call'.page = call.page
    BY <1>1, <2>1 DEF Calls
  <2> QED BY <1>1, <1>2, <1>3, <2>1, <2>2, ApiKeeps
<1>5. CASE Api!DieWriting
  <2>1. cache' = Api!Stored("torn") /\ call' = Api!Idle /\ key' = 1
    BY <1>5 DEF Api!DieWriting
  <2>2. call' \in Calls /\ call'.pc = "idle"
    BY <2>1, ApiTypes DEF Api!Idle, Calls, Api!Pages
  <2> QED BY <1>1, <1>2, <1>3, <2>1, <2>2, ApiKeeps
<1> QED BY <1>4, <1>5

\* The requests that fail, and the single key that waits.
LEMMA RetriesApi == ApiInv /\ (Api!ServerFails \/ Api!RefusedInline) => ApiInv'
<1> SUFFICES ASSUME ApiInv, Api!ServerFails \/ Api!RefusedInline PROVE ApiInv'
  OBVIOUS
<1>1. /\ spent \subseteq Api!Keys /\ cache \in [Api!Pages -> Cached] /\ key \in Api!Keys /\ call \in Calls
      /\ Retries \in Nat \ {0} /\ \A q \in Api!Pages : /\ cache[q].behind <= cache[q].age
                                                       /\ cache[q].copy = "absent" => cache[q].age = 0
  BY ApiFacts, ApiTypes
<1>2. /\ UNCHANGED <<mode, spent, cache, key>> /\ call.pc = "request"
      /\ Api!Retry \/ (mode = "inline" /\ call' = [call EXCEPT !.pc = "deferred"])
  BY DEF Api!ServerFails, Api!RefusedInline, Api!At
<1>3. /\ call' \in Calls /\ call'.pc \in {"request", "failed", "deferred"}
      /\ call'.cycle = call.cycle /\ call'.refused = call.refused
      /\ call'.pc = "deferred" => mode = "inline"
  <2>1. CASE Api!Retry
    <3>1. call.attempt \in 0 .. Retries - 1
      BY <1>1 DEF Calls
    <3>2. CASE call.attempt + 1 = Retries
      BY <1>1, <2>1, <3>2 DEF Api!Retry, Calls
    <3>3. CASE call.attempt + 1 # Retries
      <4>1. call.attempt + 1 \in 0 .. Retries - 1
        BY <1>1, <3>1, <3>3
      <4> QED BY <1>1, <1>2, <2>1, <3>3, <4>1 DEF Api!Retry, Calls
    <3> QED BY <3>2, <3>3
  <2>2. CASE mode = "inline" /\ call' = [call EXCEPT !.pc = "deferred"]
    BY <1>1, <2>2 DEF Calls
  <2> QED BY <1>2, <2>1, <2>2
<1>4. mode = "pool" /\ call.cycle = 1 => \A k \in 1 .. Pool : k < key => k \in call.refused
  BY <1>2 DEF ApiInv
<1> QED BY <1>1, <1>2, <1>3, <1>4, ApiKeeps

\* A key is refused: the next one, the pool's wait, or the deferral.
LEMMA RefusedApi == ApiInv /\ Api!Refused => ApiInv'
<1> SUFFICES ASSUME ApiInv, Api!Refused PROVE ApiInv'
  OBVIOUS
<1>1. /\ spent \subseteq Api!Keys /\ cache \in [Api!Pages -> Cached] /\ key \in Api!Keys /\ call \in Calls
      /\ Retries \in Nat \ {0} /\ Pool \in Nat \ {0}
      /\ \A q \in Api!Pages : /\ cache[q].behind <= cache[q].age
                              /\ cache[q].copy = "absent" => cache[q].age = 0
  BY ApiFacts, ApiTypes
<1>2. /\ UNCHANGED <<mode, spent, cache>> /\ call.pc = "request" /\ mode = "pool"
      /\ call' = [call EXCEPT !.refused = @ \cup {key}, !.attempt = 0,
                              !.pc = IF Api!LastKey THEN Api!PoolOver ELSE "request"]
      /\ key' = IF Api!LastKey THEN key ELSE key + 1
  BY DEF Api!Refused, Api!At
<1>3. Api!Keys = 1 .. Pool /\ key \in 1 .. Pool /\ call.refused \subseteq 1 .. Pool
      /\ call.cycle \in 0 .. 1
  BY <1>1, <1>2 DEF Api!Keys, Calls
<1>4. key' \in 1 .. Pool
  BY <1>1, <1>2, <1>3 DEF Api!LastKey
<1>5. Api!PoolOver \in {"poolwait", "deferred"} /\ (Api!PoolOver = "deferred" => call.cycle = 1)
  BY <1>3 DEF Api!PoolOver
<1>6. /\ call' \in Calls /\ call'.refused = call.refused \cup {key} /\ call'.cycle = call.cycle
      /\ call'.pc = (IF Api!LastKey THEN Api!PoolOver ELSE "request")
  <2>1. 0 \in 0 .. Retries - 1
    BY <1>1
  <2> QED BY <1>1, <1>2, <1>3, <1>5, <2>1 DEF Calls
<1>7. call.cycle = 1 => \A k \in 1 .. Pool : k < key => k \in call.refused
  BY <1>2 DEF ApiInv
<1>8. call'.pc = "request" /\ call'.cycle = 1 => \A k \in 1 .. Pool : k < key' => k \in call'.refused
  <2> SUFFICES ASSUME call'.pc = "request", call'.cycle = 1, NEW k \in 1 .. Pool, k < key'
               PROVE  k \in call'.refused
    OBVIOUS
  <2>1. key' = key + 1
    BY <1>2, <1>5, <1>6 DEF Api!LastKey
  <2>2. k < key \/ k = key
    BY <1>3, <2>1
  <2> QED BY <1>6, <1>7, <2>2
<1>9. call'.pc = "deferred" => call'.cycle = 1 /\ call'.refused = 1 .. Pool
  <2> HAVE call'.pc = "deferred"
  <2>1. key = Pool /\ call.cycle = 1
    BY <1>5, <1>6 DEF Api!LastKey
  <2>2. \A k \in 1 .. Pool : k < key \/ k = key
    BY <1>1, <2>1
  <2>3. 1 .. Pool \subseteq call.refused \cup {key}
    BY <1>7, <2>1, <2>2
  <2> QED BY <1>3, <1>6, <2>1, <2>3
<1>10. call'.pc # "answered"
  BY <1>5, <1>6
<1> QED BY <1>1, <1>2, <1>3, <1>4, <1>6, <1>8, <1>9, <1>10, ApiKeeps

\* A page that gets older does not fall behind faster.
LEMMA AgedPages ==
  ASSUME NEW page \in Cached, page.behind <= page.age, page.copy = "absent" => page.age = 0
  PROVE  /\ Api!Aged(page) \in Cached /\ Api!Aged(page).behind <= Api!Aged(page).age
         /\ Api!Aged(page).copy = "absent" => Api!Aged(page).age = 0
<1> DEFINE older == Api!Aged(page)
<1>1. /\ page.age \in 0 .. Ttl + 1 /\ page.behind \in 0 .. Ttl + 1 /\ Ttl \in Nat
      /\ page.copy \in {"absent", "current", "old", "torn"}
  BY ApiTypes DEF Cached
<1>2. \A m, n \in 0 .. Ttl + 1 : /\ Api!Older(n) \in 0 .. Ttl + 1
                                 /\ m <= n => m <= Api!Older(n) /\ Api!Older(m) <= Api!Older(n)
  BY <1>1 DEF Api!Older
<1>3. /\ older.age = (IF page.copy = "absent" THEN 0 ELSE Api!Older(page.age))
      /\ older.behind = (IF page.copy = "old" THEN Api!Older(page.behind) ELSE page.behind)
      /\ older.copy = page.copy
  BY DEF Api!Aged, Cached
<1>4. older.age \in 0 .. Ttl + 1 /\ older.behind \in 0 .. Ttl + 1 /\ older.behind <= older.age
  BY <1>1, <1>2, <1>3
<1>5. older \in Cached
  BY <1>1, <1>2 DEF Api!Aged, Cached
<1> QED BY <1>3, <1>4, <1>5

\* A unit of time ages the copies and gives the spent keys their allowance back.
LEMMA TickApi == ApiInv /\ Api!Tick => ApiInv'
<1> SUFFICES ASSUME ApiInv, Api!Tick PROVE ApiInv'
  OBVIOUS
<1>1. /\ spent \subseteq Api!Keys /\ cache \in [Api!Pages -> Cached] /\ key \in Api!Keys /\ call \in Calls
  BY ApiFacts, ApiTypes
<1>6. /\ 1 \in Api!Keys /\ Ttl \in Nat
      /\ \A q \in Api!Pages : /\ cache[q].behind <= cache[q].age
                              /\ cache[q].copy = "absent" => cache[q].age = 0
  BY ApiFacts, ApiTypes
<1>2. /\ cache' = [p \in Api!Pages |-> Api!Aged(cache[p])] /\ spent' \subseteq Api!Keys /\ mode' = mode
      /\ \/ key' = 1 /\ call' = [call EXCEPT !.pc = "request", !.cycle = 1, !.refused = {}]
         \/ key' = key /\ call' = Api!Idle
  BY <1>1 DEF Api!Tick, Api!Again
<1>3. /\ cache' \in [Api!Pages -> Cached] /\ key' \in Api!Keys
      /\ \A q \in Api!Pages : /\ cache'[q].behind <= cache'[q].age
                              /\ cache'[q].copy = "absent" => cache'[q].age = 0
  BY <1>1, <1>2, <1>6, AgedPages
<1>4. CASE key' = 1 /\ call' = [call EXCEPT !.pc = "request", !.cycle = 1, !.refused = {}]
  <2>1. call' \in Calls /\ call'.pc = "request"
    <3>1. 1 \in 0 .. 1
      OBVIOUS
    <3> QED BY <1>1, <1>4, <3>1 DEF Calls
  <2>2. \A k \in 1 .. Pool : ~(k < key')
    BY <1>4, ApiTypes
  <2> QED BY <1>2, <1>3, <2>1, <2>2, ApiKeeps
<1>5. CASE key' = key /\ call' = Api!Idle
  <2>1. call' \in Calls /\ call'.pc = "idle"
    BY <1>5, ApiTypes DEF Api!Idle, Calls, Api!Pages
  <2> QED BY <1>2, <1>3, <2>1, ApiKeeps
<1> QED BY <1>2, <1>4, <1>5

\* What the provider and other processes do.
LEMMA OthersApi ==
  ApiInv /\ ((\E p \in Api!Pages : Api!Revise(p)) \/ Api!Restart \/ \E k \in Api!Keys : Api!Spend(k)) => ApiInv'
<1> SUFFICES ASSUME ApiInv,
                    (\E p \in Api!Pages : Api!Revise(p)) \/ Api!Restart \/ \E k \in Api!Keys : Api!Spend(k)
             PROVE  ApiInv'
  OBVIOUS
<1>1. /\ spent \subseteq Api!Keys /\ cache \in [Api!Pages -> Cached] /\ key \in Api!Keys /\ call \in Calls
      /\ 1 \in Api!Keys /\ Ttl \in Nat
      /\ \A q \in Api!Pages : /\ cache[q].behind <= cache[q].age
                              /\ cache[q].copy = "absent" => cache[q].age = 0
  BY ApiFacts, ApiTypes
<1>2. Api!Idle \in Calls /\ Api!Idle.pc = "idle"
  BY ApiTypes DEF Api!Idle, Calls, Api!Pages
<1>3. ASSUME NEW p \in Api!Pages, Api!Revise(p) PROVE ApiInv'
  <2>1. /\ UNCHANGED <<mode, spent, key>> /\ call' = Api!Idle
        /\ cache' = [cache EXCEPT ![p].copy = "old", ![p].behind = 0]
    BY <1>3 DEF Api!Revise
  <2> DEFINE page == [cache[p] EXCEPT !.copy = "old", !.behind = 0]
  <2>2. page \in Cached /\ page.copy = "old" /\ page.behind = 0 /\ page.age = cache[p].age
        /\ page.age \in 0 .. Ttl + 1
    <3>1. cache[p] \in Cached /\ 0 \in 0 .. Ttl + 1
      BY <1>1, ApiTypes
    <3> QED BY <3>1 DEF Cached
  <2>3. cache' = [cache EXCEPT ![p] = page]
    BY <1>1, <2>1 DEF Cached
  <2> HIDE DEF page
  <2>4. cache' \in [Api!Pages -> Cached]
        /\ \A q \in Api!Pages : cache'[q] = IF q = p THEN page ELSE cache[q]
    BY <1>1, <2>2, <2>3
  <2>5. \A q \in Api!Pages : /\ cache'[q].behind <= cache'[q].age
                             /\ cache'[q].copy = "absent" => cache'[q].age = 0
    BY <1>1, <2>2, <2>4
  <2> QED BY <1>1, <1>2, <2>1, <2>4, <2>5, ApiKeeps
<1>4. CASE Api!Restart
  BY <1>1, <1>2, <1>4, ApiKeeps DEF Api!Restart
<1>5. ASSUME NEW k \in Api!Keys, Api!Spend(k) PROVE ApiInv'
  <2>1. UNCHANGED <<mode, cache, key, call>> /\ spent' \subseteq Api!Keys
    BY <1>1, <1>5 DEF Api!Spend
  <2> QED BY <1>1, <2>1, ApiKeeps DEF ApiInv, Api!DeferralIsDue, Api!AnswerIsRecent, Api!At
<1> QED BY <1>3, <1>4, <1>5

\* Every step of the client keeps the invariant.
LEMMA ApiStep == ApiInv /\ [Api!Next]_(Api!vars) => ApiInv'
<1> SUFFICES ASSUME ApiInv, [Api!Next]_(Api!vars) PROVE ApiInv'
  OBVIOUS
<1>1. CASE UNCHANGED Api!vars
  <2>1. UNCHANGED <<mode, spent, cache, key, call>>
    BY <1>1 DEF Api!vars
  <2>2. Api!Keys' = Api!Keys
    BY <2>1 DEF Api!Keys
  <2> QED BY <2>1, <2>2 DEF ApiInv, Api!TypeOK, Api!DeferralIsDue, Api!AnswerIsRecent, Api!At
<1>2. CASE Api!Next
  BY <1>2, CallApi, StoredApi, RetriesApi, RefusedApi, TickApi, OthersApi DEF Api!Next
<1> QED BY <1>1, <1>2

-----------------------------------------------------------------------------
(* The token. *)

\* The request the agent waits for, by the step of the agent.
Waiting ==
  /\ agent \notin {"wait", "write", "remove"} => req["live"].pc = "idle"
  /\ agent = "write" => req["live"].pc = "valid" /\ files["token"] = req["live"].rec.access
  /\ agent # "asleep" => timer = 0
  /\ req["live"].pc = "granted" => req["live"].rec.access = Life
  /\ req["live"].pc = "valid" => req["live"].rec.access > Window

\* Unless a put brought an older record back, the record outlives the answer, and the answer
\* what the files hold; the token file is never older than its expiry.
NeverOlder ==
  ~regressed =>
    /\ files["expiry"] <= kv.access
    /\ req["live"].pc \in {"refreshing", "granted", "valid"} => files["expiry"] <= req["live"].rec.access
    /\ req["live"].pc = "valid" => req["live"].rec.access <= kv.access
    /\ files["token"] # Tokens!Absent => files["expiry"] <= files["token"]

\* A request that refreshes the token of an older login was overtaken by a login.
Overtaken ==
  \A i \in Tokens!Requests :
    req[i].pc \in {"refreshing", "granted"} => req[i].rec.latest \/ raced

\* While nothing fails nothing is refused, and the token outlives the agent's sleep.
Served ==
  /\ calm => kv.valid /\ \A i \in Tokens!Requests :
       req[i].pc # "refused" /\ (req[i].pc \in {"refreshing", "granted"} => req[i].rec.valid)
  /\ settled => /\ calm /\ agent \notin {"down", "unexpire", "remove"}
                /\ files["token"] # Tokens!Absent /\ files["expiry"] > timer

TokensInv == Tokens!TypeOK /\ Waiting /\ NeverOlder /\ Overtaken /\ Served /\ Tokens!LoginKept

Reqs == [pc : {"idle", "asked", "refreshing", "granted", "valid", "refused"}, rec : Tokens!Records]

\* The constants, and the records a request starts with.
LEMMA TokenTimes ==
  /\ Life \in Nat /\ Window \in Nat /\ Interval \in Nat
  /\ 0 < Interval /\ Interval < Window /\ Window < Life
  /\ Tokens!Nothing \in Tokens!Records /\ Tokens!Nothing.latest = TRUE
  /\ Tokens!Idle \in Reqs /\ Tokens!Idle.pc = "idle"
<1>1. /\ Life \in Nat /\ Window \in Nat /\ Interval \in Nat
      /\ 0 < Interval /\ Interval < Window /\ Window < Life
  BY ConstantsAssumption DEF Tokens!TimesAssumption
<1>2. Tokens!Nothing \in Tokens!Records /\ Tokens!Nothing.latest = TRUE
  BY <1>1 DEF Tokens!Nothing, Tokens!Records
<1> QED BY <1>1, <1>2 DEF Tokens!Idle, Reqs

\* The variables one by one.
LEMMA TokenFacts ==
  ASSUME TokensInv
  PROVE  /\ kv \in Tokens!Records /\ kv.access \in 0 .. Life
         /\ req \in [Tokens!Requests -> Reqs]
         /\ \A i \in Tokens!Requests : req[i] \in Reqs /\ req[i].rec \in Tokens!Records
         /\ Tokens!Requests = {"live", "late"} /\ req["live"].rec.access \in 0 .. Life
         /\ agent \in {"down", "expire", "unexpire", "ask", "wait", "write", "remove", "asleep"}
         /\ timer \in 0 .. Interval + 1
         /\ files \in [{"token", "expiry"} -> -1 .. Life]
         /\ files["token"] \in -1 .. Life /\ files["expiry"] \in -1 .. Life
         /\ calm \in BOOLEAN /\ settled \in BOOLEAN /\ raced \in BOOLEAN /\ regressed \in BOOLEAN
<1>1. Tokens!TypeOK
  BY DEF TokensInv
<1>2. /\ kv \in Tokens!Records /\ req \in [Tokens!Requests -> Reqs]
      /\ agent \in {"down", "expire", "unexpire", "ask", "wait", "write", "remove", "asleep"}
      /\ timer \in 0 .. Interval + 1
      /\ calm \in BOOLEAN /\ settled \in BOOLEAN /\ raced \in BOOLEAN /\ regressed \in BOOLEAN
  BY <1>1 DEF Tokens!TypeOK, Reqs
<1>3. files \in [{"token", "expiry"} -> -1 .. Life]
  BY <1>1 DEF Tokens!TypeOK, Tokens!Absent
<1>4. Tokens!Requests = {"live", "late"}
  BY DEF Tokens!Requests
<1>5. \A i \in Tokens!Requests : req[i] \in Reqs /\ req[i].rec \in Tokens!Records
  BY <1>2 DEF Reqs
<1>6. req["live"].rec.access \in 0 .. Life /\ kv.access \in 0 .. Life
  BY <1>2, <1>4, <1>5 DEF Tokens!Records
<1> QED BY <1>2, <1>3, <1>4, <1>5, <1>6

\* The parts of the invariant after a step.
LEMMA TokensKeep ==
  ASSUME kv' \in Tokens!Records, req' \in [Tokens!Requests -> Reqs],
         agent' \in {"down", "expire", "unexpire", "ask", "wait", "write", "remove", "asleep"},
         timer' \in 0 .. Interval + 1, files' \in [{"token", "expiry"} -> -1 .. Life],
         calm' \in BOOLEAN, settled' \in BOOLEAN, raced' \in BOOLEAN, regressed' \in BOOLEAN,
         Waiting', NeverOlder', Overtaken', Served', Tokens!LoginKept'
  PROVE  TokensInv'
BY DEF TokensInv, Tokens!TypeOK, Reqs, Tokens!Absent

\* No record, no files: the invariant holds.
LEMMA TokensBegin == Tokens!Init => TokensInv
<1> SUFFICES ASSUME Tokens!Init PROVE TokensInv
  OBVIOUS
<1>1. /\ kv = Tokens!Nothing /\ req = [i \in Tokens!Requests |-> Tokens!Idle]
      /\ agent = "down" /\ timer = 0 /\ files = [f \in {"token", "expiry"} |-> -1]
      /\ calm = FALSE /\ settled = FALSE /\ raced = FALSE /\ regressed = FALSE
  BY DEF Tokens!Init, Tokens!Absent
<1>2. Tokens!TypeOK
  <2>1. kv \in Tokens!Records /\ req \in [Tokens!Requests -> Reqs]
    BY <1>1, TokenTimes
  <2>2. files \in [{"token", "expiry"} -> -1 .. Life] /\ timer \in 0 .. Interval + 1
    BY <1>1, TokenTimes
  <2> QED BY <1>1, <2>1, <2>2 DEF Tokens!TypeOK, Reqs, Tokens!Absent
<1>3. \A i \in Tokens!Requests : req[i].pc = "idle"
  BY <1>1, TokenTimes
<1>4. Waiting /\ Overtaken /\ Served /\ Tokens!LoginKept
  BY <1>1, <1>3, TokenTimes DEF Waiting, Overtaken, Served, Tokens!LoginKept, Tokens!Requests
<1>5. NeverOlder
  BY <1>1, <1>3, TokenTimes DEF NeverOlder, Tokens!Nothing, Tokens!Requests, Tokens!Absent
<1> QED BY <1>2, <1>4, <1>5 DEF TokensInv

\* A request reads the record, and is refused, answered, or goes on to refresh it.
LEMMA ReadRecordTokens ==
  ASSUME NEW i \in Tokens!Requests
  PROVE  TokensInv /\ Tokens!ReadRecord(i) => TokensInv'
<1> SUFFICES ASSUME TokensInv, Tokens!ReadRecord(i) PROVE TokensInv'
  OBVIOUS
<1> DEFINE new == IF ~kv.valid THEN [pc |-> "refused", rec |-> Tokens!Nothing]
                  ELSE IF Tokens!RefreshDue(kv) THEN [pc |-> "refreshing", rec |-> kv]
                  ELSE [pc |-> "valid", rec |-> kv]
<1>1. /\ req[i].pc = "asked" /\ req' = [req EXCEPT ![i] = new]
      /\ UNCHANGED <<kv, agent, timer, files, calm, settled, raced, regressed>>
  BY DEF Tokens!ReadRecord, Tokens!known
<1>2. new \in Reqs /\ new.pc \in {"refused", "refreshing", "valid"}
      /\ (new.pc = "refused" => ~kv.valid)
      /\ (new.pc # "refused" => kv.valid /\ new.rec = kv)
      /\ (new.pc = "valid" => kv.access > Window)
  BY TokenFacts, TokenTimes DEF Reqs, Tokens!RefreshDue
<1> HIDE DEF new
<1>3. req' \in [Tokens!Requests -> Reqs] /\ req'[i] = new
      /\ \A j \in Tokens!Requests \ {i} : req'[j] = req[j]
  BY <1>1, <1>2, TokenFacts
<1>4. Tokens!LoginKept /\ Waiting /\ NeverOlder /\ Overtaken /\ Served
  BY DEF TokensInv
<1>5. Waiting'
  BY <1>1, <1>2, <1>3, <1>4, TokenFacts DEF Waiting
<1>6. NeverOlder'
  BY <1>1, <1>2, <1>3, <1>4, TokenFacts DEF NeverOlder
<1>7. Overtaken'
  BY <1>1, <1>2, <1>3, <1>4, TokenFacts DEF Overtaken, Tokens!LoginKept
<1>8. Served'
  BY <1>1, <1>2, <1>3, <1>4, TokenFacts DEF Served
<1> QED BY <1>1, <1>3, <1>4, <1>5, <1>6, <1>7, <1>8, TokenFacts, TokensKeep DEF Tokens!LoginKept

\* The grant, and a refusal in the place of one.
LEMMA RefreshTokens ==
  ASSUME NEW i \in Tokens!Requests
  PROVE  TokensInv /\ (Tokens!Refresh(i) \/ Tokens!RefreshRefused(i)) => TokensInv'
<1> SUFFICES ASSUME TokensInv, Tokens!Refresh(i) \/ Tokens!RefreshRefused(i) PROVE TokensInv'
  OBVIOUS
<1>1. /\ req[i].pc \in {"refreshing", "granted"}
      /\ UNCHANGED <<kv, agent, timer, files, calm, settled, raced, regressed>>
  BY DEF Tokens!Refresh, Tokens!RefreshRefused, Tokens!known
<1>2. Tokens!LoginKept /\ Waiting /\ NeverOlder /\ Overtaken /\ Served
  BY DEF TokensInv
<1>3. PICK new \in Reqs :
        /\ req' = [req EXCEPT ![i] = new]
        /\ \/ ~calm /\ new.pc = "refused"
           \/ /\ new.pc = "granted" /\ new.rec.access = Life /\ new.rec.latest = req[i].rec.latest
              /\ new.rec.valid = req[i].rec.valid
  <2>1. CASE Tokens!Refresh(i)
    <3> DEFINE rec == [req[i].rec EXCEPT !.access = Life]
    <3>1. rec \in Tokens!Records /\ rec.access = Life /\ rec.latest = req[i].rec.latest
          /\ rec.valid = req[i].rec.valid
      BY TokenFacts, TokenTimes DEF Tokens!Records
    <3> DEFINE new == [pc |-> "granted", rec |-> rec]
    <3>2. req' = [req EXCEPT ![i] = new]
      BY <2>1 DEF Tokens!Refresh
    <3>3. new \in Reqs /\ new.pc = "granted" /\ new.rec = rec
      BY <3>1 DEF Reqs
    <3> HIDE DEF rec, new
    <3> QED BY <3>1, <3>2, <3>3
  <2>2. CASE Tokens!RefreshRefused(i)
    <3> DEFINE new == [pc |-> "refused", rec |-> Tokens!Nothing]
    <3>1. new \in Reqs /\ new.pc = "refused"
      BY TokenTimes DEF Reqs
    <3>2. req' = [req EXCEPT ![i] = new] /\ ~calm
      BY <2>2 DEF Tokens!RefreshRefused
    <3> HIDE DEF new
    <3> QED BY <3>1, <3>2
  <2> QED BY <2>1, <2>2
<1>4. req' \in [Tokens!Requests -> Reqs] /\ req'[i] = new
      /\ \A j \in Tokens!Requests \ {i} : req'[j] = req[j]
  BY <1>3, TokenFacts
<1>5. Waiting'
  BY <1>1, <1>2, <1>3, <1>4, TokenFacts DEF Waiting
<1>6. NeverOlder'
  BY <1>1, <1>2, <1>3, <1>4, TokenFacts DEF NeverOlder
<1>7. Overtaken'
  BY <1>1, <1>2, <1>3, <1>4 DEF Overtaken
<1>8. Served'
  BY <1>1, <1>2, <1>3, <1>4 DEF Served
<1> QED BY <1>1, <1>2, <1>4, <1>5, <1>6, <1>7, <1>8, TokenFacts, TokensKeep DEF Tokens!LoginKept

\* The put of the refreshed record.
LEMMA StoreTokens ==
  ASSUME NEW i \in Tokens!Requests
  PROVE  TokensInv /\ Tokens!StoreRefreshed(i) => TokensInv'
<1> SUFFICES ASSUME TokensInv, Tokens!StoreRefreshed(i) PROVE TokensInv'
  OBVIOUS
<1>1. /\ req[i].pc = "granted" /\ req' = [req EXCEPT ![i].pc = "valid"] /\ kv' = req[i].rec
      /\ regressed' = (regressed \/ req[i].rec.access < kv.access)
      /\ UNCHANGED <<agent, timer, files, calm, settled, raced>>
  BY DEF Tokens!StoreRefreshed, Tokens!Put
<1>2. Tokens!LoginKept /\ Waiting /\ NeverOlder /\ Overtaken /\ Served
  BY DEF TokensInv
<1>3. /\ req' \in [Tokens!Requests -> Reqs] /\ req'[i].pc = "valid" /\ req'[i].rec = req[i].rec
      /\ \A j \in Tokens!Requests \ {i} : req'[j] = req[j]
  BY <1>1, TokenFacts DEF Reqs
<1>4. kv' \in Tokens!Records /\ kv'.access \in 0 .. Life
  BY <1>1, TokenFacts DEF Tokens!Records
<1>5. Waiting'
  BY <1>1, <1>2, <1>3, TokenFacts, TokenTimes DEF Waiting
<1>6. NeverOlder'
  <2> SUFFICES ASSUME ~regressed' PROVE NeverOlder'
    BY DEF NeverOlder
  <2>a. ~regressed /\ ~(req[i].rec.access < kv.access)
    BY <1>1
  <2>b. kv'.access = req[i].rec.access /\ kv'.access \in 0 .. Life /\ kv.access \in 0 .. Life
    BY <1>1, <1>4, TokenFacts
  <2>1. ~regressed /\ kv.access <= kv'.access /\ kv'.access = req[i].rec.access
    BY <2>a, <2>b, TokenTimes
  <2>2. files["expiry"] <= kv'.access
    BY <1>2, <1>4, <2>1, TokenFacts DEF NeverOlder
  <2>3. req'["live"].pc = "valid" => req'["live"].rec.access <= kv'.access
    <3>1. CASE i = "live"
      BY <3>1, <1>3, <1>4, <2>1
    <3>2. CASE i # "live"
      BY <3>2, <1>2, <1>3, <1>4, <2>1, TokenFacts DEF NeverOlder
    <3> QED BY <3>1, <3>2
  <2>4. req'["live"].pc \in {"refreshing", "granted", "valid"} => files["expiry"] <= req'["live"].rec.access
    <3>1. CASE i = "live"
      BY <3>1, <1>1, <1>2, <1>3, <2>1 DEF NeverOlder
    <3>2. CASE i # "live"
      BY <3>2, <1>2, <1>3, <2>1, TokenFacts DEF NeverOlder
    <3> QED BY <3>1, <3>2
  <2> QED BY <1>1, <1>2, <2>1, <2>2, <2>3, <2>4 DEF NeverOlder
<1>7. Overtaken' /\ Tokens!LoginKept'
  BY <1>1, <1>2, <1>3 DEF Overtaken, Tokens!LoginKept
<1>8. Served'
  BY <1>1, <1>2, <1>3 DEF Served
<1> QED BY <1>1, <1>3, <1>4, <1>5, <1>6, <1>7, <1>8, TokenFacts, TokensKeep

\* A login replaces the record, whatever requests are under way.
LEMMA LoginTokens == TokensInv /\ Tokens!Login => TokensInv'
<1> SUFFICES ASSUME TokensInv, Tokens!Login PROVE TokensInv'
  OBVIOUS
<1>1. /\ kv' = [access |-> Life, valid |-> TRUE, latest |-> TRUE]
      /\ req' = [i \in Tokens!Requests |->
                   IF req[i].pc \in {"idle", "asked", "refused"} THEN req[i]
                   ELSE [req[i] EXCEPT !.rec.latest = FALSE]]
      /\ raced' = (raced \/ \E i \in Tokens!Requests : req[i].pc \in {"refreshing", "granted"})
      /\ UNCHANGED <<agent, timer, files, calm, settled, regressed>>
  BY DEF Tokens!Login
<1>2. Tokens!LoginKept /\ Waiting /\ NeverOlder /\ Overtaken /\ Served
  BY DEF TokensInv
<1>3. kv' \in Tokens!Records /\ kv'.access = Life /\ kv'.valid = TRUE /\ kv'.latest = TRUE
  BY <1>1, TokenTimes DEF Tokens!Records
<1>4. \A i \in Tokens!Requests :
        /\ req'[i] \in Reqs /\ req'[i].pc = req[i].pc
        /\ req'[i].rec.access = req[i].rec.access /\ req'[i].rec.valid = req[i].rec.valid
  <2> SUFFICES ASSUME NEW i \in Tokens!Requests
               PROVE  /\ req'[i] \in Reqs /\ req'[i].pc = req[i].pc
                      /\ req'[i].rec.access = req[i].rec.access /\ req'[i].rec.valid = req[i].rec.valid
    OBVIOUS
  <2>1. CASE req[i].pc \in {"idle", "asked", "refused"}
    BY <1>1, <2>1, TokenFacts
  <2>2. CASE req[i].pc \notin {"idle", "asked", "refused"}
    <3> DEFINE rec == [req[i].rec EXCEPT !.latest = FALSE]
    <3>1. rec \in Tokens!Records /\ rec.access = req[i].rec.access /\ rec.valid = req[i].rec.valid
      BY TokenFacts DEF Tokens!Records
    <3>2. req'[i] = [req[i] EXCEPT !.rec = rec]
      BY <1>1, <2>2
    <3> HIDE DEF rec
    <3>3. req'[i].rec = rec /\ req'[i].pc = req[i].pc /\ req'[i] \in Reqs
      BY <3>1, <3>2, TokenFacts DEF Reqs
    <3> QED BY <3>1, <3>3
  <2> QED BY <2>1, <2>2
<1>5. req' \in [Tokens!Requests -> Reqs]
  BY <1>1, <1>4
<1>6. Waiting'
  BY <1>1, <1>2, <1>4, TokenFacts DEF Waiting
<1>7. NeverOlder'
  BY <1>1, <1>2, <1>3, <1>4, TokenFacts DEF NeverOlder
<1>8. Overtaken' /\ Tokens!LoginKept'
  BY <1>1, <1>3, <1>4 DEF Overtaken, Tokens!LoginKept
<1>9. Served'
  BY <1>1, <1>2, <1>3, <1>4 DEF Served
<1> QED BY <1>1, <1>3, <1>5, <1>6, <1>7, <1>8, <1>9, TokenFacts, TokensKeep


\* The steps of the agent that change the files alone.
LEMMA ExpireTokens == TokensInv /\ (Tokens!ExpireLocal \/ Tokens!ExpireLocalExpiry) => TokensInv'
<1> SUFFICES ASSUME TokensInv, Tokens!ExpireLocal \/ Tokens!ExpireLocalExpiry PROVE TokensInv'
  OBVIOUS
<1>1. /\ agent \in {"expire", "unexpire"} /\ UNCHANGED <<kv, req, timer, calm, settled, raced, regressed>>
  BY DEF Tokens!ExpireLocal, Tokens!ExpireLocalExpiry, Tokens!known
<1>2. Tokens!LoginKept /\ Waiting /\ NeverOlder /\ Overtaken /\ Served
  BY DEF TokensInv
<1>3. \/ files["expiry"] = 0 /\ files' = [files EXCEPT !["token"] = -1] /\ agent' = "unexpire"
      \/ files' = files /\ agent' = "ask" /\ agent = "expire"
      \/ files' = [files EXCEPT !["expiry"] = -1] /\ agent' = "ask" /\ agent = "unexpire"
  BY DEF Tokens!ExpireLocal, Tokens!ExpireLocalExpiry, Tokens!Absent
<1>4. files' \in [{"token", "expiry"} -> -1 .. Life] /\ files'["expiry"] <= files["expiry"]
      /\ (agent' = "unexpire" => files'["token"] = -1 /\ files["expiry"] = 0)
      /\ (agent' = "ask" => files'["token"] = files["token"])
      /\ (agent = "expire" /\ agent' = "ask" => files' = files)
      /\ agent' \in {"unexpire", "ask"} /\ (agent' = "unexpire" => files["expiry"] = 0)
  BY <1>1, <1>3, TokenFacts, TokenTimes
<1>5. Waiting'
  BY <1>1, <1>2, <1>4 DEF Waiting
<1>6. NeverOlder'
  <2> SUFFICES ASSUME ~regressed' PROVE NeverOlder'
    BY DEF NeverOlder
  <2>1. /\ files["expiry"] <= kv.access
        /\ files["token"] # -1 => files["expiry"] <= files["token"]
        /\ req["live"].pc = "idle"
    BY <1>1, <1>2 DEF NeverOlder, Waiting, Tokens!Absent
  <2>2. files["expiry"] \in Int /\ files'["expiry"] \in Int /\ files["token"] \in Int
        /\ kv.access \in Int
    BY <1>4, TokenFacts, TokenTimes
  <2>3. files'["expiry"] <= kv.access
        /\ (files'["token"] # -1 => files'["expiry"] <= files'["token"])
    BY <1>4, <2>1, <2>2
  <2> QED BY <1>1, <2>1, <2>3 DEF NeverOlder, Tokens!Absent
<1>7. Overtaken' /\ Tokens!LoginKept'
  BY <1>1, <1>2 DEF Overtaken, Tokens!LoginKept
<1>8. Served'
  <2>1. ~settled \/ (agent = "expire" /\ agent' = "ask")
    <3> SUFFICES ASSUME settled PROVE agent = "expire" /\ agent' = "ask"
      OBVIOUS
    <3>1. agent = "expire" /\ files["expiry"] > timer /\ timer = 0
      BY <1>1, <1>2 DEF Served, Waiting
    <3>2. files["expiry"] # 0
      BY <3>1
    <3> QED BY <1>1, <1>3, <3>1, <3>2
  <2> QED BY <1>1, <1>2, <1>4, <2>1 DEF Served
<1> QED BY <1>1, <1>4, <1>5, <1>6, <1>7, <1>8, TokenFacts, TokensKeep

\* A step that puts another request in the place of the one the agent waits for, and leaves
\* the other request, the record and what is known alone.
LEMMA AskTokens == TokensInv /\ Tokens!Ask => TokensInv'
<1> SUFFICES ASSUME TokensInv, Tokens!Ask PROVE TokensInv'
  OBVIOUS
<1> DEFINE new == [pc |-> "asked", rec |-> Tokens!Nothing]
<1>1. /\ agent = "ask" /\ agent' = "wait" /\ req' = [req EXCEPT !["live"] = new]
      /\ UNCHANGED <<kv, timer, files, calm, settled, raced, regressed>>
  BY DEF Tokens!Ask, Tokens!known
<1>2. new \in Reqs /\ new.pc = "asked"
  BY TokenTimes DEF Reqs
<1> HIDE DEF new
<1>3. req' \in [Tokens!Requests -> Reqs] /\ req'["live"].pc = "asked"
      /\ \A j \in Tokens!Requests \ {"live"} : req'[j] = req[j]
  BY <1>1, <1>2, TokenFacts
<1>4. Tokens!LoginKept /\ Waiting /\ NeverOlder /\ Overtaken /\ Served
  BY DEF TokensInv
<1>5. Waiting' /\ NeverOlder'
  BY <1>1, <1>3, <1>4 DEF Waiting, NeverOlder
<1>6. Overtaken' /\ Served'
  BY <1>1, <1>3, <1>4 DEF Overtaken, Served
<1> QED BY <1>1, <1>3, <1>4, <1>5, <1>6, TokenFacts, TokensKeep DEF Tokens!LoginKept

\* The answer of the request, its token first.
LEMMA TakeTokens == TokensInv /\ Tokens!TakeToken => TokensInv'
<1> SUFFICES ASSUME TokensInv, Tokens!TakeToken PROVE TokensInv'
  OBVIOUS
<1>1. /\ agent = "wait" /\ agent' = "write" /\ req["live"].pc = "valid"
      /\ files' = [files EXCEPT !["token"] = req["live"].rec.access]
      /\ UNCHANGED <<kv, req, timer, calm, settled, raced, regressed>>
  BY DEF Tokens!TakeToken, Tokens!Pair, Tokens!known
<1>2. Tokens!LoginKept /\ Waiting /\ NeverOlder /\ Overtaken /\ Served
  BY DEF TokensInv
<1>3. files' \in [{"token", "expiry"} -> -1 .. Life]
      /\ files'["token"] = req["live"].rec.access /\ files'["expiry"] = files["expiry"]
  BY <1>1, TokenFacts, TokenTimes
<1>4. files'["token"] # -1
  BY <1>3, TokenFacts, TokenTimes
<1>5. Waiting'
  BY <1>1, <1>2, <1>3 DEF Waiting
<1>6. NeverOlder'
  BY <1>1, <1>2, <1>3 DEF NeverOlder
<1>7. Overtaken' /\ Tokens!LoginKept'
  BY <1>1, <1>2 DEF Overtaken, Tokens!LoginKept
<1>8. Served'
  BY <1>1, <1>2, <1>3, <1>4 DEF Served, Tokens!Absent
<1> QED BY <1>1, <1>3, <1>5, <1>6, <1>7, <1>8, TokenFacts, TokensKeep

\* ... and then its expiry.
LEMMA TakeExpiryTokens == TokensInv /\ Tokens!TakeExpiry => TokensInv'
<1> SUFFICES ASSUME TokensInv, Tokens!TakeExpiry PROVE TokensInv'
  OBVIOUS
<1>1. /\ agent = "write" /\ agent' = "asleep" /\ timer' \in {Interval, Interval + 1}
      /\ files' = [files EXCEPT !["expiry"] = req["live"].rec.access]
      /\ req' = [req EXCEPT !["live"] = Tokens!Idle] /\ settled' = calm
      /\ UNCHANGED <<kv, calm, raced, regressed>>
  BY DEF Tokens!TakeExpiry, Tokens!Pair, Tokens!Naps, Tokens!Sleep
<1>2. Tokens!LoginKept /\ Waiting /\ NeverOlder /\ Overtaken /\ Served
  BY DEF TokensInv
<1>3. /\ files' \in [{"token", "expiry"} -> -1 .. Life]
      /\ files'["token"] = req["live"].rec.access /\ files'["expiry"] = req["live"].rec.access
      /\ req["live"].pc = "valid" /\ req["live"].rec.access > Window
  BY <1>1, <1>2, TokenFacts, TokenTimes DEF Waiting
<1>4. /\ req' \in [Tokens!Requests -> Reqs] /\ req'["live"].pc = "idle"
      /\ \A j \in Tokens!Requests \ {"live"} : req'[j] = req[j]
  BY <1>1, TokenFacts, TokenTimes
<1>5. timer' \in 0 .. Interval + 1 /\ files'["expiry"] > timer' /\ files'["token"] # -1
  BY <1>1, <1>3, TokenFacts, TokenTimes
<1>6. Waiting'
  BY <1>1, <1>4 DEF Waiting
<1>7. NeverOlder'
  BY <1>1, <1>2, <1>3, <1>4, TokenFacts DEF NeverOlder
<1>8. Overtaken' /\ Tokens!LoginKept'
  BY <1>1, <1>2, <1>4 DEF Overtaken, Tokens!LoginKept
<1>9. Served'
  BY <1>1, <1>2, <1>4, <1>5 DEF Served, Tokens!Absent
<1> QED BY <1>1, <1>3, <1>4, <1>5, <1>6, <1>7, <1>8, <1>9, TokenFacts, TokensKeep

\* A refused request: the token goes, and then its expiry.
LEMMA DropTokens == TokensInv /\ Tokens!DropToken => TokensInv'
<1> SUFFICES ASSUME TokensInv, Tokens!DropToken PROVE TokensInv'
  OBVIOUS
<1>1. /\ agent = "wait" /\ agent' = "remove" /\ req["live"].pc = "refused"
      /\ files' = [files EXCEPT !["token"] = -1]
      /\ UNCHANGED <<kv, req, timer, calm, settled, raced, regressed>>
  BY DEF Tokens!DropToken, Tokens!known, Tokens!Absent
<1>2. Tokens!LoginKept /\ Waiting /\ NeverOlder /\ Overtaken /\ Served
  BY DEF TokensInv
<1>3. files' \in [{"token", "expiry"} -> -1 .. Life]
      /\ files'["token"] = -1 /\ files'["expiry"] = files["expiry"]
  BY <1>1, TokenFacts, TokenTimes
<1>4. ~calm /\ ~settled
  BY <1>1, <1>2, TokenFacts DEF Served
<1>5. Waiting' /\ NeverOlder'
  BY <1>1, <1>2, <1>3 DEF Waiting, NeverOlder, Tokens!Absent
<1>6. Overtaken' /\ Tokens!LoginKept' /\ Served'
  BY <1>1, <1>2, <1>4 DEF Overtaken, Tokens!LoginKept, Served
<1> QED BY <1>1, <1>3, <1>5, <1>6, TokenFacts, TokensKeep

\* ... and the agent sleeps without a token.
LEMMA DropExpiryTokens == TokensInv /\ Tokens!DropExpiry => TokensInv'
<1> SUFFICES ASSUME TokensInv, Tokens!DropExpiry PROVE TokensInv'
  OBVIOUS
<1>1. /\ agent = "remove" /\ agent' = "asleep" /\ timer' \in {Interval, Interval + 1}
      /\ files' = [files EXCEPT !["expiry"] = -1]
      /\ req' = [req EXCEPT !["live"] = Tokens!Idle]
      /\ UNCHANGED <<kv, calm, settled, raced, regressed>>
  BY DEF Tokens!DropExpiry, Tokens!Naps, Tokens!Sleep, Tokens!known, Tokens!Absent
<1>2. Tokens!LoginKept /\ Waiting /\ NeverOlder /\ Overtaken /\ Served
  BY DEF TokensInv
<1>3. files' \in [{"token", "expiry"} -> -1 .. Life]
      /\ files'["token"] = files["token"] /\ files'["expiry"] = -1
  BY <1>1, TokenFacts, TokenTimes
<1>4. /\ req' \in [Tokens!Requests -> Reqs] /\ req'["live"].pc = "idle"
      /\ \A j \in Tokens!Requests \ {"live"} : req'[j] = req[j]
  BY <1>1, TokenFacts, TokenTimes
<1>5. timer' \in 0 .. Interval + 1
  BY <1>1, TokenTimes
<1>6. Waiting'
  BY <1>1, <1>4 DEF Waiting
<1>7. NeverOlder'
  BY <1>1, <1>3, <1>4, TokenFacts, TokenTimes DEF NeverOlder
<1>8. Overtaken' /\ Tokens!LoginKept'
  BY <1>1, <1>2, <1>4 DEF Overtaken, Tokens!LoginKept
<1>9. Served'
  BY <1>1, <1>2, <1>4 DEF Served
<1> QED BY <1>1, <1>3, <1>4, <1>5, <1>6, <1>7, <1>8, <1>9, TokenFacts, TokensKeep

\* A request that is abandoned runs on as the late one, unless one runs already.
LEMMA AbandonedFacts ==
  ASSUME TokensInv, NEW r \in Tokens!Abandoned
  PROVE  /\ r \in [Tokens!Requests -> Reqs] /\ r["live"].pc = "idle"
         /\ \A i \in Tokens!Requests : r[i].pc \in {"refreshing", "granted"} =>
              \E j \in Tokens!Requests : r[i] = req[j]
<1>1. CASE r = [req EXCEPT !["live"] = Tokens!Idle]
  BY <1>1, TokenFacts, TokenTimes
<1>2. CASE r = [live |-> Tokens!Idle, late |-> req["live"]]
  <2>1. DOMAIN r = Tokens!Requests /\ r["live"] = Tokens!Idle /\ r["late"] = req["live"]
    BY <1>2, TokenFacts
  <2>2. r = [i \in Tokens!Requests |-> r[i]] /\ \A i \in Tokens!Requests : r[i] \in Reqs
    BY <1>2, <2>1, TokenFacts, TokenTimes
  <2>3. r \in [Tokens!Requests -> Reqs]
    BY <2>2
  <2> QED BY <2>1, <2>3, TokenFacts, TokenTimes
<1> QED BY <1>1, <1>2 DEF Tokens!Abandoned

\* The agent gives the request up, or dies.
LEMMA AbandonTokens == TokensInv /\ (Tokens!GiveUp \/ Tokens!Crash) => TokensInv'
<1> SUFFICES ASSUME TokensInv, Tokens!GiveUp \/ Tokens!Crash PROVE TokensInv'
  OBVIOUS
<1>1. /\ ~calm /\ req' \in Tokens!Abandoned /\ UNCHANGED <<kv, calm, settled, raced, regressed>>
      /\ \/ agent' = "asleep" /\ timer' \in {Interval, Interval + 1}
         \/ agent' = "down" /\ timer' = 0
      /\ files' = files \/ files' = [f \in {"token", "expiry"} |-> -1]
  BY DEF Tokens!GiveUp, Tokens!Crash, Tokens!known, Tokens!Naps, Tokens!Sleep, Tokens!Absent
<1>2. Tokens!LoginKept /\ Waiting /\ NeverOlder /\ Overtaken /\ Served
  BY DEF TokensInv
<1>3. /\ req' \in [Tokens!Requests -> Reqs] /\ req'["live"].pc = "idle"
      /\ \A i \in Tokens!Requests : req'[i].pc \in {"refreshing", "granted"} =>
           \E j \in Tokens!Requests : req'[i] = req[j]
  BY <1>1, AbandonedFacts
<1>4. timer' \in 0 .. Interval + 1
  BY <1>1, TokenTimes
<1>5. files' \in [{"token", "expiry"} -> -1 .. Life]
  BY <1>1, TokenFacts, TokenTimes
<1>6. Waiting'
  BY <1>1, <1>3 DEF Waiting
<1>7. NeverOlder'
  <2>1. CASE files' = files
    BY <2>1, <1>1, <1>2, <1>3 DEF NeverOlder
  <2>2. CASE files' = [f \in {"token", "expiry"} |-> -1]
    BY <2>2, <1>1, <1>3, TokenFacts, TokenTimes DEF NeverOlder, Tokens!Absent
  <2> QED BY <1>1, <2>1, <2>2
<1>8. Overtaken' /\ Tokens!LoginKept'
  BY <1>1, <1>2, <1>3 DEF Overtaken, Tokens!LoginKept
<1>9. Served'
  BY <1>1, <1>2 DEF Served
<1> QED BY <1>1, <1>3, <1>4, <1>5, <1>6, <1>7, <1>8, <1>9, TokenFacts, TokensKeep

\* The agent wakes up, or starts.
LEMMA StartTokens == TokensInv /\ (Tokens!WakeUp \/ Tokens!Restart) => TokensInv'
<1> SUFFICES ASSUME TokensInv, Tokens!WakeUp \/ Tokens!Restart PROVE TokensInv'
  OBVIOUS
<1>1. /\ agent \in {"asleep", "down"} /\ (agent = "asleep" => timer = 0) /\ agent' = "expire"
      /\ UNCHANGED <<kv, req, timer, files, calm, settled, raced, regressed>>
  BY DEF Tokens!WakeUp, Tokens!Restart, Tokens!known
<1>2. Tokens!LoginKept /\ Waiting /\ NeverOlder /\ Overtaken /\ Served
  BY DEF TokensInv
<1>3. Waiting' /\ NeverOlder'
  BY <1>1, <1>2 DEF Waiting, NeverOlder
<1>4. Overtaken' /\ Tokens!LoginKept' /\ Served'
  BY <1>1, <1>2 DEF Overtaken, Tokens!LoginKept, Served
<1> QED BY <1>1, <1>3, <1>4, TokenFacts, TokensKeep

\* The answer nobody waits for.
LEMMA LateTokens == TokensInv /\ Tokens!LateEnds => TokensInv'
<1> SUFFICES ASSUME TokensInv, Tokens!LateEnds PROVE TokensInv'
  OBVIOUS
<1>1. /\ req' = [req EXCEPT !["late"] = Tokens!Idle]
      /\ UNCHANGED <<kv, agent, timer, files, calm, settled, raced, regressed>>
  BY DEF Tokens!LateEnds, Tokens!known
<1>2. Tokens!LoginKept /\ Waiting /\ NeverOlder /\ Overtaken /\ Served
  BY DEF TokensInv
<1>3. /\ req' \in [Tokens!Requests -> Reqs] /\ req'["live"] = req["live"]
      /\ req'["late"].pc = "idle" /\ \A i \in Tokens!Requests : i = "live" \/ i = "late"
  BY <1>1, TokenFacts, TokenTimes
<1>4. Waiting' /\ NeverOlder'
  BY <1>1, <1>2, <1>3 DEF Waiting, NeverOlder
<1>5. Overtaken' /\ Tokens!LoginKept' /\ Served'
  BY <1>1, <1>2, <1>3 DEF Overtaken, Tokens!LoginKept, Served
<1> QED BY <1>1, <1>3, <1>4, <1>5, TokenFacts, TokensKeep

\* A login expires: a record may lose its validity and keeps everything else.
LEMMA LoginExpiresTokens == TokensInv /\ Tokens!LoginExpires => TokensInv'
<1> SUFFICES ASSUME TokensInv, Tokens!LoginExpires PROVE TokensInv'
  OBVIOUS
<1>1. PICK logins \in {{FALSE}, BOOLEAN} :
        /\ kv' = [kv EXCEPT !.valid = kv.valid /\ kv.latest \notin logins]
        /\ req' = [i \in Tokens!Requests |->
             [req[i] EXCEPT !.rec =
               [req[i].rec EXCEPT !.valid = req[i].rec.valid /\ req[i].rec.latest \notin logins]]]
  BY DEF Tokens!LoginExpires
<1>2. ~calm /\ UNCHANGED <<agent, timer, files, calm, settled, raced, regressed>>
  BY DEF Tokens!LoginExpires, Tokens!known
<1>3. Tokens!LoginKept /\ Waiting /\ NeverOlder /\ Overtaken /\ Served
  BY DEF TokensInv
<1>4. \A rec \in Tokens!Records : \A b \in BOOLEAN :
        /\ [rec EXCEPT !.valid = b] \in Tokens!Records
        /\ [rec EXCEPT !.valid = b].access = rec.access
        /\ [rec EXCEPT !.valid = b].latest = rec.latest
  BY DEF Tokens!Records
<1>5. kv' \in Tokens!Records /\ kv'.access = kv.access /\ kv'.latest = kv.latest
  <2>1. (kv.valid /\ kv.latest \notin logins) \in BOOLEAN
    OBVIOUS
  <2> QED BY <1>1, <1>4, <2>1, TokenFacts
<1>6. \A i \in Tokens!Requests :
        /\ req'[i] \in Reqs /\ req'[i].pc = req[i].pc
        /\ req'[i].rec.access = req[i].rec.access /\ req'[i].rec.latest = req[i].rec.latest
  <2> SUFFICES ASSUME NEW i \in Tokens!Requests
               PROVE  /\ req'[i] \in Reqs /\ req'[i].pc = req[i].pc
                      /\ req'[i].rec.access = req[i].rec.access
                      /\ req'[i].rec.latest = req[i].rec.latest
    OBVIOUS
  <2> DEFINE rec == [req[i].rec EXCEPT !.valid = req[i].rec.valid /\ req[i].rec.latest \notin logins]
  <2>1. (req[i].rec.valid /\ req[i].rec.latest \notin logins) \in BOOLEAN
    OBVIOUS
  <2>2. rec \in Tokens!Records /\ rec.access = req[i].rec.access /\ rec.latest = req[i].rec.latest
    BY <1>4, <2>1, TokenFacts
  <2>3. req'[i] = [req[i] EXCEPT !.rec = rec]
    BY <1>1
  <2> HIDE DEF rec
  <2>4. req'[i].rec = rec /\ req'[i].pc = req[i].pc /\ req'[i] \in Reqs
    BY <2>2, <2>3, TokenFacts DEF Reqs
  <2> QED BY <2>2, <2>4
<1>7. req' \in [Tokens!Requests -> Reqs]
  BY <1>1, <1>6
<1>8. Waiting' /\ NeverOlder'
  BY <1>2, <1>3, <1>5, <1>6, TokenFacts DEF Waiting, NeverOlder
<1>9. Overtaken' /\ Tokens!LoginKept' /\ Served'
  BY <1>2, <1>3, <1>5, <1>6 DEF Overtaken, Tokens!LoginKept, Served
<1> QED BY <1>2, <1>5, <1>7, <1>8, <1>9, TokenFacts, TokensKeep

\* One unit less is still less, and never below nothing.
LEMMA LessFacts ==
  /\ \A n \in 0 .. Life : Tokens!Less(n) \in 0 .. Life
  /\ \A n \in -1 .. Life : Tokens!Less(n) \in -1 .. Life /\ (Tokens!Less(n) = -1 <=> n = -1)
  /\ \A n \in 0 .. Interval + 1 : Tokens!Less(n) \in 0 .. Interval + 1
  /\ \A m, n \in Int : m <= n => Tokens!Less(m) <= Tokens!Less(n)
BY TokenTimes DEF Tokens!Less

\* Time passes while no request is waited for.
LEMMA TickTokens == TokensInv /\ Tokens!Tick => TokensInv'
<1> SUFFICES ASSUME TokensInv, Tokens!Tick PROVE TokensInv'
  OBVIOUS
<1>1. /\ (agent = "asleep" /\ timer > 0) \/ agent = "down"
      /\ kv' = [kv EXCEPT !.access = Tokens!Less(kv.access)]
      /\ req' = [i \in Tokens!Requests |-> [req[i] EXCEPT !.rec.access = Tokens!Less(req[i].rec.access)]]
      /\ timer' = Tokens!Less(timer)
      /\ files' = [f \in {"token", "expiry"} |-> Tokens!Less(files[f])]
      /\ UNCHANGED <<agent, calm, settled, raced, regressed>>
  BY DEF Tokens!Tick, Tokens!known
<1>2. Tokens!LoginKept /\ Waiting /\ NeverOlder /\ Overtaken /\ Served
  BY DEF TokensInv
<1>3. \A rec \in Tokens!Records :
        LET less == [rec EXCEPT !.access = Tokens!Less(rec.access)]
        IN  /\ less \in Tokens!Records /\ less.access = Tokens!Less(rec.access)
            /\ less.valid = rec.valid /\ less.latest = rec.latest
  <2> SUFFICES ASSUME NEW rec \in Tokens!Records
               PROVE  LET less == [rec EXCEPT !.access = Tokens!Less(rec.access)]
                      IN  /\ less \in Tokens!Records /\ less.access = Tokens!Less(rec.access)
                          /\ less.valid = rec.valid /\ less.latest = rec.latest
    OBVIOUS
  <2>1. Tokens!Less(rec.access) \in 0 .. Life
    BY LessFacts DEF Tokens!Records
  <2> QED BY <2>1 DEF Tokens!Records
<1>4. /\ kv' \in Tokens!Records /\ kv'.access = Tokens!Less(kv.access)
      /\ kv'.valid = kv.valid /\ kv'.latest = kv.latest
  BY <1>1, <1>3, TokenFacts
<1>5. \A i \in Tokens!Requests :
        /\ req'[i] \in Reqs /\ req'[i].pc = req[i].pc
        /\ req'[i].rec.valid = req[i].rec.valid /\ req'[i].rec.latest = req[i].rec.latest
  <2> SUFFICES ASSUME NEW i \in Tokens!Requests
               PROVE  /\ req'[i] \in Reqs /\ req'[i].pc = req[i].pc
                      /\ req'[i].rec.valid = req[i].rec.valid
                      /\ req'[i].rec.latest = req[i].rec.latest
    OBVIOUS
  <2> DEFINE rec == [req[i].rec EXCEPT !.access = Tokens!Less(req[i].rec.access)]
  <2>1. rec \in Tokens!Records /\ rec.valid = req[i].rec.valid /\ rec.latest = req[i].rec.latest
    BY <1>3, TokenFacts
  <2>2. req'[i] = [req[i] EXCEPT !.rec = rec]
    BY <1>1
  <2> HIDE DEF rec
  <2>3. req'[i].rec = rec /\ req'[i].pc = req[i].pc /\ req'[i] \in Reqs
    BY <2>1, <2>2, TokenFacts DEF Reqs
  <2> QED BY <2>1, <2>3
<1>6. req' \in [Tokens!Requests -> Reqs]
  BY <1>1, <1>5
<1>7. timer' \in 0 .. Interval + 1 /\ files' \in [{"token", "expiry"} -> -1 .. Life]
  BY <1>1, LessFacts, TokenFacts
<1>8. files'["token"] = Tokens!Less(files["token"]) /\ files'["expiry"] = Tokens!Less(files["expiry"])
  BY <1>1
<1>9. req["live"].pc = "idle" /\ req'["live"].pc = "idle"
  BY <1>1, <1>2, <1>5, TokenFacts DEF Waiting
<1>10. Waiting'
  <2>1. agent' # "asleep" => timer' = 0
    BY <1>1, <1>2 DEF Waiting, Tokens!Less
  <2>2. agent' # "write"
    BY <1>1
  <2> QED BY <1>9, <2>1, <2>2 DEF Waiting
<1>11. NeverOlder'
  <2> SUFFICES ASSUME ~regressed' PROVE NeverOlder'
    BY DEF NeverOlder
  <2>1. files["expiry"] <= kv.access /\ (files["token"] # -1 => files["expiry"] <= files["token"])
    BY <1>1, <1>2 DEF NeverOlder, Tokens!Absent
  <2>2. files["expiry"] \in Int /\ kv.access \in Int /\ files["token"] \in Int
    BY TokenFacts, TokenTimes
  <2>3. files'["expiry"] <= kv'.access
    BY <1>4, <1>8, <2>1, <2>2, LessFacts
  <2>4. files'["token"] # -1 => files'["expiry"] <= files'["token"]
    BY <1>8, <2>1, <2>2, LessFacts, TokenFacts
  <2> QED BY <1>9, <2>3, <2>4 DEF NeverOlder, Tokens!Absent
<1>12. Overtaken' /\ Tokens!LoginKept'
  BY <1>1, <1>2, <1>4, <1>5 DEF Overtaken, Tokens!LoginKept
<1>13. Served'
  <2>1. calm' => kv'.valid /\ \A i \in Tokens!Requests :
          req'[i].pc # "refused" /\ (req'[i].pc \in {"refreshing", "granted"} => req'[i].rec.valid)
    BY <1>1, <1>2, <1>4, <1>5 DEF Served
  <2>2. ASSUME settled' PROVE /\ calm' /\ agent' \notin {"down", "unexpire", "remove"}
                              /\ files'["token"] # -1 /\ files'["expiry"] > timer'
    <3>1. /\ calm /\ agent \notin {"down", "unexpire", "remove"}
          /\ files["token"] # -1 /\ files["expiry"] > timer
      BY <1>1, <1>2, <2>2 DEF Served, Tokens!Absent
    <3>2. timer > 0 /\ timer \in Int /\ files["expiry"] \in Int
      BY <1>1, <3>1, TokenFacts, TokenTimes
    <3>3. files'["expiry"] > timer'
      BY <1>1, <1>8, <3>1, <3>2 DEF Tokens!Less
    <3>4. files'["token"] # -1
      BY <1>8, <3>1, LessFacts, TokenFacts
    <3> QED BY <1>1, <3>1, <3>3, <3>4
  <2> QED BY <2>1, <2>2 DEF Served, Tokens!Absent
<1> QED BY <1>1, <1>4, <1>6, <1>7, <1>10, <1>11, <1>12, <1>13, TokenFacts, TokensKeep

\* From here on nothing fails.
LEMMA CalmTokens == TokensInv /\ Tokens!BecomeCalm => TokensInv'
<1> SUFFICES ASSUME TokensInv, Tokens!BecomeCalm PROVE TokensInv'
  OBVIOUS
<1>1. /\ ~calm /\ kv.valid /\ (\A i \in Tokens!Requests : req[i].pc \in {"idle", "asked"}) /\ calm' = TRUE
      /\ UNCHANGED <<kv, req, agent, timer, files, settled, raced, regressed>>
  BY DEF Tokens!BecomeCalm
<1>2. Tokens!LoginKept /\ Waiting /\ NeverOlder /\ Overtaken /\ Served
  BY DEF TokensInv
<1>3. ~settled
  BY <1>1, <1>2 DEF Served
<1>4. Waiting' /\ NeverOlder'
  BY <1>1, <1>2 DEF Waiting, NeverOlder
<1>5. Overtaken' /\ Tokens!LoginKept'
  BY <1>1, <1>2 DEF Overtaken, Tokens!LoginKept
<1>6. Served'
  BY <1>1, <1>3 DEF Served
<1> QED BY <1>1, <1>4, <1>5, <1>6, TokenFacts, TokensKeep

\* Every step of the agent, the workers and the world keeps the invariant.
LEMMA TokensStep == TokensInv /\ [Tokens!Next]_(Tokens!vars) => TokensInv'
<1> SUFFICES ASSUME TokensInv, [Tokens!Next]_(Tokens!vars) PROVE TokensInv'
  OBVIOUS
<1>1. CASE Tokens!Serve
  BY <1>1, ReadRecordTokens, RefreshTokens, StoreTokens DEF Tokens!Serve
<1>2. CASE Tokens!Agent
  BY <1>2, ExpireTokens, AskTokens, TakeTokens, TakeExpiryTokens, DropTokens, DropExpiryTokens,
     AbandonTokens, StartTokens DEF Tokens!Agent, Tokens!Loop
<1>3. CASE Tokens!Login \/ Tokens!Crash \/ Tokens!LateEnds \/ Tokens!LoginExpires
             \/ Tokens!Tick \/ Tokens!BecomeCalm
  BY <1>3, LoginTokens, AbandonTokens, LateTokens, LoginExpiresTokens, TickTokens, CalmTokens
<1>4. CASE UNCHANGED Tokens!vars
  <2>1. UNCHANGED <<kv, req, agent, timer, files, calm, settled, raced, regressed>>
    BY <1>4 DEF Tokens!vars, Tokens!known
  <2>2. Tokens!LoginKept /\ Waiting /\ NeverOlder /\ Overtaken /\ Served
    BY DEF TokensInv
  <2>3. Tokens!LoginKept' /\ Waiting' /\ NeverOlder' /\ Overtaken' /\ Served'
    BY <2>1, <2>2 DEF Tokens!LoginKept, Waiting, NeverOlder, Overtaken, Served
  <2> QED BY <2>1, <2>3, TokenFacts, TokensKeep
<1> QED BY <1>1, <1>2, <1>3, <1>4 DEF Tokens!Next

\* What the invariant says of the token files and of the login.
LEMMA TokensHold ==
  TokensInv => Tokens!ReadyIsUsable /\ Tokens!LoginKept /\ Tokens!HeldWhenCalm
<1> SUFFICES ASSUME TokensInv PROVE Tokens!ReadyIsUsable /\ Tokens!LoginKept /\ Tokens!HeldWhenCalm
  OBVIOUS
<1>1. Tokens!LoginKept /\ NeverOlder /\ Served
  BY DEF TokensInv
<1>2. Tokens!ReadyIsUsable
  BY <1>1, TokenFacts, TokenTimes DEF NeverOlder, Tokens!ReadyIsUsable, Tokens!Ready
<1>3. Tokens!HeldWhenCalm
  BY <1>1, TokenFacts, TokenTimes DEF Served, Tokens!HeldWhenCalm, Tokens!Ready
<1> QED BY <1>1, <1>2, <1>3
-----------------------------------------------------------------------------
(* The five together. *)

\* A step of one of them is a step of its own specification, in which the others rest.
LEMMA EachSteps ==
  ASSUME [ClientsNext]_allVars
  PROVE  /\ [Next]_vars /\ [Fec!Next]_(Fec!vars) /\ [Lda!Next]_(Lda!vars)
         /\ [Api!Next]_(Api!vars) /\ [Tokens!Next]_(Tokens!vars)
<1>1. UNCHANGED fecVars => UNCHANGED Fec!vars
  BY DEF fecVars, Fec!vars, Fec!tables, Fec!history
<1>2. UNCHANGED ldaVars => UNCHANGED Lda!vars
  BY DEF ldaVars, Lda!vars, Lda!tables
<1>3. UNCHANGED apiVars => UNCHANGED Api!vars
  BY DEF apiVars, Api!vars
<1>4. UNCHANGED tokenVars => UNCHANGED Tokens!vars
  BY DEF tokenVars, Tokens!vars, Tokens!known
<1>5. CASE Congress(Next)
  BY <1>1, <1>2, <1>3, <1>4, <1>5 DEF Congress
<1>6. CASE FecRun(Fec!Next)
  BY <1>2, <1>3, <1>4, <1>6 DEF FecRun
<1>7. CASE LdaRun(Lda!Next)
  BY <1>1, <1>3, <1>4, <1>7 DEF LdaRun
<1>8. CASE Client(Api!Next)
  BY <1>1, <1>2, <1>4, <1>8 DEF Client
<1>9. CASE Token(Tokens!Next)
  BY <1>1, <1>2, <1>3, <1>9 DEF Token
<1>10. CASE UNCHANGED allVars
  BY <1>1, <1>2, <1>3, <1>4, <1>10 DEF allVars
<1> QED BY <1>5, <1>6, <1>7, <1>8, <1>9, <1>10 DEF ClientsNext

\* Each of the five begins as its own specification does.
LEMMA EachBegins ==
  ClientsInit => BillsInv /\ FecInv /\ LdaInv /\ ApiInv /\ TokensInv
BY BillsBegin, FecBegins, LdaBegins, ApiBegins, TokensBegin DEF ClientsInit

\* The five inductive invariants hold in every behaviour.
LEMMA EachHolds ==
  ClientsSpec => [](BillsInv /\ FecInv /\ LdaInv /\ ApiInv /\ TokensInv)
<1> DEFINE Five == BillsInv /\ FecInv /\ LdaInv /\ ApiInv /\ TokensInv
<1>1. ClientsInit => Five
  BY EachBegins
<1>2. Five /\ [ClientsNext]_allVars => Five'
  BY EachSteps, BillsStep, FecStep, LdaStep, ApiStep, TokensStep
<1> QED BY <1>1, <1>2, PTL DEF ClientsSpec

\* However the Congress.gov passes are cut short, a list that is marked done has its bills but
\* for a batch that was never written, and a bill with its policy area has its sponsor or is
\* asked for it again (congress_gov/ingest.py).
THEOREM BillsStayWhole == ClientsSpec => []BillsKept
<1>1. BillsInv => BillsKept
  BY DEF BillsInv, BillsKept
<1> QED BY <1>1, EachHolds, PTL

\* No foreign key of the donations or of the lobbying tables refuses a row, whatever was
\* written before the run that broke (fec/ingest.py, lda/ingest.py).
THEOREM ParentsComeFirst == ClientsSpec => []BatchAdmissible
<1>1. FecInv /\ LdaInv => BatchAdmissible
  BY FecHolds DEF LdaInv, BatchAdmissible
<1> QED BY <1>1, EachHolds, PTL

\* What a state file calls done is in the tables, but for what the two sources are known to
\* lose: the dry runs' marks, and what died in memory after its mark was flushed.
THEOREM MarksAreTrue == ClientsSpec => []DoneIsStored
<1>1. BillsInv /\ FecInv => DoneIsStored
  BY FecHolds DEF BillsInv, DoneIsStored
<1> QED BY <1>1, EachHolds, PTL

\* The HTTP client defers a source only after it waited for the pool and every key was
\* refused since (fec/client.py _get, congress_gov/client.py _get).
THEOREM DeferralsAreDue == ClientsSpec => []DeferralIsDue
<1>1. ApiInv => DeferralIsDue
  BY DEF ApiInv, DeferralIsDue
<1> QED BY <1>1, EachHolds, PTL

\* A page of the active period is never answered with a copy older than the time to live
\* (shared/ingest/http.py _fetch).
THEOREM AnswersAreRecent == ClientsSpec => []AnswerIsRecent
<1>1. ApiInv => AnswerIsRecent
  BY DEF ApiInv, AnswerIsRecent
<1> QED BY <1>1, EachHolds, PTL

\* What token_ready vouches for has not expired unless a late put brought an older record back,
\* an older login's refresh token replaces a newer one only in the race of a read and a put, and
\* a token once held is held while nothing fails (secrets agent, auth and callback workers).
THEOREM TokensAreKept == ClientsSpec => []TokensKept
<1>1. TokensInv => TokensKept
  BY TokensHold DEF TokensKept
<1> QED BY <1>1, EachHolds, PTL


=============================================================================
