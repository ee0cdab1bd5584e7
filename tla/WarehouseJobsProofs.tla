------------------------ MODULE WarehouseJobsProofs ------------------------
(***************************************************************************)
(* Proofs about the jobs that write to the warehouse.  The political job,   *)
(* for every number of filings, PDF limit and trade count: type             *)
(* correctness, that no trade_count runs ahead of the stored trades, and    *)
(* that a run recorded as a success is complete.  The broker's snapshots,   *)
(* for every calendar of two slots a day or more: that a fill is lost only  *)
(* with a cause on record.                                                  *)
(***************************************************************************)
EXTENDS WarehouseJobs, WellFoundedInduction, TLAPS

-----------------------------------------------------------------------------
(* The newest filing of a non-empty set exists. *)

Before == {ss \in Nat \X Nat : ss[1] < ss[2]}

\* Descending chains of naturals end.
LEMMA BeforeWellFounded == IsWellFoundedOn(Before, Nat)
BY NatLessThanWellFounded, Zenon DEF OpToRel, Before

\* A non-empty set of naturals has a first element.
LEMMA First ==
  ASSUME NEW T \in SUBSET Nat, T # {}
  PROVE  \E x \in T : \A y \in T : x <= y
<1>1. PICK x \in T : \A y \in T : <<y, x>> \notin Before
  BY BeforeWellFounded, WFMin, Zenon
<1>2. \A y \in T : y \in Nat /\ <<y, x>> \in Nat \X Nat
  OBVIOUS
<1>3. \A y \in T : ~(y < x)
  BY <1>1, <1>2 DEF Before
<1> QED BY <1>2, <1>3

\* Current is one of the filings left to parse.
LEMMA CurrentLeft ==
  ASSUME TypeOK, run.left # {}
  PROVE  Current \in run.left /\ Current \in AllFilings
<1> USE LimitAssumption DEF AllFilings
<1> DEFINE back == {Filings - f : f \in run.left}
<1>1. run.left \in SUBSET (1 .. Filings)
  BY DEF TypeOK
<1>2. \A f \in run.left : f \in Nat /\ Filings - f \in Nat
  BY <1>1
<1>3. back \in SUBSET Nat /\ back # {}
  BY <1>2
<1>4. PICK y \in back : \A z \in back : y <= z
  BY <1>3, First
<1>5. PICK f \in run.left : y = Filings - f
  OBVIOUS
<1>6. \A g \in run.left : Filings - g \in back
  OBVIOUS
<1>7. \A g \in run.left : Filings - f <= Filings - g
  BY <1>4, <1>5, <1>6
<1>8. \A g \in run.left : g <= f
  BY <1>2, <1>7
<1>9. Current \in run.left
  BY <1>8 DEF Current
<1> QED BY <1>1, <1>9

-----------------------------------------------------------------------------
(* The inductive invariant. *)

\* A filing row holds no count, a reset one, or the count of trades that are stored.
Counted ==
  \A f \in AllFilings :
    /\ count[f] \in {NoRow, 0, pdf[f]}
    /\ count[f] > 0 => rows[f] # {}

\* Once the filings are written, the run has parsed all it selected except what is left.
Parsing ==
  run.pc \in {"ptr", "trades", "count"} =>
    /\ run.selected = Selected(run.listed)
    /\ run.left \subseteq run.selected
    /\ \A f \in run.selected \ run.left : Complete(f)
    /\ \A f \in run.left : count[f] = 0

\* With a PDF in hand there is one, and it could be read; its count follows its trades.
InHand ==
  /\ run.pc \in {"trades", "count"} => run.left # {} /\ Readable(Current)
  /\ run.pc = "count" => pdf[Current] > 0 /\ rows[Current] # {}

IInv == TypeOK /\ Counted /\ Parsing /\ InHand

\* Before the first night nothing is stored.
LEMMA InvInit == Init => IInv
<1> SUFFICES ASSUME Init PROVE IInv
  OBVIOUS
<1> USE LimitAssumption DEF Init, AllFilings, NoRow, Unreadable
<1>1. TypeOK
  <2>1. count \in [1 .. Filings -> -1 .. MaxTrades]
    OBVIOUS
  <2>2. rows \in [1 .. Filings -> SUBSET BOOLEAN]
    OBVIOUS
  <2> QED BY <2>1, <2>2 DEF TypeOK, Years, Idle
<1>2. Counted
  BY DEF Counted
<1>3. Parsing /\ InHand
  BY DEF Parsing, InHand, Idle
<1> QED BY <1>1, <1>2, <1>3 DEF IInv

\* A step that ends the run, or begins one, and leaves the sources and tables alone.
LEMMA OutsideParsing ==
  ASSUME IInv, UNCHANGED <<pdf, count, rows>>, TypeOK',
         run'.pc \notin {"ptr", "trades", "count"}
  PROVE  IInv'
<1>1. Counted'
  BY DEF IInv, Counted
<1>2. Parsing' /\ InHand'
  BY DEF Parsing, InHand
<1> QED BY <1>1, <1>2 DEF IInv

\* The outside world moves while the run and the tables stay.
LEMMA OutsideRun ==
  ASSUME IInv, UNCHANGED <<pdf, count, rows, run, status>>,
         year' \in Years, published' \in SUBSET AllFilings
  PROVE  IInv'
<1>1. TypeOK'
  BY DEF IInv, TypeOK
<1>2. Counted'
  BY DEF IInv, Counted
<1>3. Parsing'
  BY DEF IInv, Parsing, Complete, Readable, Selected
<1>4. InHand'
  BY DEF IInv, InHand, Readable, Current
<1> QED BY <1>1, <1>2, <1>3, <1>4 DEF IInv

\* StartRun, FetchIndex and every end of a run.
LEMMA BoundarySteps ==
  ASSUME IInv, StartRun \/ FetchIndex \/ Finish \/ RunFails \/ Crash
  PROVE  IInv'
<1> USE DEF IInv, TypeOK, Sources, Store, Years
<1> DEFINE Runs == [pc : {"idle", "index", "filings", "ptr", "trades", "count"}, year : Years,
                    listed : SUBSET AllFilings, selected : SUBSET AllFilings,
                    left : SUBSET AllFilings]
<1>0. Idle \in Runs /\ Idle.pc = "idle"
  BY DEF Idle
<1>1. run' \in Runs /\ run'.pc \notin {"ptr", "trades", "count"}
  <2>1. CASE StartRun
    BY <1>0, <2>1 DEF StartRun
  <2>2. CASE FetchIndex
    BY <2>2 DEF FetchIndex
  <2>3. CASE Finish \/ RunFails \/ Crash
    BY <1>0, <2>3 DEF Finish, RunFails, Crash, Ended
  <2> QED BY <2>1, <2>2, <2>3
<1>3. UNCHANGED <<year, published, pdf, count, rows>>
  BY DEF StartRun, FetchIndex, Finish, RunFails, Crash
<1>4. status' \in {"none", "running", "success", "partial", "failed"}
  BY DEF StartRun, FetchIndex, Finish, RunFails, Crash
<1>5. TypeOK'
  BY <1>1, <1>3, <1>4
<1> HIDE DEF IInv, TypeOK
<1> QED BY <1>1, <1>3, <1>5, OutsideParsing

\* write_house_filings resets the counts and selects what to parse.
LEMMA WriteFilingsStep == ASSUME IInv, WriteFilings PROVE IInv'
<1> USE LimitAssumption DEF WriteFilings, Sources, AllFilings, NoRow, Unreadable
<1> DEFINE chosen == Selected(run.listed)
<1>1. run.listed \in SUBSET (1 .. Filings) /\ chosen \subseteq run.listed
  BY DEF IInv, TypeOK, Selected
<1>2. /\ run'.pc = "ptr" /\ run'.selected = chosen /\ run'.left = chosen
      /\ run'.listed = run.listed /\ run'.year = run.year
  BY DEF IInv, TypeOK
<1>3. count' \in [1 .. Filings -> -1 .. MaxTrades]
  BY DEF IInv, TypeOK
<1>4. TypeOK'
  BY <1>1, <1>3 DEF IInv, TypeOK
<1>5. Counted'
  BY DEF IInv, Counted, TypeOK
<1>6. Parsing'
  <2>1. \A f \in chosen : count'[f] = 0
    BY <1>1
  <2>2. Selected(run.listed)' = chosen
    BY <1>2 DEF Selected
  <2> QED BY <1>2, <2>1, <2>2 DEF Parsing
<1>7. InHand'
  BY <1>2 DEF InHand
<1> QED BY <1>4, <1>5, <1>6, <1>7 DEF IInv

\* fetch_and_parse_ptr: the newest filing left is in hand, and readable.
LEMMA FetchAndParseStep == ASSUME IInv, FetchAndParse PROVE IInv'
<1> USE DEF FetchAndParse, Sources, Store, Goto, AfterParse
<1>1. /\ run'.pc = "trades" /\ run'.selected = run.selected /\ run'.left = run.left
      /\ run'.listed = run.listed
  BY DEF IInv, TypeOK
<1>2. TypeOK'
  BY DEF IInv, TypeOK
<1>3. Counted'
  BY DEF IInv, Counted
<1>4. Parsing'
  BY <1>1 DEF IInv, Parsing, Complete, Readable, Selected
<1>5. InHand'
  BY <1>1 DEF InHand, Readable, Current
<1> QED BY <1>2, <1>3, <1>4, <1>5 DEF IInv

\* write_trades up to the insert: without trades the filing is done, else its trades are in.
LEMMA WriteTradesStep == ASSUME IInv, WriteTrades PROVE IInv'
<1> USE DEF Sources
<1>1. run.pc = "trades" /\ run.left # {} /\ Readable(Current)
  BY DEF IInv, InHand, WriteTrades
<1>2. Current \in run.left /\ Current \in AllFilings
  BY <1>1, CurrentLeft DEF IInv
<1>3. count[Current] = 0 /\ pdf[Current] \in 0 .. MaxTrades
  BY <1>1, <1>2, LimitAssumption DEF IInv, Parsing, TypeOK, WriteTrades, Readable, Unreadable
<1>4. CASE pdf[Current] = 0
  <2>1. /\ run' = [run EXCEPT !.pc = "ptr", !.left = @ \ {Current}]
        /\ UNCHANGED <<pdf, count, rows, status, year, published>>
    BY <1>4 DEF WriteTrades, Parsed
  <2>2. /\ run'.pc = "ptr" /\ run'.selected = run.selected /\ run'.listed = run.listed
        /\ run'.left = run.left \ {Current}
    BY <2>1 DEF IInv, TypeOK
  <2>3. TypeOK'
    BY <2>1 DEF IInv, TypeOK
  <2>4. Counted'
    BY <2>1 DEF IInv, Counted
  <2>5. Complete(Current)
    BY <1>1, <1>3, <1>4 DEF Complete
  <2>6. Selected(run.listed)' = Selected(run.listed)
    BY <2>2 DEF Selected
  <2>7. \A f : Complete(f)' <=> Complete(f)
    BY <2>1 DEF Complete, Readable
  <2>8. Parsing'
    <3>1. \A f \in run.selected \ run.left : Complete(f)
      BY <1>1 DEF IInv, Parsing
    <3>2. \A f \in run'.selected \ run'.left : Complete(f)'
      BY <2>2, <2>5, <2>7, <3>1
    <3>3. /\ run.selected = Selected(run.listed) /\ run.left \subseteq run.selected
          /\ \A f \in run.left : count[f] = 0
      BY <1>1 DEF IInv, Parsing
    <3> QED BY <2>1, <2>2, <2>6, <3>2, <3>3 DEF Parsing
  <2>9. InHand'
    BY <2>2 DEF InHand
  <2> QED BY <2>3, <2>4, <2>8, <2>9 DEF IInv
<1>5. CASE pdf[Current] # 0
  <2>1. PICK matched \in BOOLEAN : rows' = [rows EXCEPT ![Current] = @ \cup {matched}]
    BY <1>5 DEF WriteTrades
  <2>2. run' = [run EXCEPT !.pc = "count"] /\ UNCHANGED <<pdf, count, status, year, published>>
    BY <1>5 DEF WriteTrades, Goto
  <2>3. /\ run'.pc = "count" /\ run'.selected = run.selected /\ run'.listed = run.listed
        /\ run'.left = run.left
    BY <2>2 DEF IInv, TypeOK
  <2>4. rows' \in [AllFilings -> SUBSET BOOLEAN]
    BY <2>1 DEF IInv, TypeOK
  <2>5. TypeOK'
    BY <2>2, <2>4 DEF IInv, TypeOK
  <2>6. \A f \in AllFilings : rows[f] # {} => rows'[f] # {}
    BY <2>1 DEF IInv, TypeOK
  <2>7. rows'[Current] # {}
    BY <1>2, <2>1 DEF IInv, TypeOK
  <2>8. Counted'
    BY <2>2, <2>6 DEF IInv, Counted
  <2>9. Parsing'
    <3>1. \A f \in run.selected \ run.left : Complete(f)'
      <4>1. \A f \in run.selected : f \in AllFilings
        BY DEF IInv, TypeOK
      <4> QED BY <1>1, <2>2, <2>6, <4>1 DEF IInv, Parsing, Complete, Readable
    <3>2. Selected(run.listed)' = Selected(run.listed)
      BY <2>3 DEF Selected
    <3> QED BY <1>1, <2>2, <2>3, <3>1, <3>2 DEF IInv, Parsing
  <2>10. InHand'
    <3>1. Current' = Current
      BY <2>3 DEF Current
    <3> QED BY <1>1, <1>3, <1>5, <2>2, <2>3, <2>7, <3>1 DEF InHand, Readable
  <2> QED BY <2>5, <2>8, <2>9, <2>10 DEF IInv
<1> QED BY <1>4, <1>5

\* The rest of write_trades completes the filing in hand.
LEMMA WriteCountStep == ASSUME IInv, WriteCount PROVE IInv'
<1> USE DEF Sources
<1>1. /\ run.pc = "count" /\ run.left # {} /\ Readable(Current)
      /\ pdf[Current] > 0 /\ rows[Current] # {}
  BY DEF IInv, InHand, WriteCount
<1>2. Current \in run.left /\ Current \in AllFilings
  BY <1>1, CurrentLeft DEF IInv
<1>3. pdf[Current] \in Unreadable .. MaxTrades /\ Unreadable = NoRow
  BY <1>2 DEF IInv, TypeOK, Unreadable, NoRow
<1>4. /\ count' = [count EXCEPT ![Current] = pdf[Current]]
      /\ run' = [run EXCEPT !.pc = "ptr", !.left = @ \ {Current}]
      /\ UNCHANGED <<pdf, rows, status, year, published>>
  BY DEF WriteCount, TradeCount, Parsed
<1>5. /\ run'.pc = "ptr" /\ run'.selected = run.selected /\ run'.listed = run.listed
      /\ run'.left = run.left \ {Current}
  BY <1>4 DEF IInv, TypeOK
<1>6. count' \in [AllFilings -> NoRow .. MaxTrades]
  BY <1>3, <1>4 DEF IInv, TypeOK
<1>7. TypeOK'
  BY <1>4, <1>6 DEF IInv, TypeOK
<1>8. /\ count'[Current] = pdf[Current]
      /\ \A f \in AllFilings : f # Current => count'[f] = count[f]
  BY <1>2, <1>4 DEF IInv, TypeOK
<1>9. Counted'
  BY <1>1, <1>4, <1>8 DEF IInv, Counted
<1>10. Parsing'
  <2>1. Selected(run.listed)' = Selected(run.listed)
    BY <1>5 DEF Selected
  <2>2. \A f \in run.selected : f \in AllFilings
    BY DEF IInv, TypeOK
  <2>3. /\ run.selected = Selected(run.listed) /\ run.left \subseteq run.selected
        /\ \A f \in run.selected \ run.left : Complete(f)
        /\ \A f \in run.left : count[f] = 0
    BY <1>1 DEF IInv, Parsing
  <2>4. \A f \in run.selected \ run.left : Complete(f)'
    BY <1>2, <1>4, <1>8, <2>2, <2>3 DEF Complete, Readable
  <2>5. \A f \in run'.selected \ run'.left : f = Current \/ f \in run.selected \ run.left
    BY <1>5
  <2>6. /\ pdf'[Current] # Unreadable /\ count'[Current] = pdf'[Current]
        /\ rows'[Current] # {}
    BY <1>1, <1>4, <1>8 DEF Readable
  <2>7. \A f \in run'.selected \ run'.left : Complete(f)'
    BY <2>4, <2>5, <2>6 DEF Complete, Readable
  <2>8. \A f \in run'.left : count'[f] = 0
    BY <1>5, <1>8, <2>2, <2>3
  <2> QED BY <1>5, <2>1, <2>3, <2>7, <2>8 DEF Parsing
<1>11. InHand'
  BY <1>5 DEF InHand
<1> QED BY <1>7, <1>9, <1>10, <1>11 DEF IInv

\* Every step keeps the invariant.
LEMMA InvStep == IInv /\ [Next]_vars => IInv'
<1> SUFFICES ASSUME IInv, [Next]_vars PROVE IInv'
  OBVIOUS
<1>1. CASE StartRun \/ FetchIndex \/ Finish \/ RunFails \/ Crash
  BY <1>1, BoundarySteps
<1>2. CASE WriteFilings
  BY <1>2, WriteFilingsStep
<1>3. CASE FetchAndParse
  BY <1>3, FetchAndParseStep
<1>4. CASE WriteTrades
  BY <1>4, WriteTradesStep
<1>5. CASE WriteCount
  BY <1>5, WriteCountStep
<1>6. ASSUME NEW f \in AllFilings, Publish(f) PROVE IInv'
  <2>1. year' \in Years /\ published' \in SUBSET AllFilings
    BY <1>6 DEF Publish, IInv, TypeOK
  <2>2. UNCHANGED <<pdf, count, rows, run, status>>
    BY <1>6 DEF Publish, Store
  <2> QED BY <2>1, <2>2, OutsideRun
<1>7. CASE NewYear
  <2>1. year' \in Years /\ published' \in SUBSET AllFilings
    BY <1>7 DEF NewYear, IInv, TypeOK, Years
  <2>2. UNCHANGED <<pdf, count, rows, run, status>>
    BY <1>7 DEF NewYear, Store
  <2> QED BY <2>1, <2>2, OutsideRun
<1>8. CASE UNCHANGED vars
  <2>1. UNCHANGED <<pdf, count, rows, run, status>> /\ UNCHANGED <<year, published>>
    BY <1>8 DEF vars
  <2>2. year' \in Years /\ published' \in SUBSET AllFilings
    BY <2>1 DEF IInv, TypeOK
  <2> QED BY <2>1, <2>2, OutsideRun
<1> QED BY <1>1, <1>2, <1>3, <1>4, <1>5, <1>6, <1>7, <1>8 DEF Next

-----------------------------------------------------------------------------
(* Theorems. *)

\* The invariant holds throughout, for every number of filings, limit and trade count.
THEOREM Invariance == Spec => []IInv
BY InvInit, InvStep, PTL DEF Spec

\* Every state of the job and of its tables is well typed.
THEOREM TypeCorrect == Spec => []TypeOK
<1>1. IInv => TypeOK
  BY DEF IInv
<1> QED BY <1>1, Invariance, PTL

\* No trade_count runs ahead of the stored trades, wherever write_trades dies.
THEOREM CountsBacked == Spec => []CountBacked
<1>1. IInv => CountBacked
  <2> SUFFICES ASSUME IInv, NEW f \in AllFilings, count[f] > 0
               PROVE  count[f] = pdf[f] /\ rows[f] # {}
    BY DEF CountBacked
  <2> QED BY DEF IInv, Counted, NoRow
<1> QED BY <1>1, Invariance, PTL

\* Finish records a success only over a completely stored selection.
LEMMA SuccessStep ==
  ASSUME IInv, [Next]_vars, status' = "success", status # "success",
         NEW f \in run.listed, Cardinality({g \in run.listed : g > f}) < Limit
  PROVE  Complete(f)
<1>1. run.pc = "ptr" /\ run.left = {}
  BY DEF Next, vars, StartRun, FetchIndex, WriteFilings, FetchAndParse, WriteTrades,
         WriteCount, Finish, RunFails, Crash, Publish, NewYear
<1>2. f \in run.selected
  BY <1>1 DEF IInv, Parsing, Selected
<1> QED BY <1>1, <1>2 DEF IInv, Parsing

\* A recorded success means the newest ptr_limit filings of the index read are stored.
THEOREM SuccessComplete == Spec => SuccessIsComplete
<1> DEFINE Backed ==
      status' = "success" /\ status # "success" =>
        \A f \in run.listed :
          Cardinality({g \in run.listed : g > f}) < Limit => Complete(f)
<1>1. IInv /\ [Next]_vars => [Backed]_vars
  BY SuccessStep
<1> QED BY <1>1, Invariance, PTL DEF Spec, SuccessIsComplete

-----------------------------------------------------------------------------
(* The broker's snapshots.                                                  *)

\* Ticks since the clock last stood at t.
Behind(t) == IF t <= tick THEN tick - t ELSE tick + DayLength - t

\* The slot at t came round after the fill.
Passed(t) == Behind(t) < fill.age

\* The fill waits to be stored and there is no cause on record to lose it.
Unexcused == Snapshot!Untold /\ ~shut /\ missed = 0

\* The run has been answered with the executions of the fill's Gateway.
Queried == proc.mode > fill.mode \/ (proc.mode = fill.mode /\ proc.dataset > 3)

\* Without a cause a fill sees at most one slot: a daemon that waits has stored what was
\* there before, one that is down counts every slot as missed, and only a kill in the
\* slot's own tick comes between.  As a day has two slots the fill is less than a day old.
Young ==
  Unexcused =>
    /\ fill.age < DayLength
    /\ fill.age > 0 => session
    /\ \A a, b \in AtTicks : Passed(a) /\ Passed(b) => a = b
    /\ proc.pc = "wait" => \A a \in AtTicks : Passed(a) => proc.due /\ a = tick
    /\ proc.pc = "run" /\ Queried /\ ~proc.bad => fill.age = 0
    /\ proc.pc = "report" => fill.age = 0

\* The inductive invariant of the snapshots.
SnapshotInv == Snapshot!TypeOK /\ Young

\* Where the daemon may be, and what it knows there.
Points == {"down", "start", "run", "report", "wait"}
Daemon == [pc : Points, mode : 1 .. 3, dataset : 0 .. 4, ok : BOOLEAN, bad : BOOLEAN,
           due : BOOLEAN, stopping : BOOLEAN]

\* A daemon that begins anew, at any point.
LEMMA AnewType ==
  ASSUME NEW p \in Points, NEW s \in BOOLEAN
  PROVE  /\ Snapshot!Down \in Daemon /\ Snapshot!Down.pc = "down"
         /\ [Snapshot!Down EXCEPT !.pc = p] \in Daemon
         /\ [Snapshot!Down EXCEPT !.pc = p].pc = p
         /\ [Snapshot!Down EXCEPT !.pc = p, !.stopping = s] \in Daemon
         /\ [Snapshot!Down EXCEPT !.pc = p, !.stopping = s].pc = p
<1>1. 1 \in 1 .. 3 /\ 0 \in 0 .. 4
  OBVIOUS
<1>2. "down" \in Points
  BY DEF Points
<1> QED BY <1>1, <1>2 DEF Snapshot!Down, Daemon

\* A step that updates what the daemon knows.
LEMMA UpdateType ==
  ASSUME NEW r \in Daemon
  PROVE  /\ \A p \in Points : [r EXCEPT !.pc = p] \in Daemon
         /\ \A d \in 0 .. 4 : [r EXCEPT !.dataset = d] \in Daemon
         /\ \A m \in 1 .. 3, d \in 0 .. 4 : [r EXCEPT !.mode = m, !.dataset = d] \in Daemon
         /\ \A b \in BOOLEAN : [r EXCEPT !.ok = b] \in Daemon
         /\ \A b \in BOOLEAN : [r EXCEPT !.bad = b] \in Daemon
         /\ \A b \in BOOLEAN : [r EXCEPT !.due = b] \in Daemon
         /\ \A b \in BOOLEAN : [r EXCEPT !.stopping = b] \in Daemon
BY DEF Daemon

\* The fields of a daemon, and what the updates leave alone.
LEMMA DaemonFields ==
  ASSUME NEW r \in Daemon
  PROVE  /\ r.pc \in Points /\ r.mode \in 1 .. 3 /\ r.dataset \in 0 .. 4
         /\ r.bad \in BOOLEAN /\ r.due \in BOOLEAN /\ r.stopping \in BOOLEAN
         /\ \A p : [r EXCEPT !.pc = p].pc = p
         /\ \A d : LET u == [r EXCEPT !.dataset = d]
                  IN  u.pc = r.pc /\ u.bad = r.bad /\ u.mode = r.mode /\ u.dataset = d
         /\ \A m, d : LET u == [r EXCEPT !.mode = m, !.dataset = d]
                     IN  u.pc = r.pc /\ u.bad = r.bad /\ u.mode = m /\ u.dataset = d
         /\ \A b : LET u == [r EXCEPT !.ok = b]
                  IN  u.pc = r.pc /\ u.bad = r.bad /\ u.mode = r.mode /\ u.dataset = r.dataset
         /\ \A b : LET u == [r EXCEPT !.bad = b]
                  IN  u.pc = r.pc /\ u.bad = b /\ u.mode = r.mode /\ u.dataset = r.dataset
         /\ \A b : LET u == [r EXCEPT !.due = b]
                  IN  u.pc = r.pc /\ u.due = b
         /\ \A b : LET u == [r EXCEPT !.stopping = b]
                  IN  /\ u.pc = r.pc /\ u.bad = r.bad /\ u.mode = r.mode
                      /\ u.dataset = r.dataset /\ u.due = r.due
BY DEF Daemon

\* Nothing is stored, lost or known of the broker at first.
LEMMA SnapshotInit == Snapshot!Init => SnapshotInv
<1> USE DaemonAssumption DEF Snapshot!SnapshotAssumption
<1> SUFFICES ASSUME Snapshot!Init PROVE SnapshotInv
  OBVIOUS
<1>1. Snapshot!TypeOK
  <2>1. proc \in Daemon
    BY AnewType DEF Snapshot!Init, Points
  <2>2. fill \in [mode : 1 .. 2, age : Snapshot!Absent .. Snapshot!Lost]
    BY DEF Snapshot!Init, Snapshot!Absent, Snapshot!Lost
  <2>3. tick \in 0 .. DayLength - 1 /\ closed \in 0 .. MaxClosed /\ missed \in 0 .. 2
        /\ lockfile \in Snapshot!Absent .. Stale
    BY DEF Snapshot!Init, Snapshot!Absent
  <2>4. session \in BOOLEAN /\ shut \in BOOLEAN /\ row = "none" /\ shown = "none"
    BY DEF Snapshot!Init
  <2> QED BY <2>1, <2>2, <2>3, <2>4 DEF Snapshot!TypeOK, Daemon, Points
<1>2. ~Snapshot!Untold
  BY DEF Snapshot!Init, Snapshot!Untold, Snapshot!Absent
<1> QED BY <1>1, <1>2 DEF SnapshotInv, Young, Unexcused

\* Where a step may put the daemon without disturbing the fill: what Young says of it there.
Placed(p) ==
  Unexcused =>
    /\ p.pc = "wait" => \A a \in AtTicks : Passed(a) => p.due /\ a = tick
    /\ /\ p.pc = "run" /\ ~p.bad
       /\ p.mode > fill.mode \/ (p.mode = fill.mode /\ p.dataset > 3)
       => fill.age = 0
    /\ p.pc = "report" => fill.age = 0

\* A step of the daemon that leaves time and the fill alone and counts no slot back.
LEMMA DaemonStep ==
  ASSUME SnapshotInv, UNCHANGED <<tick, session, closed, fill, shut>>,
         lockfile' \in -1 .. Stale,
         row' \in {"none", "running"} \cup Snapshot!Status,
         shown' \in {"none", "waiting", "ready", "incomplete", "error", "stopped"},
         missed' \in 0 .. 2, missed <= missed', proc' \in Daemon,
         Unexcused' => Placed(proc')
  PROVE  SnapshotInv'
<1>1. Snapshot!TypeOK'
  BY DEF SnapshotInv, Snapshot!TypeOK, Daemon, Points, Snapshot!Absent, Snapshot!Lost, Snapshot!Status
<1>2. Unexcused' => Unexcused
  BY DEF SnapshotInv, Snapshot!TypeOK, Unexcused, Snapshot!Untold
<1>3. \A a \in AtTicks : Passed(a)' = Passed(a)
  BY DEF Passed, Behind
<1>4. Young'
  BY <1>2, <1>3 DEF SnapshotInv, Young, Placed, Queried, Unexcused, Snapshot!Untold
<1> QED BY <1>1, <1>4 DEF SnapshotInv

\* The process starts, stops, dies, or its container is made again.
LEMMA ProcessSteps ==
  ASSUME SnapshotInv,
         \/ Snapshot!Start \/ Snapshot!Stop \/ Snapshot!Exit \/ Snapshot!Kill
         \/ Snapshot!Recreate \/ Snapshot!Announce
  PROVE  SnapshotInv'
<1> USE DaemonAssumption DEF Snapshot!SnapshotAssumption
<1>1. /\ UNCHANGED <<tick, session, closed, fill, shut, missed>>
      /\ lockfile' \in {lockfile, 0, -1}
      /\ row' = row
      /\ shown' \in {shown, "stopped", "waiting"}
      /\ \/ proc' = [Snapshot!Down EXCEPT !.pc = "start"]
         \/ proc' = [proc EXCEPT !.stopping = TRUE]
         \/ proc' = Snapshot!Down
         \/ proc' = proc
  BY DEF Snapshot!Start, Snapshot!Stop, Snapshot!Exit, Snapshot!Kill, Snapshot!Recreate,
         Snapshot!Announce, Snapshot!day, Snapshot!fate, Snapshot!Absent
<1>2. proc \in Daemon /\ lockfile \in -1 .. Stale /\ missed \in 0 .. 2
  BY DEF SnapshotInv, Snapshot!TypeOK, Daemon, Points, Snapshot!Absent
<1>3. proc' \in Daemon
  BY <1>1, <1>2, AnewType, UpdateType DEF Points
<1>4. Placed(proc')
  <2>1. Placed(proc)
    BY DEF SnapshotInv, Young, Placed, Queried
  <2>2. CASE proc' = [proc EXCEPT !.stopping = TRUE]
    BY <1>2, <2>1, <2>2, DaemonFields DEF Placed
  <2>3. CASE proc' = [Snapshot!Down EXCEPT !.pc = "start"] \/ proc' = Snapshot!Down
    <3>1. proc'.pc \in {"start", "down"}
      BY <2>3, AnewType DEF Points
    <3> QED BY <3>1 DEF Placed
  <2> QED BY <1>1, <2>1, <2>2, <2>3
<1>5. /\ row' \in {"none", "running"} \cup Snapshot!Status
      /\ shown' \in {"none", "waiting", "ready", "incomplete", "error", "stopped"}
  BY <1>1 DEF SnapshotInv, Snapshot!TypeOK
<1>6. lockfile' \in -1 .. Stale
  BY <1>1, <1>2
<1> QED BY <1>1, <1>2, <1>3, <1>4, <1>5, <1>6, DaemonStep

\* A run begins, or could not be recorded and counts as missed.
LEMMA StartRunStep == ASSUME SnapshotInv, Snapshot!StartRun PROVE SnapshotInv'
<1> USE DaemonAssumption DEF Snapshot!SnapshotAssumption
<1>1. /\ UNCHANGED <<tick, session, closed, fill, shut, lockfile, shown>>
      /\ \/ proc' = [Snapshot!Down EXCEPT !.pc = "run"] /\ row' = "running" /\ missed' = missed
         \/ proc' = [Snapshot!Down EXCEPT !.pc = "wait"] /\ row' = row /\ Snapshot!Count(1)
  BY DEF Snapshot!StartRun, Snapshot!day
<1>2. missed \in 0 .. 2 /\ fill.mode \in 1 .. 2 /\ lockfile \in -1 .. Stale
  BY DEF SnapshotInv, Snapshot!TypeOK, Snapshot!Absent
<1>3. missed' \in 0 .. 2 /\ missed <= missed'
  BY <1>1, <1>2 DEF Snapshot!Count
<1>4. proc' \in Daemon
  BY <1>1, AnewType DEF Points
<1>5. Unexcused' => Placed(proc')
  <2>1. CASE proc' = [Snapshot!Down EXCEPT !.pc = "run"]
    <3>1. proc'.pc = "run" /\ proc'.mode = 1 /\ proc'.dataset = 0
      BY <2>1 DEF Snapshot!Down
    <3> QED BY <1>2, <3>1 DEF Placed
  <2>2. CASE Snapshot!Count(1)
    <3>1. ~Unexcused'
      BY <1>1, <1>2, <2>2 DEF Unexcused, Snapshot!Count, Snapshot!Untold
    <3> QED BY <3>1
  <2> QED BY <1>1, <2>1, <2>2
<1>6. /\ row' \in {"none", "running"} \cup Snapshot!Status
      /\ shown' \in {"none", "waiting", "ready", "incomplete", "error", "stopped"}
  BY <1>1 DEF SnapshotInv, Snapshot!TypeOK
<1> QED BY <1>1, <1>2, <1>3, <1>4, <1>5, <1>6, DaemonStep

\* A Gateway is connected, or its unit fails.
LEMMA ConnectStep == ASSUME SnapshotInv, Snapshot!Connect PROVE SnapshotInv'
<1>1. /\ UNCHANGED <<tick, session, closed, fill, shut, missed, lockfile, row, shown>>
      /\ proc.pc = "run" /\ proc.mode <= 2 /\ proc.dataset = 0
      /\ \/ proc' = [proc EXCEPT !.dataset = 1]
         \/ proc' = [Snapshot!NextMode EXCEPT !.bad = TRUE]
  BY DEF Snapshot!Connect, Snapshot!day, Snapshot!fate, Snapshot!At
<1>2. /\ proc \in Daemon /\ lockfile \in -1 .. Stale /\ missed \in 0 .. 2 /\ fill.mode \in 1 .. 2
      /\ row \in {"none", "running"} \cup Snapshot!Status
      /\ shown \in {"none", "waiting", "ready", "incomplete", "error", "stopped"}
  BY DEF SnapshotInv, Snapshot!TypeOK, Daemon, Points, Snapshot!Absent
<1> DEFINE next == Snapshot!NextMode
<1>5. next \in Daemon /\ next.pc = "run"
  <2>1. proc.mode + 1 \in 1 .. 3 /\ next = [proc EXCEPT !.mode = proc.mode + 1, !.dataset = 0]
    BY <1>1, <1>2, DaemonFields DEF Snapshot!NextMode
  <2>2. 0 \in 0 .. 4
    OBVIOUS
  <2>3. next \in Daemon
    BY <1>2, <2>1, <2>2, UpdateType
  <2>4. next.pc = "run"
    BY <1>1, <1>2, <2>1, DaemonFields
  <2> QED BY <2>3, <2>4
<1> HIDE DEF next
<1>3. proc' \in Daemon
  <2>1. proc' = [proc EXCEPT !.dataset = 1] \/ proc' = [next EXCEPT !.bad = TRUE]
    BY <1>1 DEF next
  <2>2. 1 \in 0 .. 4 /\ TRUE \in BOOLEAN
    OBVIOUS
  <2>3. CASE proc' = [proc EXCEPT !.dataset = 1]
    BY <1>2, <2>2, <2>3, UpdateType
  <2>4. CASE proc' = [next EXCEPT !.bad = TRUE]
    BY <1>5, <2>2, <2>4, UpdateType
  <2> QED BY <2>1, <2>3, <2>4
<1>4. Placed(proc')
  <2>1. Placed(proc)
    BY DEF SnapshotInv, Young, Placed, Queried
  <2>2. CASE proc' = [proc EXCEPT !.dataset = 1]
    <3>1. proc'.pc = "run" /\ proc'.mode = proc.mode /\ proc'.dataset = 1 /\ proc'.bad = proc.bad
      BY <1>1, <1>2, <2>2, DaemonFields
    <3> QED BY <1>1, <2>1, <3>1 DEF Placed
  <2>3. CASE proc' = [next EXCEPT !.bad = TRUE]
    <3>1. proc'.pc = "run" /\ proc'.bad
      BY <1>5, <2>3, DaemonFields
    <3> QED BY <3>1 DEF Placed
  <2> QED BY <1>1, <2>2, <2>3 DEF next
<1> QED BY <1>1, <1>2, <1>3, <1>4, DaemonStep

\* One dataset: executions that were asked for well hold the fill.
LEMMA DatasetStep == ASSUME SnapshotInv, Snapshot!Dataset PROVE SnapshotInv'
<1> USE DaemonAssumption DEF Snapshot!SnapshotAssumption
<1>1. PICK ok \in BOOLEAN :
        LET done == IF ok THEN [proc EXCEPT !.ok = TRUE] ELSE [proc EXCEPT !.bad = TRUE]
            has  == /\ Snapshot!Datasets[proc.dataset] = "executions" /\ fill.mode = proc.mode
                    /\ Snapshot!Untold /\ Snapshot!Asked
        IN  /\ proc' = IF proc.dataset = 4 THEN [done EXCEPT !.mode = @ + 1, !.dataset = 0]
                       ELSE [done EXCEPT !.dataset = @ + 1]
            /\ \/ has /\ Snapshot!Forget
               \/ (~has \/ ~ok \/ Snapshot!MayBeOut) /\ UNCHANGED <<fill, missed, shut>>
  BY DEF Snapshot!Dataset, Snapshot!fate
<1>2. /\ UNCHANGED <<tick, session, closed, lockfile, row, shown>>
      /\ proc.pc = "run" /\ proc.mode <= 2 /\ proc.dataset > 0
  BY DEF Snapshot!Dataset, Snapshot!day, Snapshot!At
<1>3. /\ proc \in Daemon /\ lockfile \in -1 .. Stale /\ missed \in 0 .. 2
      /\ row \in {"none", "running"} \cup Snapshot!Status
      /\ shown \in {"none", "waiting", "ready", "incomplete", "error", "stopped"}
  BY DEF SnapshotInv, Snapshot!TypeOK, Daemon, Points, Snapshot!Absent
<1>4. fill \in [mode : 1 .. 2, age : -1 .. Snapshot!Lost]
  BY DEF SnapshotInv, Snapshot!TypeOK, Snapshot!Absent
<1>5. /\ proc'.pc = "run" /\ (proc.bad \/ ~ok => proc'.bad) /\ proc' \in Daemon
      /\ proc.dataset = 4 => proc'.mode = proc.mode + 1 /\ proc'.dataset = 0
      /\ proc.dataset # 4 => proc'.mode = proc.mode /\ proc'.dataset = proc.dataset + 1
  <2> DEFINE done == IF ok THEN [proc EXCEPT !.ok = TRUE] ELSE [proc EXCEPT !.bad = TRUE]
  <2>1. done \in Daemon
    BY <1>3, UpdateType
  <2>2. /\ done.pc = "run" /\ done.mode = proc.mode /\ done.dataset = proc.dataset
        /\ done.bad = IF ok THEN proc.bad ELSE TRUE
    BY <1>2, <1>3, DaemonFields
  <2>3. proc' = IF proc.dataset = 4 THEN [done EXCEPT !.mode = @ + 1, !.dataset = 0]
                ELSE [done EXCEPT !.dataset = @ + 1]
    BY <1>1
  <2> HIDE DEF done
  <2>4. proc.mode + 1 \in 1 .. 3 /\ (proc.dataset # 4 => proc.dataset + 1 \in 0 .. 4) /\ 0 \in 0 .. 4
    BY <1>2, <1>3, DaemonFields
  <2>5. CASE proc.dataset = 4
    <3>1. proc' = [done EXCEPT !.mode = proc.mode + 1, !.dataset = 0]
      BY <2>2, <2>3, <2>5
    <3>2. proc' \in Daemon
      BY <2>1, <2>4, <2>5, <3>1, UpdateType
    <3>3. /\ proc'.pc = done.pc /\ proc'.bad = done.bad
          /\ proc'.mode = proc.mode + 1 /\ proc'.dataset = 0
      BY <2>1, <3>1, DaemonFields
    <3> QED BY <2>2, <2>5, <3>2, <3>3
  <2>6. CASE proc.dataset # 4
    <3>1. proc' = [done EXCEPT !.dataset = proc.dataset + 1]
      BY <2>2, <2>3, <2>6
    <3>2. proc' \in Daemon
      BY <2>1, <2>4, <2>6, <3>1, UpdateType
    <3>3. /\ proc'.pc = done.pc /\ proc'.bad = done.bad
          /\ proc'.mode = done.mode /\ proc'.dataset = proc.dataset + 1
      BY <2>1, <3>1, DaemonFields
    <3> QED BY <2>2, <2>6, <3>2, <3>3
  <2> QED BY <2>5, <2>6
<1>6. CASE Snapshot!Forget
  <2>1. fill'.age = -1 /\ missed' = 0 /\ shut' = FALSE
        /\ fill' \in [mode : 1 .. 2, age : -1 .. Snapshot!Lost]
    BY <1>4, <1>6 DEF Snapshot!Forget, Snapshot!Absent, Snapshot!Lost
  <2>2. tick \in 0 .. DayLength - 1 /\ session \in BOOLEAN /\ closed \in 0 .. MaxClosed
    BY DEF SnapshotInv, Snapshot!TypeOK
  <2>5. UNCHANGED <<tick, session, closed, lockfile, row, shown>> /\ proc' \in Daemon
    BY <1>2, <1>5
  <2>6. missed' \in 0 .. 2
    BY <2>1
  <2>7. shut' \in BOOLEAN
    BY <2>1
  <2>4. Snapshot!TypeOK'
    BY <1>3, <2>1, <2>2, <2>5, <2>6, <2>7 DEF Snapshot!TypeOK, Daemon, Points, Snapshot!Absent, Snapshot!Lost,
       Snapshot!Status
  <2>3. ~Unexcused'
    BY <2>1 DEF Unexcused, Snapshot!Untold, Snapshot!Absent
  <2> QED BY <2>3, <2>4 DEF SnapshotInv, Young
<1>7. CASE UNCHANGED <<fill, missed, shut>> /\ ~Snapshot!Forget
  <2>1. Placed(proc)
    BY DEF SnapshotInv, Young, Placed, Queried
  <2>2. ASSUME Unexcused, ~proc'.bad, proc'.mode > fill.mode \/ (proc'.mode = fill.mode /\ proc'.dataset > 3)
        PROVE  fill.age = 0
    <3>1. ~proc.bad /\ ok
      BY <1>5, <2>2
    <3>2. CASE Queried
      BY <1>2, <2>1, <2>2, <3>1, <3>2 DEF Placed, Queried
    <3>3. CASE ~Queried
      <4>1. proc.mode = fill.mode /\ proc.dataset = 3
        BY <1>2, <1>3, <1>4, <1>5, <2>2, <3>3, DaemonFields DEF Queried
      <4>2. Snapshot!Datasets[proc.dataset] = "executions"
        BY <4>1 DEF Snapshot!Datasets
      <4>3. fill.age < DayLength /\ Snapshot!Untold
        BY <2>2 DEF SnapshotInv, Young, Unexcused
      <4>4. Snapshot!Asked /\ ~Snapshot!MayBeOut
        BY <1>4, <4>3 DEF Snapshot!Asked, Snapshot!MayBeOut, Snapshot!Lost
      <4> QED BY <1>1, <1>7, <3>1, <4>1, <4>2, <4>3, <4>4
    <3> QED BY <3>2, <3>3
  <2>3. Placed(proc')
    BY <1>5, <2>2 DEF Placed
  <2> QED BY <1>2, <1>3, <1>5, <1>7, <2>3, DaemonStep
<1> QED BY <1>1, <1>6, <1>7

\* The end of a run is recorded: unless every unit went well the slot counts as missed.
LEMMA FinishRunStep == ASSUME SnapshotInv, Snapshot!FinishRun PROVE SnapshotInv'
<1>1. /\ UNCHANGED <<tick, session, closed, fill, shut, lockfile, shown>>
      /\ proc.pc = "run" /\ proc.mode = 3
      /\ \/ /\ row' = Snapshot!RunStatus /\ proc' = [proc EXCEPT !.pc = "report"]
            /\ Snapshot!Count(IF Snapshot!RunStatus = "success" THEN 0 ELSE 1)
         \/ /\ proc' = [Snapshot!Down EXCEPT !.pc = "wait", !.stopping = proc.stopping]
            /\ row' = row /\ Snapshot!Count(1)
  BY DEF Snapshot!FinishRun, Snapshot!day, Snapshot!At
<1>2. /\ proc \in Daemon /\ lockfile \in -1 .. Stale /\ missed \in 0 .. 2 /\ fill.mode \in 1 .. 2
      /\ row \in {"none", "running"} \cup Snapshot!Status
      /\ shown \in {"none", "waiting", "ready", "incomplete", "error", "stopped"}
  BY DEF SnapshotInv, Snapshot!TypeOK, Daemon, Points, Snapshot!Absent
<1>3. missed' \in 0 .. 2 /\ missed <= missed'
  BY <1>1, <1>2 DEF Snapshot!Count
<1>4. proc' \in Daemon
  <2>1. "report" \in Points /\ "wait" \in Points
    BY DEF Points
  <2>2. proc.stopping \in BOOLEAN
    BY <1>2, DaemonFields
  <2>3. CASE proc' = [proc EXCEPT !.pc = "report"]
    BY <1>2, <2>1, <2>3, UpdateType
  <2>4. CASE proc' = [Snapshot!Down EXCEPT !.pc = "wait", !.stopping = proc.stopping]
    BY <2>1, <2>2, <2>4, AnewType
  <2> QED BY <1>1, <2>3, <2>4
<1>5. row' \in {"none", "running"} \cup Snapshot!Status
  BY <1>1, <1>2 DEF Snapshot!RunStatus, Snapshot!Status
<1>6. Unexcused' => Placed(proc')
  <2>1. CASE Snapshot!Count(1)
    <3>1. ~Unexcused'
      BY <1>1, <1>2, <2>1 DEF Unexcused, Snapshot!Count, Snapshot!Untold
    <3> QED BY <3>1
  <2>2. CASE ~Snapshot!Count(1)
    <3>1. Snapshot!RunStatus = "success" /\ proc' = [proc EXCEPT !.pc = "report"]
      BY <1>1, <2>2
    <3>2. ~proc.bad
      BY <3>1 DEF Snapshot!RunStatus
    <3>3. proc'.pc = "report"
      BY <1>2, <3>1, DaemonFields
    <3>4. Queried
      BY <1>1, <1>2 DEF Queried
    <3>5. Unexcused => fill.age = 0
      BY <1>1, <3>2, <3>4 DEF SnapshotInv, Young
    <3> QED BY <3>3, <3>5 DEF Placed
  <2> QED BY <2>1, <2>2
<1> QED BY <1>1, <1>2, <1>3, <1>4, <1>5, <1>6, DaemonStep

\* The run is reported and the daemon waits: a fill of this tick has seen no slot yet.
LEMMA ReportStep == ASSUME SnapshotInv, Snapshot!Report PROVE SnapshotInv'
<1> USE DaemonAssumption DEF Snapshot!SnapshotAssumption
<1>1. /\ UNCHANGED <<tick, session, closed, fill, shut, missed, lockfile, row>>
      /\ proc.pc = "report"
      /\ proc' = [Snapshot!Down EXCEPT !.pc = "wait", !.stopping = proc.stopping]
      /\ shown' \in {shown, "ready", "incomplete", "error"}
  BY DEF Snapshot!Report, Snapshot!day, Snapshot!fate, Snapshot!At
<1>2. /\ proc \in Daemon /\ lockfile \in -1 .. Stale /\ missed \in 0 .. 2
      /\ row \in {"none", "running"} \cup Snapshot!Status
      /\ shown \in {"none", "waiting", "ready", "incomplete", "error", "stopped"}
      /\ tick \in 0 .. DayLength - 1
  BY DEF SnapshotInv, Snapshot!TypeOK, Daemon, Points, Snapshot!Absent
<1>3. proc' \in Daemon
  BY <1>1, <1>2, AnewType, UpdateType, DaemonFields DEF Points
<1>4. Placed(proc')
  <2>1. proc'.pc = "wait"
    BY <1>1, <1>2, AnewType, DaemonFields DEF Points
  <2>2. Unexcused => fill.age = 0
    BY <1>1 DEF SnapshotInv, Young
  <2>3. fill.age = 0 => \A a \in AtTicks : ~Passed(a)
    BY <1>2 DEF Passed, Behind
  <2> QED BY <2>1, <2>2, <2>3 DEF Placed
<1>5. shown' \in {"none", "waiting", "ready", "incomplete", "error", "stopped"}
  BY <1>1, <1>2
<1> QED BY <1>1, <1>2, <1>3, <1>4, <1>5, DaemonStep

\* A fill that was just made has seen no slot.
LEMMA TradeStep == ASSUME SnapshotInv, Snapshot!Trade PROVE SnapshotInv'
<1> USE DaemonAssumption DEF Snapshot!SnapshotAssumption
<1>1. PICK m \in 1 .. 2 : fill' = [mode |-> m, age |-> 0]
  BY DEF Snapshot!Trade
<1>2. UNCHANGED <<tick, session, closed, lockfile, proc, row, shown, missed, shut>>
  BY DEF Snapshot!Trade, Snapshot!day, Snapshot!fate
<1>3. fill' \in [mode : 1 .. 2, age : -1 .. Snapshot!Lost] /\ fill'.age = 0
  BY <1>1 DEF Snapshot!Lost
<1>4. Snapshot!TypeOK'
  BY <1>2, <1>3 DEF SnapshotInv, Snapshot!TypeOK, Snapshot!Absent, Snapshot!Lost, Snapshot!Status
<1>5. tick \in 0 .. DayLength - 1
  BY DEF SnapshotInv, Snapshot!TypeOK
<1>6. \A a \in AtTicks : ~Passed(a)'
  BY <1>2, <1>3, <1>5 DEF Passed, Behind
<1>7. Young'
  BY <1>3, <1>6 DEF Young
<1> QED BY <1>4, <1>7 DEF SnapshotInv

\* A tick moves every slot one tick back, but for the one it reaches.
LEMMA TickBehind ==
  ASSUME tick \in 0 .. DayLength - 1, tick' = (IF tick = DayLength - 1 THEN 0 ELSE tick + 1),
         NEW t \in 0 .. DayLength - 1
  PROVE  Behind(t)' = IF t = tick' THEN 0 ELSE Behind(t) + 1
BY DaemonAssumption DEF Snapshot!SnapshotAssumption, Behind

\* Time goes by: the slot that comes is missed by a daemon that is down and due to one
\* that waits, which has stored what there was before.
LEMMA TickStep == ASSUME SnapshotInv, Snapshot!Tick PROVE SnapshotInv'
<1> USE DaemonAssumption DEF Snapshot!SnapshotAssumption
<1>1. /\ proc.pc = "down" \/ (proc.pc = "wait" /\ ~proc.due)
      /\ tick' = IF tick = DayLength - 1 THEN 0 ELSE tick + 1
      /\ proc' = [proc EXCEPT !.due = (proc.pc = "wait" /\ session' /\ tick' \in AtTicks)]
      /\ UNCHANGED <<row, shown>>
      /\ shut' = (shut \/ (Snapshot!Untold /\ ~session'))
      /\ Snapshot!Count(IF proc.pc = "down" /\ session' /\ tick' \in AtTicks THEN 1 ELSE 0)
  BY DEF Snapshot!Tick, Snapshot!At, Snapshot!DueAt
<1>2. fill' = IF Snapshot!Untold /\ fill.age < Snapshot!Lost THEN [fill EXCEPT !.age = @ + 1] ELSE fill
  BY DEF Snapshot!Tick
<1>3. lockfile' = IF lockfile \in 0 .. Stale - 1 THEN lockfile + 1 ELSE lockfile
  BY DEF Snapshot!Tick
<1>4. /\ proc \in Daemon /\ lockfile \in -1 .. Stale /\ missed \in 0 .. 2
      /\ fill \in [mode : 1 .. 2, age : -1 .. Snapshot!Lost]
      /\ tick \in 0 .. DayLength - 1 /\ session \in BOOLEAN /\ closed \in 0 .. MaxClosed
  BY DEF SnapshotInv, Snapshot!TypeOK, Daemon, Points, Snapshot!Absent
<1>5. session' \in BOOLEAN /\ closed' \in 0 .. MaxClosed
  <2>1. \/ UNCHANGED <<session, closed>>
        \/ session' = TRUE /\ closed' = 0
        \/ closed < MaxClosed /\ session' = FALSE /\ closed' = closed + 1
    BY DEF Snapshot!Tick
  <2>2. session' \in BOOLEAN
    BY <1>4, <2>1
  <2>3. closed' \in 0 .. MaxClosed
    BY <1>4, <2>1
  <2> QED BY <2>2, <2>3
<1>6. tick' \in 0 .. DayLength - 1
  BY <1>1, <1>4
<1>7. fill' \in [mode : 1 .. 2, age : -1 .. Snapshot!Lost]
  BY <1>2, <1>4 DEF Snapshot!Lost
<1>8. /\ proc'.pc = proc.pc /\ proc' \in Daemon
      /\ proc'.due = (proc.pc = "wait" /\ session' /\ tick' \in AtTicks)
  <2> DEFINE due == proc.pc = "wait" /\ session' /\ tick' \in AtTicks
  <2>1. due \in BOOLEAN /\ proc' = [proc EXCEPT !.due = due]
    BY <1>1
  <2> HIDE DEF due
  <2>2. proc' \in Daemon
    BY <1>4, <2>1, UpdateType
  <2>3. proc'.pc = proc.pc /\ proc'.due = due
    BY <1>4, <2>1, DaemonFields
  <2> QED BY <2>2, <2>3 DEF due
<1>9. missed' \in 0 .. 2 /\ missed <= missed'
  BY <1>1, <1>4 DEF Snapshot!Count
<1>10. lockfile' \in -1 .. Stale
  BY <1>3, <1>4
<1>11. shut' \in BOOLEAN
  BY <1>1 DEF SnapshotInv, Snapshot!TypeOK
<1>12. Snapshot!TypeOK'
  BY <1>1, <1>5, <1>6, <1>7, <1>8, <1>9, <1>10, <1>11
     DEF SnapshotInv, Snapshot!TypeOK, Snapshot!Absent, Daemon, Points, Snapshot!Lost, Snapshot!Status
<1>13. Young'
  <2> SUFFICES ASSUME Unexcused'
               PROVE  /\ fill'.age < DayLength
                      /\ session'
                      /\ \A a, b \in AtTicks : Passed(a)' /\ Passed(b)' => a = b
                      /\ proc'.pc = "wait" => \A a \in AtTicks : Passed(a)' => proc'.due /\ a = tick'
    BY <1>1, <1>8 DEF Young
  <2>1. Snapshot!Untold
    BY <1>2, <1>4 DEF Unexcused, Snapshot!Untold, Snapshot!Absent
  <2>2. ~shut /\ session'
    BY <1>1, <2>1 DEF Unexcused
  <2>3. missed = 0 /\ ~(proc.pc = "down" /\ tick' \in AtTicks)
    BY <1>1, <1>4, <1>9, <2>1, <2>2 DEF Unexcused, Snapshot!Count
  <2>4. Unexcused
    BY <2>1, <2>2, <2>3 DEF Unexcused
  <2>5. fill'.age = fill.age + 1 /\ fill.age \in 0 .. DayLength - 1
    <3>1. fill.age < DayLength /\ fill.age # -1
      BY <2>1, <2>4 DEF SnapshotInv, Young, Snapshot!Untold, Snapshot!Absent
    <3>2. fill.age < Snapshot!Lost
      BY <1>4, <3>1 DEF Snapshot!Lost
    <3> QED BY <1>2, <1>4, <2>1, <3>1, <3>2 DEF Snapshot!Lost
  <2>6. \A a \in AtTicks : Behind(a)' = IF a = tick' THEN 0 ELSE Behind(a) + 1
    BY <1>1, <1>4, TickBehind
  <2>7. \A a \in AtTicks : Behind(a) \in 0 .. DayLength - 1
    BY <1>4 DEF Behind
  <2>8. \A a \in AtTicks : Passed(a)' => a = tick' \/ Passed(a)
    BY <2>5, <2>6, <2>7 DEF Passed
  <2>9. \A a, b \in AtTicks : Passed(a) /\ Passed(b) => a = b
    BY <2>4 DEF SnapshotInv, Young
  <2>10. proc.pc = "wait" => \A a \in AtTicks : ~Passed(a)
    BY <1>1, <2>4 DEF SnapshotInv, Young
  <2>11. \A a, b \in AtTicks : Passed(a)' /\ Passed(b)' => a = b
    BY <1>1, <2>3, <2>8, <2>9, <2>10
  <2>12. fill'.age < DayLength
    <3> SUFFICES ASSUME ~(fill'.age < DayLength) PROVE FALSE
      OBVIOUS
    <3>1. \A a \in AtTicks : Behind(a)' <= DayLength
      BY <2>6, <2>7
    <3>2. \A a \in AtTicks : Passed(a)'
      BY <1>6, <2>5, <3>1 DEF Passed, Behind
    <3> QED BY <2>11, <3>2
  <2> QED BY <1>8, <2>2, <2>8, <2>10, <2>11, <2>12
<1> QED BY <1>12, <1>13 DEF SnapshotInv

\* Every step of the daemon, the broker and the clock keeps the invariant.
LEMMA SnapshotStep == SnapshotInv /\ Snapshot!Next => SnapshotInv'
BY ProcessSteps, StartRunStep, ConnectStep, DatasetStep, FinishRunStep, ReportStep, TradeStep, TickStep
   DEF Snapshot!Next

\* While the snapshots rest nothing of theirs changes.
LEMMA SnapshotRests == SnapshotInv /\ UNCHANGED snapshotVars => SnapshotInv'
<1> SUFFICES ASSUME SnapshotInv, UNCHANGED snapshotVars PROVE SnapshotInv'
  OBVIOUS
<1>1. UNCHANGED <<tick, session, closed, fill, lockfile, proc, row, shown, missed, shut>>
  BY DEF snapshotVars
<1>2. Snapshot!TypeOK'
  BY <1>1 DEF SnapshotInv, Snapshot!TypeOK, Snapshot!Absent, Snapshot!Lost, Snapshot!Status
<1>3. Young'
  BY <1>1 DEF SnapshotInv, Young, Unexcused, Queried, Passed, Behind, Snapshot!Untold, Snapshot!Absent
<1> QED BY <1>2, <1>3 DEF SnapshotInv

-----------------------------------------------------------------------------
(* All the jobs.                                                            *)

\* A step of the composition is a step of the political job or leaves it alone.
LEMMA JobsStep == [JobsNext]_allVars => [Next]_vars
BY DEF JobsNext, Political, Migrate, Photograph, allVars

\* The invariants of the political job and of the snapshots hold side by side.
THEOREM JobsInvariance == JobsSpec => [](IInv /\ SnapshotInv)
<1>1. JobsInit => IInv /\ SnapshotInv
  BY InvInit, SnapshotInit DEF JobsInit
<1>2. IInv /\ SnapshotInv /\ [JobsNext]_allVars => IInv' /\ SnapshotInv'
  <2> SUFFICES ASSUME IInv, SnapshotInv, [JobsNext]_allVars PROVE IInv' /\ SnapshotInv'
    OBVIOUS
  <2>1. IInv'
    BY JobsStep, InvStep
  <2>2. Snapshot!Next \/ UNCHANGED snapshotVars
    BY DEF JobsNext, Political, Migrate, Photograph, allVars
  <2> QED BY <2>1, <2>2, SnapshotStep, SnapshotRests
<1> QED BY <1>1, <1>2, PTL DEF JobsSpec

\* A fill of the broker is lost only over a day without a session or after a slot without
\* a successful run, for every day, set of slots and look-back of a day or more.
THEOREM LossExplained == JobsSpec => []LossHasACause
<1>1. SnapshotInv => LossHasACause
  <2> SUFFICES ASSUME SnapshotInv, fill.age = Snapshot!Lost, ~shut, ~(missed > 0) PROVE FALSE
    BY DEF LossHasACause, Snapshot!LossHasACause
  <2>1. missed = 0 /\ fill.age = Lookback + 1 /\ Lookback \in Nat /\ DayLength \in Nat /\ DayLength <= Lookback
    BY DaemonAssumption DEF Snapshot!SnapshotAssumption, SnapshotInv, Snapshot!TypeOK, Snapshot!Lost
  <2>2. Unexcused
    BY <2>1 DEF Unexcused, Snapshot!Untold, Snapshot!Absent
  <2> QED BY <2>1, <2>2 DEF SnapshotInv, Young
<1> QED BY <1>1, JobsInvariance, PTL

\* Beside the other jobs the political job keeps what it promises alone.
THEOREM JobsCountsBacked == JobsSpec => []CountBacked
<1>1. IInv => CountBacked
  <2> SUFFICES ASSUME IInv, NEW f \in AllFilings, count[f] > 0
               PROVE  count[f] = pdf[f] /\ rows[f] # {}
    BY DEF CountBacked
  <2> QED BY DEF IInv, Counted, NoRow
<1> QED BY <1>1, JobsInvariance, PTL

\* Beside the other jobs a recorded success still means a completely stored selection.
THEOREM JobsSuccessComplete == JobsSpec => SuccessIsComplete
<1> DEFINE Backed ==
      status' = "success" /\ status # "success" =>
        \A f \in run.listed :
          Cardinality({g \in run.listed : g > f}) < Limit => Complete(f)
<1>1. IInv /\ [JobsNext]_allVars => [Backed]_vars
  BY SuccessStep, JobsStep
<1> QED BY <1>1, JobsInvariance, PTL DEF JobsSpec, SuccessIsComplete

=============================================================================
