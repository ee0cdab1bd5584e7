--------------------------- MODULE CatalogService ---------------------------
(***************************************************************************)
(* The data catalog of the hub, as the threads of the API serve it.         *)
(* Three answers are shared: the overview (HubOverviewService), the schema  *)
(* and the markets (CatalogService); each is read without its lock, checked *)
(* again under it and loaded again when its time is over.  Previews take    *)
(* one of a few query slots, which a CSV download keeps for as long as its  *)
(* client reads.                                                           *)
(*                                                                         *)
(* A request is the path of steps that it has still to take.                *)
(***************************************************************************)
EXTENDS Integers, Sequences

CONSTANTS
  Readers,  \* threads of the API
  Slots,    \* QuerySlots
  None,     \* holder of a free lock
  Ttl,      \* Ttl[x]: the time x is kept
  Late      \* bound on the time counted in spent

Shared == {"overview", "schema", "markets"}

ASSUME CatalogAssumption ==
  /\ None \notin Readers /\ Slots \in Nat
  /\ Ttl \in [Shared -> Nat]
  /\ Late \in Nat /\ Ttl["overview"] <= Late

VARIABLES
  path,   \* path[r]: steps left of r's request
  spent,  \* spent[r]: time since r looked at the overview, or took the lock to load it
  age,    \* the age of the overview kept, -1 if there is none yet
  left,   \* left[x]: time left until x expires, 0 if there is no x
  lock,   \* lock[x]: who holds the lock of x
  free    \* free query slots

caches == <<age, left, lock>>
vars   == <<path, spent, caches, free>>

Oldest == Ttl["overview"] + Late  \* bound on the ages told apart

-----------------------------------------------------------------------------
(* Requests. *)

Get(x)  == <<<<"get", x>>>>
Slotted == <<<<"slot", "">>, <<"query", "">>>>
Free    == <<<<"ask", "">>>>

\* table_info: with a country, time windows are anchored on its market.
TableInfo(country) ==
  Get("schema") \o Get("overview") \o IF country THEN Get("markets") ELSE <<>>

OverviewRequest  == Get("overview")
\* _summary looks the markets up for every table: the model follows the first look.
IndexRequest     == Get("overview") \o Get("schema") \o Get("markets")
DetailRequest    == Get("schema") \o Get("overview") \o Get("markets")
RowsRequest(c)   == TableInfo(c) \o Slotted
StatsRequest(c)  == TableInfo(c) \o Slotted
CsvRequest(c)    == TableInfo(c) \o <<<<"slot", "">>, <<"open", "">>, <<"start", "">>, <<"stream", "">>>>
ActivityRequest(c, charted) == TableInfo(c) \o (IF charted THEN Slotted ELSE <<>>) \o Free
PipelinesRequest == Free
RunsRequest      == Free

Requests ==
  {OverviewRequest, IndexRequest, DetailRequest, PipelinesRequest, RunsRequest}
    \cup (UNION {{RowsRequest(c), StatsRequest(c), CsvRequest(c)} : c \in BOOLEAN})
    \cup {ActivityRequest(c, d) : c, d \in BOOLEAN}

\* A refresh of the markets holds its lock while it gets the overview and the schema.
Refresh(x) ==
  (IF x = "markets" THEN Get("overview") \o Get("schema") ELSE <<>>) \o <<<<"load", x>>>>

Serving(r)    == path[r] # <<>>
At(r, op)     == Serving(r) /\ path[r][1][1] = op
Of(r)         == path[r][1][2]
Goto(r, rest) == path' = [path EXCEPT ![r] = rest]
Become(r, op) == Goto(r, <<<<op, Of(r)>>>> \o Tail(path[r]))
Advance(r)    == Goto(r, Tail(path[r]))
End(r)        == Goto(r, <<>>)

\* Between acquire and release of a slot.
Holding(r) == \E op \in {"query", "open", "start", "stream"} : At(r, op)

TypeOK ==
  /\ \A r \in Readers : \A i \in DOMAIN path[r] : path[r][i][2] \in Shared \cup {""}
  /\ spent \in [Readers -> 0 .. Late]
  /\ age \in -1 .. Oldest
  /\ \A x \in Shared : left[x] \in 0 .. Ttl[x] /\ lock[x] \in Readers \cup {None}
  /\ free \in 0 .. Slots

Begin(r) ==
  /\ ~Serving(r)
  /\ \E request \in Requests : Goto(r, request)
  /\ UNCHANGED <<spent, caches, free>>

-----------------------------------------------------------------------------
(* The shared values. *)

\* The look without the lock.  The overview is two fields: its expiry is read before it.
Look(r) ==
  /\ At(r, "get")
  /\ IF left[Of(r)] = 0 THEN Become(r, "lock")
     ELSE IF Of(r) = "overview" THEN Become(r, "take") ELSE Advance(r)
  /\ UNCHANGED <<spent, caches, free>>

Take(r) ==
  /\ At(r, "take")
  /\ Advance(r)
  /\ spent' = [spent EXCEPT ![r] = 0]
  /\ UNCHANGED <<caches, free>>

Unchecked(x) == FALSE
Rechecked(x) == left[x] > 0

Lock(r) ==
  /\ At(r, "lock") /\ lock[Of(r)] = None
  /\ IF Rechecked(Of(r))
     THEN Advance(r) /\ UNCHANGED lock
     ELSE Goto(r, Refresh(Of(r)) \o Tail(path[r])) /\ lock' = [lock EXCEPT ![Of(r)] = r]
  /\ UNCHANGED <<spent, age, left, free>>

\* get_overview and its queries.
LoadOverview(r) ==
  /\ At(r, "load") /\ Of(r) = "overview"
  /\ Become(r, "first")
  /\ UNCHANGED <<spent, caches, free>>

\* HubOverviewService assigns _cached, then _expires_at, counted from before the query.
ExpiryFirst == <<"expiry", "value">>
WriteOrder  == <<"value", "expiry">>

Write(r, field) ==
  IF field = "value" THEN age' = spent[r] /\ UNCHANGED left
  ELSE /\ left' = [left EXCEPT !["overview"] =
                     IF spent[r] < Ttl["overview"] THEN Ttl["overview"] - spent[r] ELSE 0]
       /\ UNCHANGED age

WriteFirst(r) ==
  /\ At(r, "first")
  /\ Write(r, WriteOrder[1])
  /\ Become(r, "second")
  /\ UNCHANGED <<spent, lock, free>>

WriteSecond(r) ==
  /\ At(r, "second")
  /\ Write(r, WriteOrder[2])
  /\ lock' = [lock EXCEPT !["overview"] = None]
  /\ spent' = [spent EXCEPT ![r] = 0]
  /\ Advance(r)
  /\ UNCHANGED free

\* get_schema_map, or the queries of _markets, of which a failing one leaves its table out;
\* _TTLCache.put counts the time from after them.
Load(r) ==
  /\ At(r, "load") /\ Of(r) # "overview"
  /\ left' = [left EXCEPT ![Of(r)] = Ttl[Of(r)]]
  /\ lock' = [lock EXCEPT ![Of(r)] = None]
  /\ Advance(r)
  /\ UNCHANGED <<spent, age, free>>

\* Leaving the with statements releases what r holds.
OnlyItsOwn(r) == [lock EXCEPT ![Of(r)] = None]
Released(r)   == [x \in Shared |-> IF lock[x] = r THEN None ELSE lock[x]]

\* The overview or the schema cannot be read: 503.
LoadFails(r) ==
  /\ At(r, "load") /\ Of(r) # "markets"
  /\ End(r)
  /\ lock' = Released(r)
  /\ spent' = [spent EXCEPT ![r] = 0]
  /\ UNCHANGED <<age, left, free>>

-----------------------------------------------------------------------------
(* Previews. *)

\* Previews of the table are switched off or denied, or a column, a filter, a timestamp or the
\* window is not admissible: 403 or 400, before anything is taken.
Refuse(r) ==
  /\ At(r, "slot")
  /\ End(r)
  /\ UNCHANGED <<spent, caches, free>>

\* The page is in the cache; or no slot is free, which is answered at once.
Slot(r) ==
  /\ At(r, "slot")
  /\ \/ End(r) /\ UNCHANGED free
     \/ free > 0 /\ free' = free - 1 /\ Advance(r)
  /\ UNCHANGED <<spent, caches>>

\* The cache keeps 128 entries, pages and the markets alike.
PagePut == left' \in {left, [left EXCEPT !["markets"] = 0]}

\* The answer, or an error, which is not kept.
Query(r) ==
  /\ At(r, "query")
  /\ free' = free + 1
  /\ \/ Advance(r) /\ PagePut
     \/ End(r) /\ UNCHANGED left
  /\ UNCHANGED <<spent, age, lock>>

Ask(r) ==
  /\ At(r, "ask")
  /\ End(r)
  /\ PagePut
  /\ UNCHANGED <<spent, age, lock, free>>

Open(r) ==
  /\ At(r, "open")
  /\ \/ Advance(r) /\ UNCHANGED free
     \/ End(r) /\ free' = free + 1
  /\ UNCHANGED <<spent, caches>>

\* The server asks for the first block, or finds that the client has left: a generator that
\* was never started does not run its finally.
Start(r) ==
  /\ At(r, "start")
  /\ Advance(r) \/ End(r)
  /\ UNCHANGED <<spent, caches, free>>

\* The last block, an error, or the client leaves.
Stream(r) ==
  /\ At(r, "stream")
  /\ End(r)
  /\ free' = free + 1
  /\ UNCHANGED <<spent, caches>>

-----------------------------------------------------------------------------
\* The age of the overview matters to those who took or load it.
Timed(r) == At(r, "take") \/ (Serving(r) /\ lock["overview"] = r)

Tick ==
  /\ age' = IF age \in 0 .. Oldest - 1 THEN age + 1 ELSE age
  /\ left' = [x \in Shared |-> IF left[x] > 0 THEN left[x] - 1 ELSE 0]
  /\ spent' = [r \in Readers |-> IF Timed(r) /\ spent[r] < Late THEN spent[r] + 1 ELSE spent[r]]
  /\ UNCHANGED <<path, lock, free>>

Init ==
  /\ path = [r \in Readers |-> <<>>]
  /\ spent = [r \in Readers |-> 0]
  /\ age = -1
  /\ left = [x \in Shared |-> 0]
  /\ lock = [x \in Shared |-> None]
  /\ free = Slots

Proceed(r) ==
  \/ Look(r) \/ Take(r) \/ LoadOverview(r) \/ WriteFirst(r) \/ WriteSecond(r)
  \/ Load(r) \/ LoadFails(r)
  \/ Refuse(r) \/ Slot(r) \/ Query(r) \/ Ask(r) \/ Open(r) \/ Start(r) \/ Stream(r)

Next ==
  \/ \E r \in Readers : Begin(r) \/ Proceed(r) \/ Lock(r)
  \/ Tick

\* Queries end, clients read or leave, and a lock that is free again and again is got.
Fairness == \A r \in Readers : WF_vars(Proceed(r)) /\ SF_vars(Lock(r))

Spec == Init /\ [][Next]_vars /\ Fairness

-----------------------------------------------------------------------------
(* Properties. *)

\* An overview is never older, when it is asked for, than the time it is kept: the two
\* fields are written one after the other and read without the lock (hub.py:659).
OverviewIsRecent ==
  [][\A r \in Readers :
       At(r, "take") /\ path'[r] # path[r] => age - spent[r] <= Ttl["overview"]]_vars

\* The overview is computed again only when the last one has been kept for its time, however
\* many threads found it expired at once.
LoadIsDue ==
  [][\A r \in Readers :
       lock["overview"] # r /\ lock'["overview"] = r => age = -1 \/ age >= Ttl["overview"]]_vars

\* Threads that wait for each other's locks, those of a market refresh among them, all get
\* their answer in the end.
RequestsEnd == \A r \in Readers : []<>~Serving(r)

=============================================================================
