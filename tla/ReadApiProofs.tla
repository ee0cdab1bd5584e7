--------------------------- MODULE ReadApiProofs ---------------------------
(***************************************************************************)
(* Proofs about the read API.  The catalog, for any number of threads and   *)
(* any times to live: the overview that is answered is not older than its   *)
(* time, and it is computed again only when that time is over.  The lists,  *)
(* for any rows and pages of any size: a walk misses nothing.  The verdicts *)
(* on a session, for any series and any length of it: they are true.        *)
(***************************************************************************)
EXTENDS ReadApi, SequenceTheorems, FiniteSetTheorems, FunctionTheorems, TLAPS

-----------------------------------------------------------------------------
(* The paths of the requests.                                               *)

\* Steps that may lie ahead of a thread, and those it may be at: it waits for a lock, loads
\* or writes only at the head of its path, but for the load of the markets.
Ahead == ({"get"} \X Shared) \cup {<<"load", "markets">>}
           \cup ({"slot", "query", "ask", "open", "start", "stream"} \X {""})
Steps == Ahead \cup ({"lock", "load"} \X Shared)
           \cup ({"take", "first", "second"} \X {"overview"})

\* A path whose head is a step and whose rest lies ahead.
Sound(p) == p \in Seq(Steps) /\ (p # <<>> => Tail(p) \in Seq(Ahead))

\* A path that lies ahead altogether is sound, and its head lies ahead.
LEMMA AheadSound ==
  ASSUME NEW p \in Seq(Ahead)
  PROVE  Sound(p) /\ (p # <<>> => p[1] \in Ahead)
<1>1. Ahead \subseteq Steps
  BY DEF Steps
<1> HIDE DEF Ahead, Steps
<1>2. p \in Seq(Steps)
  BY <1>1
<1>3. p # <<>> => p[1] \in Ahead /\ Tail(p) \in Seq(Ahead)
  OBVIOUS
<1> QED BY <1>2, <1>3 DEF Sound

\* A step before a path that lies ahead.
LEMMA StepSound ==
  ASSUME NEW s \in Steps, NEW t \in Seq(Ahead)
  PROVE  LET p == <<s>> \o t IN Sound(p) /\ p # <<>> /\ p[1] = s /\ Tail(p) = t
<1> DEFINE p == <<s>> \o t
<1>1. Ahead \subseteq Steps
  BY DEF Steps
<1> HIDE DEF Ahead, Steps
<1>2. t \in Seq(Steps)
  BY <1>1
<1>3. p \in Seq(Steps) /\ p # <<>> /\ p[1] = s
  BY <1>2
<1>4. Tail(p) = t
  OBVIOUS
<1> QED BY <1>3, <1>4 DEF Sound

\* Sequences of one and two steps.
LEMMA ShortSequences ==
  ASSUME NEW S, NEW a \in S, NEW b \in S
  PROVE  <<a>> \in Seq(S) /\ <<a, b>> \in Seq(S)
OBVIOUS

\* Lookups and what they are followed by lie ahead.
LEMMA AheadSteps ==
  /\ \A x \in Shared : Get(x) \in Seq(Ahead)
  /\ Slotted \in Seq(Ahead) /\ Free \in Seq(Ahead) /\ <<>> \in Seq(Ahead)
  /\ \A p, q \in Seq(Ahead) : p \o q \in Seq(Ahead)
<1>1. \A x \in Shared : <<"get", x>> \in Ahead
  BY DEF Ahead
<1>2. <<"slot", "">> \in Ahead /\ <<"query", "">> \in Ahead /\ <<"ask", "">> \in Ahead
  BY DEF Ahead
<1> HIDE DEF Ahead
<1>3. \A x \in Shared : Get(x) \in Seq(Ahead)
  BY <1>1, ShortSequences, Zenon DEF Get
<1>4. Slotted \in Seq(Ahead) /\ Free \in Seq(Ahead)
  BY <1>2, ShortSequences, Zenon DEF Slotted, Free
<1>6. <<>> \in Seq(Ahead)
  OBVIOUS
<1>5. \A p, q \in Seq(Ahead) : p \o q \in Seq(Ahead)
  OBVIOUS
<1> QED BY <1>3, <1>4, <1>5, <1>6

\* Every request of the API is a path that lies ahead.
LEMMA RequestAhead == \A q \in Requests : q \in Seq(Ahead)
<1>1. "overview" \in Shared /\ "schema" \in Shared /\ "markets" \in Shared
  BY DEF Shared
<1>2. \A c \in BOOLEAN : TableInfo(c) \in Seq(Ahead)
  BY <1>1, AheadSteps DEF TableInfo
<1>3. OverviewRequest \in Seq(Ahead) /\ PipelinesRequest \in Seq(Ahead) /\ RunsRequest \in Seq(Ahead)
  BY <1>1, AheadSteps DEF OverviewRequest, PipelinesRequest, RunsRequest
<1>4. IndexRequest \in Seq(Ahead) /\ DetailRequest \in Seq(Ahead)
  <2> DEFINE o == Get("overview")
             s == Get("schema")
             m == Get("markets")
  <2>1. o \in Seq(Ahead) /\ s \in Seq(Ahead) /\ m \in Seq(Ahead)
    BY <1>1, AheadSteps
  <2> HIDE DEF o, s, m
  <2>2. o \o s \o m \in Seq(Ahead) /\ s \o o \o m \in Seq(Ahead)
    BY <2>1, AheadSteps
  <2> QED BY <2>2 DEF IndexRequest, DetailRequest, o, s, m
<1>5. <<<<"slot", "">>, <<"open", "">>, <<"start", "">>, <<"stream", "">>>> \in Seq(Ahead)
  <2>1. /\ <<"slot", "">> \in Ahead /\ <<"open", "">> \in Ahead
        /\ <<"start", "">> \in Ahead /\ <<"stream", "">> \in Ahead
    BY DEF Ahead
  <2> DEFINE a == <<"slot", "">>
             b == <<"open", "">>
             c == <<"start", "">>
             d == <<"stream", "">>
  <2>2. a \in Ahead /\ b \in Ahead /\ c \in Ahead /\ d \in Ahead
    BY <2>1
  <2> HIDE DEF Ahead, a, b, c, d
  <2>3. <<a, b, c, d>> \in Seq(Ahead)
    BY <2>2
  <2> QED BY <2>3 DEF a, b, c, d
<1>6. \A c \in BOOLEAN : RowsRequest(c) \in Seq(Ahead) /\ StatsRequest(c) \in Seq(Ahead)
  BY <1>2, AheadSteps DEF RowsRequest, StatsRequest
<1>7. \A c \in BOOLEAN : CsvRequest(c) \in Seq(Ahead)
  BY <1>2, <1>5, AheadSteps DEF CsvRequest
<1>8. \A c, d \in BOOLEAN : ActivityRequest(c, d) \in Seq(Ahead)
  <2> SUFFICES ASSUME NEW c \in BOOLEAN, NEW d \in BOOLEAN PROVE ActivityRequest(c, d) \in Seq(Ahead)
    OBVIOUS
  <2> DEFINE chart == IF d THEN Slotted ELSE <<>>
  <2>1. chart \in Seq(Ahead) /\ TableInfo(c) \in Seq(Ahead) /\ Free \in Seq(Ahead)
    BY <1>2, AheadSteps
  <2> HIDE DEF chart
  <2>2. TableInfo(c) \o chart \o Free \in Seq(Ahead)
    BY <2>1, AheadSteps
  <2> QED BY <2>2 DEF ActivityRequest, chart
<1>9. \A q \in UNION {{RowsRequest(c), StatsRequest(c), CsvRequest(c)} : c \in BOOLEAN} : q \in Seq(Ahead)
  BY <1>6, <1>7, Zenon
<1>10. \A q \in {ActivityRequest(c, d) : c, d \in BOOLEAN} : q \in Seq(Ahead)
  BY <1>8
<1>11. \A q \in {OverviewRequest, IndexRequest, DetailRequest, PipelinesRequest, RunsRequest} :
         q \in Seq(Ahead)
  BY <1>3, <1>4, Zenon
<1> HIDE DEF Ahead
<1> DEFINE single == {OverviewRequest, IndexRequest, DetailRequest, PipelinesRequest, RunsRequest}
           table  == UNION {{RowsRequest(c), StatsRequest(c), CsvRequest(c)} : c \in BOOLEAN}
           charts == {ActivityRequest(c, d) : c, d \in BOOLEAN}
<1>12. Requests = single \cup table \cup charts
  BY DEF Requests
<1>13. /\ \A q \in single : q \in Seq(Ahead)
       /\ \A q \in table : q \in Seq(Ahead)
       /\ \A q \in charts : q \in Seq(Ahead)
  BY <1>9, <1>10, <1>11
<1> HIDE DEF single, table, charts
<1> QED BY <1>12, <1>13

\* A refresh before a path that lies ahead: the load of a single answer, or the lookups of
\* the markets.
LEMMA RefreshSound ==
  ASSUME NEW x \in Shared, NEW t \in Seq(Ahead)
  PROVE  LET p == Refresh(x) \o t
         IN  /\ Sound(p) /\ p # <<>>
             /\ p[1] = IF x = "markets" THEN <<"get", "overview">> ELSE <<"load", x>>
<1>1. <<"load", x>> \in Steps /\ <<"load", "markets">> \in Ahead
  BY DEF Steps, Ahead
<1>2. /\ <<"get", "overview">> \in Ahead /\ <<"get", "schema">> \in Ahead
      /\ <<"get", "overview">> \in Steps
  BY DEF Ahead, Steps, Shared
<1>3. CASE x # "markets"
  <2>1. Refresh(x) = <<<<"load", x>>>>
    BY <1>3 DEF Refresh
  <2> QED BY <1>1, <1>3, <2>1, StepSound
<1>4. CASE x = "markets"
  <2> DEFINE o == <<"get", "overview">>
             c == <<"get", "schema">>
             l == <<"load", "markets">>
  <2>1. Refresh(x) = (<<o>> \o <<c>>) \o <<l>>
    BY <1>4 DEF Refresh, Get
  <2>2. o \in Ahead /\ c \in Ahead /\ l \in Ahead /\ o \in Steps
    BY <1>1, <1>2
  <2> HIDE DEF o, c, l, Ahead, Steps
  <2>3. <<o>> \in Seq(Ahead) /\ <<c>> \in Seq(Ahead) /\ <<l>> \in Seq(Ahead)
    BY <2>2, ShortSequences
  <2>4. \A i, j, k \in Seq(Ahead) : (i \o j) \o k = i \o (j \o k)
    OBVIOUS
  <2> DEFINE u == <<c>> \o (<<l>> \o t)
  <2>5. Refresh(x) \o t = <<o>> \o u /\ u \in Seq(Ahead)
    <3> DEFINE so == <<o>>
               sc == <<c>>
               sl == <<l>>
    <3>1. so \in Seq(Ahead) /\ sc \in Seq(Ahead) /\ sl \in Seq(Ahead)
      BY <2>3
    <3>2. Refresh(x) = (so \o sc) \o sl /\ u = sc \o (sl \o t)
      BY <2>1
    <3> HIDE DEF so, sc, sl, u
    <3>3. so \o sc \in Seq(Ahead) /\ sl \o t \in Seq(Ahead)
      BY <3>1, AheadSteps
    <3>4. ((so \o sc) \o sl) \o t = (so \o sc) \o (sl \o t)
      BY <3>1, <3>3, <2>4, SMTT(30)
    <3>5. (so \o sc) \o (sl \o t) = so \o (sc \o (sl \o t))
      BY <3>1, <3>3, <2>4, SMTT(30)
    <3>6. u \in Seq(Ahead)
      BY <3>1, <3>2, <3>3, AheadSteps
    <3> QED BY <3>2, <3>4, <3>5, <3>6 DEF so
  <2> HIDE DEF u
  <2>6. LET p == Refresh(x) \o t IN Sound(p) /\ p # <<>> /\ p[1] = o
    BY <2>2, <2>5, StepSound
  <2> QED BY <1>4, <2>6 DEF o
<1> QED BY <1>3, <1>4

-----------------------------------------------------------------------------
(* The inductive invariant.                                                 *)

\* The thread loads or writes the overview.
Loading(r) == (At(r, "load") \/ At(r, "first") \/ At(r, "second")) /\ Of(r) = "overview"

Types ==
  /\ path \in [Readers -> Seq(Steps)]
  /\ spent \in [Readers -> 0 .. Late]
  /\ age \in -1 .. Oldest
  /\ left \in [Shared -> Nat] /\ \A x \in Shared : left[x] <= Ttl[x]
  /\ lock \in [Shared -> Readers \cup {None}]

\* One thread at a time loads the overview, and only while there is no current one.
Alone ==
  /\ \A r \in Readers : Sound(path[r])
  /\ \A r \in Readers : lock["overview"] = r <=> Loading(r)
  /\ \A r \in Readers : Loading(r) => left["overview"] = 0

\* Between its two writes the overview's age is counted with the writer's time; from then on
\* its age and the time left make up the time to live.
Aging ==
  /\ left["overview"] > 0 => age + left["overview"] = Ttl["overview"]
  /\ left["overview"] = 0 /\ (\A r \in Readers : ~At(r, "second"))
       => age = -1 \/ age >= Ttl["overview"]
  /\ \A r \in Readers : At(r, "second") => age = spent[r] \/ (spent[r] = Late /\ age >= Late)

\* A thread between its look and its taking of the overview has been so for longer than
\* the thread that loads another.
Taking ==
  /\ \A r \in Readers : ~Timed(r) => spent[r] = 0
  /\ \A r \in Readers : At(r, "take") =>
       /\ age - spent[r] <= Ttl["overview"]
       /\ \A w \in Readers : lock["overview"] = w => spent[w] <= spent[r]

IInv == Types /\ Alone /\ Aging /\ Taking

\* Nothing is kept and nobody asks at first.
LEMMA InvInit == Init => IInv
<1> SUFFICES ASSUME Init PROVE IInv
  OBVIOUS
<1> USE CatalogAssumption
<1>1. \A r \in Readers : path[r] = <<>> /\ spent[r] = 0
  BY DEF Init
<1>2. "overview" \in Shared
  BY DEF Shared
<1>3. Types
  <2>1. path \in [Readers -> Seq(Steps)]
    BY DEF Init
  <2>2. spent \in [Readers -> 0 .. Late] /\ age \in -1 .. Oldest
    BY <1>2 DEF Init, Oldest
  <2>3. left \in [Shared -> Nat] /\ \A x \in Shared : left[x] <= Ttl[x]
    BY DEF Init
  <2>4. lock \in [Shared -> Readers \cup {None}]
    BY DEF Init
  <2> QED BY <2>1, <2>2, <2>3, <2>4 DEF Types
<1>4. \A r \in Readers : \A op : ~At(r, op)
  BY <1>1 DEF At, Serving
<1>5. Alone
  BY <1>1, <1>2, <1>4 DEF Alone, Loading, Init, Sound
<1>6. Aging
  BY <1>2, <1>4 DEF Aging, Init
<1>7. Taking
  BY <1>1, <1>4 DEF Taking
<1> QED BY <1>3, <1>5, <1>6, <1>7 DEF IInv

-----------------------------------------------------------------------------
(* The steps.                                                               *)

\* What a step names tells what it is about.
LEMMA StepKinds ==
  /\ \A s \in Steps :
       /\ s[1] \in {"take", "first", "second"} => s[2] = "overview"
       /\ s[1] \in {"get", "lock", "load"} => s[2] \in Shared
  /\ \A s \in Ahead :
       /\ s[1] \notin {"take", "first", "second", "lock"}
       /\ s[1] = "load" => s[2] = "markets"
  /\ \A x \in Shared : <<"lock", x>> \in Steps /\ <<"load", x>> \in Steps
  /\ <<"take", "overview">> \in Steps
  /\ <<"first", "overview">> \in Steps /\ <<"second", "overview">> \in Steps
<1>1. \A s \in Ahead : /\ s[1] \in {"get", "load", "slot", "query", "ask", "open", "start", "stream"}
                       /\ s[1] = "get" => s[2] \in Shared
                       /\ s[1] = "load" => s[2] = "markets"
  <2>1. \A s \in {"get"} \X Shared : s[1] = "get" /\ s[2] \in Shared
    OBVIOUS
  <2>2. \A s \in {"slot", "query", "ask", "open", "start", "stream"} \X {""} :
           s[1] \in {"slot", "query", "ask", "open", "start", "stream"}
    OBVIOUS
  <2>3. \A s \in {<<"load", "markets">>} : s[1] = "load" /\ s[2] = "markets"
    OBVIOUS
  <2> QED BY <2>1, <2>2, <2>3 DEF Ahead
<1>2. \A s \in Steps \ Ahead : \/ s[1] \in {"lock", "load"} /\ s[2] \in Shared
                               \/ s[1] \in {"take", "first", "second"} /\ s[2] = "overview"
  <2>1. \A s \in {"lock", "load"} \X Shared : s[1] \in {"lock", "load"} /\ s[2] \in Shared
    OBVIOUS
  <2>2. \A s \in {"take", "first", "second"} \X {"overview"} :
           s[1] \in {"take", "first", "second"} /\ s[2] = "overview"
    OBVIOUS
  <2> HIDE DEF Ahead
  <2> QED BY <2>1, <2>2 DEF Steps
<1>3. \A x \in Shared : <<"lock", x>> \in Steps /\ <<"load", x>> \in Steps
  BY DEF Steps
<1>4. /\ <<"take", "overview">> \in Steps
      /\ <<"first", "overview">> \in Steps /\ <<"second", "overview">> \in Steps
  BY DEF Steps
<1>5. "markets" \in Shared
  BY DEF Shared
<1> HIDE DEF Steps, Ahead, Shared
<1> QED BY <1>1, <1>2, <1>3, <1>4, <1>5

\* The head of a path, and what lies behind it.
LEMMA HeadStep ==
  ASSUME Types, Alone, NEW r \in Readers, Serving(r)
  PROVE  /\ path[r][1] \in Steps /\ Tail(path[r]) \in Seq(Ahead)
         /\ Sound(Tail(path[r]))
         /\ Tail(path[r]) # <<>> => Tail(path[r])[1] \in Ahead
<1> HIDE DEF Ahead, Steps
<1>1. path[r] \in Seq(Steps) /\ path[r] # <<>>
  BY DEF Types, Serving
<1>2. path[r][1] \in Steps
  BY <1>1
<1>3. Tail(path[r]) \in Seq(Ahead)
  BY <1>1 DEF Alone, Sound
<1> QED BY <1>2, <1>3, AheadSound

\* A thread's step changes its own path.
LEMMA PathStep ==
  ASSUME Types, Alone, NEW r \in Readers, NEW q, Sound(q), path' = [path EXCEPT ![r] = q]
  PROVE  /\ path' \in [Readers -> Seq(Steps)] /\ \A s \in Readers : Sound(path[s])'
         /\ path'[r] = q /\ \A s \in Readers \ {r} : path'[s] = path[s]
<1> HIDE DEF Steps
<1>1. path \in [Readers -> Seq(Steps)] /\ q \in Seq(Steps)
  BY DEF Types, Sound
<1>2. path'[r] = q /\ \A s \in Readers \ {r} : path'[s] = path[s]
  BY <1>1
<1>3. path' \in [Readers -> Seq(Steps)]
  BY <1>1
<1>4. \A s \in Readers : Sound(path[s])'
  BY <1>2 DEF Alone, Sound
<1> QED BY <1>2, <1>3, <1>4

\* Where the others are.
LEMMA Others ==
  ASSUME NEW s, path'[s] = path[s]
  PROVE  /\ (At(s, "take")' <=> At(s, "take"))
         /\ (At(s, "second")' <=> At(s, "second"))
         /\ (Loading(s)' <=> Loading(s))
BY DEF At, Serving, Loading, Of

\* A step that has nothing to do with the overview's writing or taking.
LEMMA QuietStep ==
  ASSUME IInv, NEW r \in Readers, NEW q, Sound(q), path' = [path EXCEPT ![r] = q],
         ~At(r, "take"), ~Loading(r),
         q # <<>> => /\ q[1][1] # "take" /\ q[1][1] # "second" /\ q[1][1] # "first"
                     /\ ~(q[1][1] = "load" /\ q[1][2] = "overview"),
         UNCHANGED <<spent, age>>,
         left' \in [Shared -> Nat], \A x \in Shared : left'[x] <= Ttl[x],
         left'["overview"] = left["overview"],
         lock' \in [Shared -> Readers \cup {None}], lock'["overview"] = lock["overview"]
  PROVE  IInv'
<1>1. Types /\ Alone /\ Aging /\ Taking
  BY DEF IInv
<1>2. /\ path' \in [Readers -> Seq(Steps)] /\ \A s \in Readers : Sound(path[s])'
      /\ path'[r] = q /\ \A s \in Readers \ {r} : path'[s] = path[s]
  BY <1>1, PathStep
<1>3. Types'
  BY <1>1, <1>2 DEF Types
<1>4. ~At(r, "take")' /\ ~At(r, "second")' /\ ~Loading(r)'
  BY <1>2 DEF At, Serving, Loading, Of
<1>5. ~At(r, "second")
  BY <1>1, HeadStep, StepKinds DEF Loading, At, Of
<1>6. \A s \in Readers :
         /\ (At(s, "take")' <=> At(s, "take"))
         /\ (At(s, "second")' <=> At(s, "second"))
         /\ (Loading(s)' <=> Loading(s))
  <2>1. \A s \in Readers \ {r} :
         /\ (At(s, "take")' <=> At(s, "take"))
         /\ (At(s, "second")' <=> At(s, "second"))
         /\ (Loading(s)' <=> Loading(s))
    BY <1>2, Others
  <2> QED BY <2>1, <1>4, <1>5
<1>7. Alone'
  BY <1>1, <1>2, <1>6 DEF Alone
<1>8. Aging'
  BY <1>1, <1>6 DEF Aging
<1>9. \A s \in Readers : Timed(s)' <=> Timed(s)
  <2>1. \A s \in Readers : lock["overview"] = s => Serving(s) /\ Serving(s)'
    BY <1>1, <1>6 DEF Alone, Loading, At
  <2> QED BY <1>6, <2>1 DEF Timed
<1>10. Taking'
  BY <1>1, <1>6, <1>9 DEF Taking
<1> QED BY <1>3, <1>7, <1>8, <1>10 DEF IInv

\* A step that does not touch the overview, its time or its lock either, and goes on to the
\* rest of the path or to its end.
LEMMA RestStep ==
  ASSUME IInv, NEW r \in Readers, Serving(r), ~At(r, "take"), ~Loading(r),
         Advance(r) \/ End(r), UNCHANGED <<spent, age>>,
         left' \in [Shared -> Nat], \A x \in Shared : left'[x] <= Ttl[x],
         left'["overview"] = left["overview"],
         lock' \in [Shared -> Readers \cup {None}], lock'["overview"] = lock["overview"]
  PROVE  IInv'
<1>1. Types /\ Alone
  BY DEF IInv
<1>2. Sound(<<>>)
  BY AheadSteps, AheadSound
<1>3. CASE End(r)
  BY <1>2, <1>3, QuietStep DEF End, Goto
<1>4. CASE Advance(r)
  <2> DEFINE q == Tail(path[r])
  <2>1. Sound(q) /\ (q # <<>> => q[1] \in Ahead)
    BY <1>1, HeadStep
  <2>2. q # <<>> => /\ q[1][1] # "take" /\ q[1][1] # "second" /\ q[1][1] # "first"
                    /\ ~(q[1][1] = "load" /\ q[1][2] = "overview")
    BY <2>1, StepKinds
  <2>3. path' = [path EXCEPT ![r] = q]
    BY <1>4 DEF Advance, Goto
  <2> HIDE DEF q
  <2> QED BY <2>1, <2>2, <2>3, QuietStep
<1> QED BY <1>3, <1>4

\* What stays as it is keeps its type.
LEMMA KeptTypes ==
  ASSUME IInv
  PROVE  /\ left \in [Shared -> Nat] /\ \A x \in Shared : left[x] <= Ttl[x]
         /\ lock \in [Shared -> Readers \cup {None}]
         /\ "overview" \in Shared /\ "markets" \in Shared
         /\ \A r \in Readers, op \in {"get", "lock", "slot", "query", "ask", "open", "start", "stream"} :
              At(r, op) => Serving(r) /\ ~At(r, "take") /\ ~Loading(r)
<1>1. "overview" \in Shared /\ "markets" \in Shared
  BY DEF Shared
<1>2. \A r \in Readers, op \in {"get", "lock", "slot", "query", "ask", "open", "start", "stream"} :
        At(r, op) => Serving(r) /\ ~At(r, "take") /\ ~Loading(r)
  BY DEF At, Loading
<1> QED BY <1>1, <1>2 DEF IInv, Types

\* A request begins.
LEMMA BeginHolds == ASSUME IInv, NEW r \in Readers, Begin(r) PROVE IInv'
<1>1. PICK q \in Requests : path' = [path EXCEPT ![r] = q]
  BY DEF Begin, Goto
<1>2. Sound(q) /\ (q # <<>> => q[1] \in Ahead)
  BY RequestAhead, AheadSound
<1>3. q # <<>> => /\ q[1][1] # "take" /\ q[1][1] # "second" /\ q[1][1] # "first"
                  /\ ~(q[1][1] = "load" /\ q[1][2] = "overview")
  BY <1>2, StepKinds
<1>4. ~At(r, "take") /\ ~Loading(r)
  BY DEF Begin, At, Loading
<1>5. UNCHANGED <<spent, age, left, lock>>
  BY DEF Begin, caches
<1> QED BY <1>1, <1>2, <1>3, <1>4, <1>5, KeptTypes, QuietStep

\* Previews: nothing of the overview.
LEMMA PreviewsHold ==
  ASSUME IInv, NEW r \in Readers,
         Refuse(r) \/ Slot(r) \/ Query(r) \/ Ask(r) \/ Open(r) \/ Start(r) \/ Stream(r)
  PROVE  IInv'
<1>1. Serving(r) /\ ~At(r, "take") /\ ~Loading(r)
  BY KeptTypes DEF Refuse, Slot, Query, Ask, Open, Start, Stream
<1>2. Advance(r) \/ End(r)
  BY DEF Refuse, Slot, Query, Ask, Open, Start, Stream
<1>3. UNCHANGED <<spent, age, lock>> /\ (left' = left \/ PagePut)
  BY DEF Refuse, Slot, Query, Ask, Open, Start, Stream, caches
<1>4. /\ left' \in [Shared -> Nat] /\ \A x \in Shared : left'[x] <= Ttl[x]
      /\ left'["overview"] = left["overview"]
  <2>1. CASE left' = left
    BY <2>1, KeptTypes
  <2>2. CASE left' = [left EXCEPT !["markets"] = 0]
    <3>1. left' \in [Shared -> Nat] /\ left'["overview"] = left["overview"]
      BY <2>2, KeptTypes
    <3>2. \A x \in Shared : left'[x] = left[x] \/ left'[x] = 0
      BY <2>2, KeptTypes
    <3>3. \A x \in Shared : Ttl[x] \in Nat
      BY CatalogAssumption
    <3> QED BY <3>1, <3>2, <3>3, KeptTypes
  <2> QED BY <1>3, <2>1, <2>2 DEF PagePut
<1> QED BY <1>1, <1>2, <1>3, <1>4, KeptTypes, RestStep

\* Of what a thread at a step is.
LEMMA OfStep ==
  ASSUME IInv, NEW r \in Readers, Serving(r)
  PROVE  /\ At(r, "get") \/ At(r, "lock") \/ At(r, "load") => Of(r) \in Shared
         /\ At(r, "take") \/ At(r, "first") \/ At(r, "second") => Of(r) = "overview"
         /\ Tail(path[r]) \in Seq(Ahead)
<1>1. path[r][1] \in Steps /\ Tail(path[r]) \in Seq(Ahead)
  BY HeadStep DEF IInv
<1> HIDE DEF Steps, Ahead
<1> QED BY <1>1, StepKinds DEF At, Of

\* The thread that stays what it is at another step of the same path.
LEMMA BecomeStep ==
  ASSUME IInv, NEW r \in Readers, Serving(r), NEW op, <<op, Of(r)>> \in Steps, Become(r, op)
  PROVE  LET q == <<<<op, Of(r)>>>> \o Tail(path[r])
         IN  /\ Sound(q) /\ q # <<>> /\ q[1] = <<op, Of(r)>> /\ path' = [path EXCEPT ![r] = q]
             /\ path' \in [Readers -> Seq(Steps)] /\ \A s \in Readers : Sound(path[s])'
             /\ path'[r] = q /\ \A s \in Readers \ {r} : path'[s] = path[s]
<1> DEFINE q == <<<<op, Of(r)>>>> \o Tail(path[r])
<1>1. Sound(q) /\ q # <<>> /\ q[1] = <<op, Of(r)>>
  BY OfStep, StepSound
<1>2. path' = [path EXCEPT ![r] = q]
  BY DEF Become, Goto
<1> HIDE DEF q
<1>3. /\ path' \in [Readers -> Seq(Steps)] /\ \A s \in Readers : Sound(path[s])'
      /\ path'[r] = q /\ \A s \in Readers \ {r} : path'[s] = path[s]
  BY <1>1, <1>2, PathStep DEF IInv
<1> QED BY <1>1, <1>2, <1>3 DEF q

\* The look: a current overview is taken, and nobody loads one meanwhile.
LEMMA LookHolds == ASSUME IInv, NEW r \in Readers, Look(r) PROVE IInv'
<1>1. /\ At(r, "get") /\ Serving(r) /\ ~At(r, "take") /\ ~Loading(r)
      /\ UNCHANGED <<spent, age, left, lock>> /\ Of(r) \in Shared
  BY KeptTypes, OfStep DEF Look, caches
<1>2. CASE Become(r, "lock")
  <2> DEFINE q == <<<<"lock", Of(r)>>>> \o Tail(path[r])
  <2>1. <<"lock", Of(r)>> \in Steps
    BY <1>1, StepKinds
  <2>2. Sound(q) /\ q # <<>> /\ q[1] = <<"lock", Of(r)>> /\ path' = [path EXCEPT ![r] = q]
    BY <1>1, <1>2, <2>1, BecomeStep
  <2> HIDE DEF q
  <2>3. q[1][1] = "lock"
    BY <2>2
  <2> QED BY <1>1, <2>2, <2>3, KeptTypes, QuietStep
<1>3. CASE Advance(r)
  BY <1>1, <1>3, KeptTypes, RestStep
<1>4. CASE Become(r, "take") /\ Of(r) = "overview" /\ left["overview"] # 0
  <2>1. <<"take", "overview">> \in Steps
    BY StepKinds
  <2>2. /\ path'[r] # <<>> /\ path'[r][1] = <<"take", "overview">>
        /\ path' \in [Readers -> Seq(Steps)] /\ \A s \in Readers : Sound(path[s])'
        /\ \A s \in Readers \ {r} : path'[s] = path[s]
    BY <1>1, <1>4, <2>1, BecomeStep
  <2>3. \A s \in Readers : lock["overview"] # s /\ ~Loading(s)
    BY <1>4 DEF IInv, Alone
  <2>4. /\ ~At(r, "second")' /\ ~Loading(r)' /\ At(r, "take")'
        /\ ~At(r, "second")
    BY <2>2, <1>1 DEF At, Serving, Loading, Of
  <2>5. \A s \in Readers \ {r} :
         /\ (At(s, "take")' <=> At(s, "take"))
         /\ (At(s, "second")' <=> At(s, "second"))
         /\ (Loading(s)' <=> Loading(s))
    BY <2>2, Others
  <2>6. Types'
    BY <1>1, <2>2 DEF IInv, Types
  <2>7. Alone'
    BY <1>1, <2>2, <2>3, <2>4, <2>5 DEF Alone
  <2>8. Aging'
    <3>1. \A s \in Readers : At(s, "second")' <=> At(s, "second")
      BY <2>4, <2>5
    <3> QED BY <1>1, <3>1 DEF IInv, Aging
  <2>9. spent[r] = 0 /\ age <= Ttl["overview"]
    <3>1. ~Timed(r)
      BY <1>1, <2>3 DEF Timed
    <3>2. left["overview"] \in Nat /\ Ttl["overview"] \in Nat /\ age \in Int
      BY KeptTypes, CatalogAssumption DEF IInv, Types, Oldest
    <3>3. age + left["overview"] = Ttl["overview"]
      BY <3>2, <1>4 DEF IInv, Aging
    <3> QED BY <3>1, <3>2, <3>3 DEF IInv, Taking
  <2>10. \A s \in Readers \ {r} : Timed(s)' <=> Timed(s)
    BY <2>3, <2>5, <1>1 DEF Timed
  <2>11. Taking'
    <3>1. \A s \in Readers : ~Timed(s)' => spent'[s] = 0
      BY <2>9, <2>10, <1>1 DEF IInv, Taking
    <3>2. \A s \in Readers : At(s, "take")' => age' - spent'[s] <= Ttl["overview"]
      <4>1. age \in Int /\ spent[r] = 0 /\ age - 0 <= Ttl["overview"]
        BY <2>9, KeptTypes, CatalogAssumption DEF IInv, Types, Oldest
      <4> QED BY <4>1, <2>5, <1>1 DEF IInv, Taking
    <3> QED BY <3>1, <3>2, <2>3, <1>1 DEF Taking
  <2> QED BY <2>6, <2>7, <2>8, <2>11 DEF IInv
<1> QED BY <1>2, <1>3, <1>4 DEF Look

\* The thread has its overview.
LEMMA TakeHolds == ASSUME IInv, NEW r \in Readers, Take(r) PROVE IInv'
<1>1. /\ At(r, "take") /\ Serving(r) /\ UNCHANGED <<age, left, lock>>
      /\ spent' = [spent EXCEPT ![r] = 0]
  BY DEF Take, caches, At
<1> DEFINE q == Tail(path[r])
<1>2. Sound(q) /\ (q # <<>> => q[1] \in Ahead) /\ path' = [path EXCEPT ![r] = q]
  BY <1>1, HeadStep DEF IInv, Take, Advance, Goto
<1> HIDE DEF q
<1>3. /\ path' \in [Readers -> Seq(Steps)] /\ \A s \in Readers : Sound(path[s])'
      /\ path'[r] = q /\ \A s \in Readers \ {r} : path'[s] = path[s]
  BY <1>2, PathStep DEF IInv
<1>4. ~At(r, "take")' /\ ~At(r, "second")' /\ ~Loading(r)'
  <2>1. q # <<>> => /\ q[1][1] # "take" /\ q[1][1] # "second" /\ q[1][1] # "first"
                    /\ ~(q[1][1] = "load" /\ q[1][2] = "overview")
    BY <1>2, StepKinds
  <2> QED BY <2>1, <1>3 DEF At, Serving, Loading, Of
<1>5. ~At(r, "second") /\ ~Loading(r)
  BY <1>1 DEF At, Loading
<1>6. \A s \in Readers \ {r} :
         /\ (At(s, "take")' <=> At(s, "take"))
         /\ (At(s, "second")' <=> At(s, "second"))
         /\ (Loading(s)' <=> Loading(s))
  BY <1>3, Others
<1>7. spent' \in [Readers -> 0 .. Late] /\ spent'[r] = 0
      /\ \A s \in Readers \ {r} : spent'[s] = spent[s]
  BY <1>1, CatalogAssumption DEF IInv, Types
<1>8. Types'
  BY <1>1, <1>3, <1>7 DEF IInv, Types
<1>9. Alone'
  BY <1>1, <1>3, <1>4, <1>5, <1>6 DEF IInv, Alone
<1>10. Aging'
  <2>1. \A s \in Readers : At(s, "second")' <=> At(s, "second")
    BY <1>4, <1>5, <1>6
  <2>2. \A s \in Readers : At(s, "second") => spent'[s] = spent[s]
    BY <1>5, <1>7
  <2> QED BY <1>1, <2>1, <2>2 DEF IInv, Aging
<1>11. Taking'
  <2>1. \A s \in Readers \ {r} : Timed(s)' <=> Timed(s)
    <3>1. \A s \in Readers : lock["overview"] = s => Serving(s) /\ Serving(s)'
      BY <1>1, <1>9 DEF IInv, Alone, Loading, At
    <3> QED BY <1>1, <1>6, <3>1 DEF Timed
  <2>2. lock["overview"] # r
    BY <1>5 DEF IInv, Alone
  <2>3. \A s \in Readers : ~Timed(s)' => spent'[s] = 0
    BY <1>7, <2>1 DEF IInv, Taking
  <2> QED BY <1>1, <1>4, <1>6, <1>7, <2>2, <2>3 DEF IInv, Taking
<1> QED BY <1>8, <1>9, <1>10, <1>11 DEF IInv

\* The lock of an answer whose time is over: of the overview, no time is left, and who
\* takes its lock has counted nothing yet.
LEMMA LockHolds == ASSUME IInv, NEW r \in Readers, Lock(r) PROVE IInv'
<1>1. /\ At(r, "lock") /\ Serving(r) /\ ~At(r, "take") /\ ~Loading(r)
      /\ UNCHANGED <<spent, age, left>> /\ Of(r) \in Shared /\ lock[Of(r)] = None
      /\ Tail(path[r]) \in Seq(Ahead)
  BY KeptTypes, OfStep DEF Lock
<1>2. CASE Rechecked(Of(r))
  BY <1>1, <1>2, KeptTypes, RestStep DEF Lock
<1>3. CASE ~Rechecked(Of(r))
  <2> DEFINE q == Refresh(Of(r)) \o Tail(path[r])
  <2>1. path' = [path EXCEPT ![r] = q] /\ lock' = [lock EXCEPT ![Of(r)] = r]
    BY <1>3 DEF Lock, Goto
  <2>2. /\ Sound(q) /\ q # <<>>
        /\ q[1] = IF Of(r) = "markets" THEN <<"get", "overview">> ELSE <<"load", Of(r)>>
    BY <1>1, RefreshSound
  <2> HIDE DEF q
  <2>3. lock' \in [Shared -> Readers \cup {None}]
    BY <1>1, <2>1, KeptTypes
  <2>4. CASE Of(r) # "overview"
    <3>1. lock'["overview"] = lock["overview"]
      BY <2>1, <2>4, KeptTypes
    <3>2. /\ q[1][1] # "take" /\ q[1][1] # "second" /\ q[1][1] # "first"
          /\ ~(q[1][1] = "load" /\ q[1][2] = "overview")
      BY <2>2, <2>4
    <3> QED BY <1>1, <2>1, <2>2, <2>3, <3>1, <3>2, KeptTypes, QuietStep
  <2>5. CASE Of(r) = "overview"
    <3>1. /\ path' \in [Readers -> Seq(Steps)] /\ \A s \in Readers : Sound(path[s])'
          /\ path'[r] = q /\ \A s \in Readers \ {r} : path'[s] = path[s]
      BY <2>1, <2>2, PathStep DEF IInv
    <3>2. q[1] = <<"load", "overview">>
      BY <2>2, <2>5
    <3>3. /\ ~At(r, "second")' /\ Loading(r)' /\ ~At(r, "take")'
          /\ ~At(r, "second")
      BY <1>1, <2>2, <3>1, <3>2 DEF At, Serving, Loading, Of
    <3>4. \A s \in Readers \ {r} :
         /\ (At(s, "take")' <=> At(s, "take"))
         /\ (At(s, "second")' <=> At(s, "second"))
         /\ (Loading(s)' <=> Loading(s))
      BY <3>1, Others
    <3>5. left["overview"] = 0
      BY <1>3, <2>5, KeptTypes DEF Rechecked
    <3>6. lock["overview"] = None /\ lock'["overview"] = r
      BY <1>1, <2>1, <2>5, KeptTypes
    <3>7. \A s \in Readers : ~Loading(s) /\ lock["overview"] # s
      BY <3>6, CatalogAssumption DEF IInv, Alone
    <3>8. Types'
      BY <1>1, <2>3, <3>1 DEF IInv, Types
    <3>9. Alone'
      BY <1>1, <3>1, <3>3, <3>4, <3>5, <3>6, <3>7 DEF Alone
    <3>10. Aging'
      <4>1. \A s \in Readers : At(s, "second")' <=> At(s, "second")
        BY <3>3, <3>4
      <4> QED BY <1>1, <4>1 DEF IInv, Aging
    <3>11. ~Timed(r) /\ spent[r] = 0
      BY <1>1, <3>7 DEF IInv, Taking, Timed
    <3>12. Taking'
      <4>1. \A s \in Readers \ {r} : Timed(s)' <=> Timed(s)
        BY <3>4, <3>6, <3>7 DEF Timed
      <4>2. \A s \in Readers : ~Timed(s)' => spent'[s] = 0
        BY <1>1, <3>11, <4>1 DEF IInv, Taking
      <4>3. \A s \in Readers : At(s, "take")' => age' - spent'[s] <= Ttl["overview"]
        BY <1>1, <3>3, <3>4 DEF IInv, Taking
      <4>4. \A s \in Readers : 0 <= spent[s]
        BY DEF IInv, Types
      <4> QED BY <1>1, <3>6, <3>11, <4>2, <4>3, <4>4 DEF Taking
    <3> QED BY <3>8, <3>9, <3>10, <3>12 DEF IInv
  <2> QED BY <2>4, <2>5
<1> QED BY <1>2, <1>3

\* From one step of the loading to the next.
LEMMA LoadingStep ==
  ASSUME IInv, NEW r \in Readers, Loading(r), ~At(r, "second"),
         NEW op \in {"first", "second"}, Become(r, op),
         UNCHANGED <<spent, left, lock>>, age' \in -1 .. Oldest,
         op = "first" => age' = age, op = "second" => age' = spent[r]
  PROVE  IInv'
<1>1. Serving(r) /\ Of(r) = "overview" /\ ~At(r, "take")
  BY DEF Loading, At
<1>2. <<op, "overview">> \in Steps
  BY StepKinds
<1>3. /\ path'[r] # <<>> /\ path'[r][1] = <<op, "overview">>
      /\ path' \in [Readers -> Seq(Steps)] /\ \A s \in Readers : Sound(path[s])'
      /\ \A s \in Readers \ {r} : path'[s] = path[s]
  <2> DEFINE q == <<<<op, Of(r)>>>> \o Tail(path[r])
  <2>1. <<op, Of(r)>> \in Steps
    BY <1>1, <1>2
  <2>2. /\ q # <<>> /\ q[1] = <<op, Of(r)>>
        /\ path' \in [Readers -> Seq(Steps)] /\ \A s \in Readers : Sound(path[s])'
        /\ path'[r] = q /\ \A s \in Readers \ {r} : path'[s] = path[s]
    BY <1>1, <2>1, BecomeStep
  <2> HIDE DEF q
  <2> QED BY <1>1, <2>2
<1>4. Loading(r)' /\ ~At(r, "take")' /\ (At(r, "second")' <=> op = "second")
  BY <1>3 DEF At, Serving, Loading, Of
<1>5. \A s \in Readers \ {r} :
         /\ (At(s, "take")' <=> At(s, "take"))
         /\ (At(s, "second")' <=> At(s, "second"))
         /\ (Loading(s)' <=> Loading(s))
  BY <1>3, Others
<1>6. lock["overview"] = r /\ left["overview"] = 0
  BY DEF IInv, Alone
<1>7. \A s \in Readers \ {r} : ~At(s, "second")
  <2>1. \A s \in Readers \ {r} : ~Loading(s)
    BY <1>6 DEF IInv, Alone
  <2>2. \A s \in Readers : At(s, "second") => Serving(s) /\ Of(s) = "overview"
    BY OfStep DEF At
  <2> QED BY <2>1, <2>2 DEF Loading
<1>8. Types'
  BY <1>3 DEF IInv, Types
<1>9. Alone'
  BY <1>3, <1>4, <1>5, <1>6 DEF IInv, Alone
<1>10. Aging'
  <2>1. CASE op = "first"
    <3>1. \A s \in Readers : At(s, "second")' <=> At(s, "second")
      BY <1>4, <1>5, <2>1
    <3> QED BY <2>1, <3>1 DEF IInv, Aging
  <2>2. CASE op = "second"
    <3>1. ~(left'["overview"] > 0)
      BY <1>6
    <3> QED BY <1>4, <1>5, <1>7, <2>2, <3>1 DEF Aging
  <2> QED BY <2>1, <2>2
<1>11. Taking'
  <2>1. \A s \in Readers : Timed(s)' <=> Timed(s)
    <3>1. \A s \in Readers : lock["overview"] = s => Serving(s) /\ Serving(s)'
      BY <1>4, <1>6 DEF Loading, At, Serving
    <3> QED BY <1>1, <1>4, <1>5, <3>1 DEF Timed
  <2>2. \A s \in Readers : ~Timed(s)' => spent'[s] = 0
    BY <2>1 DEF IInv, Taking
  <2>3. \A s \in Readers : At(s, "take")' => age' - spent'[s] <= Ttl["overview"]
    <3>1. \A s \in Readers : At(s, "take")' => At(s, "take")
      BY <1>4, <1>5
    <3>2. \A s \in Readers : At(s, "take") =>
            age - spent[s] <= Ttl["overview"] /\ spent[r] <= spent[s]
      BY <1>6 DEF IInv, Taking
    <3>3. Ttl["overview"] \in Nat /\ spent[r] \in Nat /\ \A s \in Readers : spent[s] \in Nat
      BY KeptTypes, CatalogAssumption DEF IInv, Types
    <3> QED BY <3>1, <3>2, <3>3
  <2>4. \A s \in Readers : At(s, "take")' => \A w \in Readers : lock'["overview"] = w => spent'[w] <= spent'[s]
    BY <1>4, <1>5 DEF IInv, Taking
  <2> QED BY <2>2, <2>3, <2>4 DEF Taking
<1> QED BY <1>8, <1>9, <1>10, <1>11 DEF IInv

\* The query of the overview, and the first of its two writes, the value.
LEMMA LoadOverviewHolds == ASSUME IInv, NEW r \in Readers, LoadOverview(r) PROVE IInv'
<1>1. Loading(r) /\ ~At(r, "second")
  BY DEF LoadOverview, Loading, At
<1>2. Become(r, "first") /\ UNCHANGED <<spent, age, left, lock>>
  BY DEF LoadOverview, caches
<1> QED BY <1>1, <1>2, LoadingStep DEF IInv, Types

\* The first write of a load keeps the invariant.
LEMMA WriteFirstHolds == ASSUME IInv, NEW r \in Readers, WriteFirst(r) PROVE IInv'
<1>1. Loading(r) /\ ~At(r, "second")
  BY OfStep DEF WriteFirst, Loading, At
<1>2. Become(r, "second") /\ UNCHANGED <<spent, left, lock>> /\ age' = spent[r]
  BY DEF WriteFirst, Write, WriteOrder
<1>3. age' \in -1 .. Oldest
  BY <1>2, KeptTypes, CatalogAssumption DEF IInv, Types, Oldest
<1> QED BY <1>1, <1>2, <1>3, LoadingStep

\* The thread that had the lock of the overview leaves it.
LEMMA LeavingStep ==
  ASSUME IInv, NEW r \in Readers, Loading(r), Advance(r) \/ End(r),
         age' = age, left' \in [Shared -> Nat], \A x \in Shared : left'[x] <= Ttl[x],
         lock' \in [Shared -> Readers \cup {None}], lock'["overview"] = None,
         spent' = [spent EXCEPT ![r] = 0],
         left'["overview"] > 0 => age + left'["overview"] = Ttl["overview"],
         left'["overview"] = 0 => age = -1 \/ age >= Ttl["overview"]
  PROVE  IInv'
<1>1. Serving(r) /\ ~At(r, "take")
  BY DEF Loading, At
<1>2. PICK q : Sound(q) /\ (q # <<>> => q[1] \in Ahead) /\ path' = [path EXCEPT ![r] = q]
  <2>1. CASE End(r)
    BY <2>1, AheadSteps, AheadSound DEF End, Goto
  <2>2. CASE Advance(r)
    BY <1>1, <2>2, HeadStep DEF IInv, Advance, Goto
  <2> QED BY <2>1, <2>2
<1>3. /\ path' \in [Readers -> Seq(Steps)] /\ \A s \in Readers : Sound(path[s])'
      /\ path'[r] = q /\ \A s \in Readers \ {r} : path'[s] = path[s]
  BY <1>2, PathStep DEF IInv
<1>4. ~At(r, "take")' /\ ~At(r, "second")' /\ ~Loading(r)'
  <2>1. q # <<>> => /\ q[1][1] # "take" /\ q[1][1] # "second" /\ q[1][1] # "first"
                    /\ ~(q[1][1] = "load" /\ q[1][2] = "overview")
    BY <1>2, StepKinds
  <2> QED BY <2>1, <1>3 DEF At, Serving, Loading, Of
<1>5. \A s \in Readers \ {r} :
         /\ (At(s, "take")' <=> At(s, "take"))
         /\ (At(s, "second")' <=> At(s, "second"))
         /\ (Loading(s)' <=> Loading(s))
  BY <1>3, Others
<1>6. lock["overview"] = r
  BY DEF IInv, Alone
<1>7. \A s \in Readers : ~Loading(s)' /\ lock'["overview"] # s
  BY <1>4, <1>5, <1>6, CatalogAssumption DEF IInv, Alone
<1>8. spent' \in [Readers -> 0 .. Late] /\ spent'[r] = 0
      /\ \A s \in Readers \ {r} : spent'[s] = spent[s]
  BY CatalogAssumption DEF IInv, Types
<1>9. Types'
  BY <1>3, <1>8 DEF IInv, Types
<1>10. Alone'
  BY <1>3, <1>7 DEF Alone
<1>11. \A s \in Readers : ~At(s, "second")'
  <2>1. \A s \in Readers \ {r} : ~At(s, "second")
    <3>1. \A s \in Readers \ {r} : ~Loading(s)
      BY <1>6 DEF IInv, Alone
    <3>2. \A s \in Readers : At(s, "second") => Serving(s) /\ Of(s) = "overview"
      BY OfStep DEF At
    <3> QED BY <3>1, <3>2 DEF Loading
  <2> QED BY <1>4, <1>5, <2>1
<1>12. Aging'
  BY <1>11 DEF Aging
<1>13. Taking'
  <2>1. \A s \in Readers \ {r} : Timed(s)' <=> Timed(s)
    BY <1>5, <1>6, <1>7 DEF Timed
  <2>2. \A s \in Readers : ~Timed(s)' => spent'[s] = 0
    BY <1>8, <2>1 DEF IInv, Taking
  <2>3. \A s \in Readers : At(s, "take")' => age' - spent'[s] <= Ttl["overview"]
    BY <1>4, <1>5, <1>8 DEF IInv, Taking
  <2> QED BY <1>7, <2>2, <2>3 DEF Taking
<1> QED BY <1>9, <1>10, <1>12, <1>13 DEF IInv

\* The second write, the expiry: what is left is counted from before the query, as the age is.
LEMMA WriteSecondHolds == ASSUME IInv, NEW r \in Readers, WriteSecond(r) PROVE IInv'
<1>1. Loading(r) /\ At(r, "second") /\ left["overview"] = 0
  BY OfStep DEF WriteSecond, Loading, At, IInv, Alone
<1>2. /\ Advance(r) /\ age' = age /\ spent' = [spent EXCEPT ![r] = 0]
      /\ lock' = [lock EXCEPT !["overview"] = None]
      /\ left' = [left EXCEPT !["overview"] =
                     IF spent[r] < Ttl["overview"] THEN Ttl["overview"] - spent[r] ELSE 0]
  BY DEF WriteSecond, Write, WriteOrder
<1>3. /\ Ttl["overview"] \in Nat /\ Ttl["overview"] <= Late /\ Late \in Nat
      /\ spent[r] \in Nat /\ age \in Int
  BY KeptTypes, CatalogAssumption DEF IInv, Types, Oldest
<1>4. age = spent[r] \/ (spent[r] = Late /\ age >= Late)
  BY <1>1 DEF IInv, Aging
<1> DEFINE rest == IF spent[r] < Ttl["overview"] THEN Ttl["overview"] - spent[r] ELSE 0
<1>5. /\ rest \in Nat /\ rest <= Ttl["overview"]
      /\ rest > 0 => age + rest = Ttl["overview"]
      /\ rest = 0 => age >= Ttl["overview"]
  BY <1>3, <1>4
<1> HIDE DEF rest
<1>6. left' = [left EXCEPT !["overview"] = rest]
  BY <1>2 DEF rest
<1>7. /\ left' \in [Shared -> Nat] /\ left'["overview"] = rest
      /\ \A x \in Shared : left'[x] = left[x] \/ (x = "overview" /\ left'[x] = rest)
  BY <1>5, <1>6, KeptTypes
<1>8. \A x \in Shared : left'[x] <= Ttl[x]
  BY <1>5, <1>7, KeptTypes
<1>9. lock' \in [Shared -> Readers \cup {None}] /\ lock'["overview"] = None
  BY <1>2, KeptTypes
<1> QED BY <1>1, <1>2, <1>5, <1>7, <1>8, <1>9, LeavingStep

\* The other answers' loads, and the failing ones.
LEMMA LoadHolds == ASSUME IInv, NEW r \in Readers, Load(r) PROVE IInv'
<1>1. /\ At(r, "load") /\ Serving(r) /\ ~At(r, "take") /\ Of(r) # "overview"
      /\ Of(r) \in Shared /\ ~Loading(r)
  BY OfStep DEF Load, At, Loading
<1>2. /\ left' = [left EXCEPT ![Of(r)] = Ttl[Of(r)]] /\ lock' = [lock EXCEPT ![Of(r)] = None]
      /\ Advance(r) /\ UNCHANGED <<spent, age>>
  BY DEF Load
<1>3. \A x \in Shared : Ttl[x] \in Nat
  BY CatalogAssumption
<1>4. /\ left' \in [Shared -> Nat] /\ left'["overview"] = left["overview"]
      /\ \A x \in Shared : left'[x] = left[x] \/ left'[x] = Ttl[x]
  BY <1>1, <1>2, <1>3, KeptTypes
<1>5. \A x \in Shared : left'[x] <= Ttl[x]
  BY <1>3, <1>4, KeptTypes
<1>6. lock' \in [Shared -> Readers \cup {None}] /\ lock'["overview"] = lock["overview"]
  BY <1>1, <1>2, KeptTypes
<1> QED BY <1>1, <1>2, <1>4, <1>5, <1>6, RestStep

\* A load that fails keeps it too: the copy stays as it was.
LEMMA LoadFailsHolds == ASSUME IInv, NEW r \in Readers, LoadFails(r) PROVE IInv'
<1>1. At(r, "load") /\ Serving(r) /\ ~At(r, "take")
  BY DEF LoadFails, At
<1>2. End(r) /\ lock' = Released(r) /\ spent' = [spent EXCEPT ![r] = 0] /\ UNCHANGED <<age, left>>
  BY DEF LoadFails
<1>3. /\ lock' \in [Shared -> Readers \cup {None}]
      /\ lock'["overview"] = IF lock["overview"] = r THEN None ELSE lock["overview"]
  BY <1>2, KeptTypes DEF Released
<1>4. lock["overview"] = r <=> Loading(r)
  BY DEF IInv, Alone
<1>5. CASE Loading(r)
  <2>1. left["overview"] = 0 /\ (\A s \in Readers : ~At(s, "second"))
    <3>1. \A s \in Readers \ {r} : ~Loading(s)
      BY <1>4, <1>5 DEF IInv, Alone
    <3>2. \A s \in Readers : At(s, "second") => Serving(s) /\ Of(s) = "overview"
      BY OfStep DEF At
    <3>3. \A s \in Readers \ {r} : ~At(s, "second")
      BY <3>1, <3>2 DEF Loading
    <3>4. ~At(r, "second")
      BY <1>1 DEF At
    <3> QED BY <1>5, <3>3, <3>4 DEF IInv, Alone
  <2>2. age = -1 \/ age >= Ttl["overview"]
    BY <2>1 DEF IInv, Aging
  <2>3. /\ left' \in [Shared -> Nat] /\ \A x \in Shared : left'[x] <= Ttl[x]
        /\ ~(left'["overview"] > 0) /\ lock'["overview"] = None
    BY <1>2, <1>3, <1>4, <1>5, <2>1, KeptTypes
  <2> QED BY <1>2, <1>3, <1>5, <2>2, <2>3, LeavingStep
<1>6. CASE ~Loading(r)
  <2>1. spent[r] = 0
    BY <1>1, <1>4, <1>6 DEF IInv, Taking, Timed
  <2>2. spent' = spent
    BY <1>2, <2>1 DEF IInv, Types
  <2> QED BY <1>1, <1>2, <1>3, <1>4, <1>6, <2>2, KeptTypes, RestStep
<1> QED BY <1>5, <1>6

\* Time passes: the kept overview and those who took or load it age alike.
LEMMA TickHolds == ASSUME IInv, Tick PROVE IInv'
<1>1. /\ path' = path /\ lock' = lock
      /\ age' = IF age \in 0 .. Oldest - 1 THEN age + 1 ELSE age
      /\ left' = [x \in Shared |-> IF left[x] > 0 THEN left[x] - 1 ELSE 0]
      /\ spent' = [r \in Readers |-> IF Timed(r) /\ spent[r] < Late THEN spent[r] + 1 ELSE spent[r]]
  BY DEF Tick
<1> DEFINE T == Ttl["overview"]
           l == left["overview"]
           m == left'["overview"]
<1>2. /\ T \in Nat /\ T <= Late /\ Late \in Nat /\ Oldest = T + Late
      /\ age \in Int /\ -1 <= age /\ age <= Oldest /\ l \in Nat /\ l <= T
  BY KeptTypes, CatalogAssumption DEF IInv, Types, Oldest
<1>3. m = IF l > 0 THEN l - 1 ELSE 0
  BY <1>1, KeptTypes
<1>4. \A s \in Readers : /\ spent[s] \in Nat /\ spent[s] <= Late /\ spent'[s] \in Nat /\ spent'[s] <= Late
                          /\ spent'[s] = IF Timed(s) /\ spent[s] < Late THEN spent[s] + 1 ELSE spent[s]
  BY <1>1, <1>2 DEF IInv, Types
<1>5. \A s \in Readers : /\ (At(s, "take")' <=> At(s, "take"))
                          /\ (At(s, "second")' <=> At(s, "second"))
                          /\ (Loading(s)' <=> Loading(s))
                          /\ (Timed(s)' <=> Timed(s))
  BY <1>1 DEF At, Serving, Loading, Of, Timed
<1>6. Types'
  <2>1. path' \in [Readers -> Seq(Steps)] /\ lock' \in [Shared -> Readers \cup {None}]
    BY <1>1 DEF IInv, Types
  <2>2. spent' \in [Readers -> 0 .. Late]
    BY <1>1, <1>2, <1>4
  <2>3. age' \in -1 .. Oldest
    BY <1>1, <1>2
  <2>4. \A x \in Shared : left'[x] \in Nat /\ left'[x] <= Ttl[x]
    <3>1. \A x \in Shared : left[x] \in Nat /\ left[x] <= Ttl[x] /\ Ttl[x] \in Nat
      BY KeptTypes, CatalogAssumption
    <3> QED BY <1>1, <3>1
  <2>5. left' \in [Shared -> Nat]
    BY <1>1, <2>4
  <2> QED BY <2>1, <2>2, <2>3, <2>4, <2>5 DEF Types
<1>7. Alone'
  <2>1. \A s \in Readers : Sound(path[s])'
    BY <1>1 DEF IInv, Alone, Sound
  <2>2. \A s \in Readers : lock'["overview"] = s <=> Loading(s)'
    BY <1>1, <1>5 DEF IInv, Alone
  <2>3. \A s \in Readers : Loading(s)' => m = 0
    BY <1>3, <1>5 DEF IInv, Alone
  <2> QED BY <2>1, <2>2, <2>3 DEF Alone
<1>8. \A s \in Readers : At(s, "second") => Timed(s) /\ l = 0
  <2>1. \A s \in Readers : At(s, "second") => Serving(s) /\ Loading(s)
    BY OfStep DEF At, Loading
  <2> QED BY <2>1 DEF IInv, Alone, Timed
<1>9. Aging'
  <2>1. m > 0 => age' + m = T
    <3>1. l > 0 => age + l = T
      BY DEF IInv, Aging
    <3> QED BY <1>1, <1>2, <1>3, <3>1
  <2>2. m = 0 /\ (\A s \in Readers : ~At(s, "second")') => age' = -1 \/ age' >= T
    <3> SUFFICES ASSUME m = 0, \A s \in Readers : ~At(s, "second")' PROVE age' = -1 \/ age' >= T
      OBVIOUS
    <3>1. CASE l = 0
      <4>1. age = -1 \/ age >= T
        BY <1>5, <3>1 DEF IInv, Aging
      <4> QED BY <1>1, <1>2, <4>1
    <3>2. CASE l > 0
      <4>1. age + l = T
        BY <3>2 DEF IInv, Aging
      <4> QED BY <1>1, <1>2, <1>3, <3>2, <4>1
    <3> QED BY <1>2, <3>1, <3>2
  <2>3. \A s \in Readers : At(s, "second")' => age' = spent'[s] \/ (spent'[s] = Late /\ age' >= Late)
    <3> SUFFICES ASSUME NEW s \in Readers, At(s, "second")
                 PROVE  age' = spent'[s] \/ (spent'[s] = Late /\ age' >= Late)
      BY <1>5
    <3>1. age = spent[s] \/ (spent[s] = Late /\ age >= Late)
      BY DEF IInv, Aging
    <3>2. spent'[s] = IF spent[s] < Late THEN spent[s] + 1 ELSE spent[s]
      BY <1>4, <1>8
    <3>3. spent[s] \in Nat /\ spent[s] <= Late
      BY <1>4
    <3> QED BY <1>1, <1>2, <3>1, <3>2, <3>3
  <2> QED BY <2>1, <2>2, <2>3 DEF Aging
<1>10. Taking'
  <2>1. \A s \in Readers : ~Timed(s)' => spent'[s] = 0
    BY <1>4, <1>5 DEF IInv, Taking
  <2>2. \A s \in Readers : At(s, "take")' => age' - spent'[s] <= T
    <3> SUFFICES ASSUME NEW s \in Readers, At(s, "take") PROVE age' - spent'[s] <= T
      BY <1>5
    <3>1. age - spent[s] <= T
      BY DEF IInv, Taking
    <3>2. spent'[s] = IF spent[s] < Late THEN spent[s] + 1 ELSE spent[s]
      BY <1>4 DEF Timed
    <3>3. spent[s] \in Nat /\ spent[s] <= Late
      BY <1>4
    <3> QED BY <1>1, <1>2, <3>1, <3>2, <3>3
  <2>3. \A s \in Readers : At(s, "take")' =>
          \A w \in Readers : lock'["overview"] = w => spent'[w] <= spent'[s]
    <3> SUFFICES ASSUME NEW s \in Readers, At(s, "take"), NEW w \in Readers, lock["overview"] = w
                 PROVE  spent'[w] <= spent'[s]
      BY <1>1, <1>5
    <3>1. spent[w] <= spent[s]
      BY DEF IInv, Taking
    <3>2. Timed(w) /\ Timed(s)
      BY DEF IInv, Alone, Loading, At, Timed
    <3>3. /\ spent'[s] = IF spent[s] < Late THEN spent[s] + 1 ELSE spent[s]
          /\ spent'[w] = IF spent[w] < Late THEN spent[w] + 1 ELSE spent[w]
      BY <1>4, <3>2
    <3>4. spent[s] \in Nat /\ spent[s] <= Late /\ spent[w] \in Nat /\ spent[w] <= Late
      BY <1>4
    <3> QED BY <1>2, <3>1, <3>3, <3>4
  <2> QED BY <2>1, <2>2, <2>3 DEF Taking
<1> QED BY <1>6, <1>7, <1>9, <1>10 DEF IInv

\* Nothing changes.
LEMMA StutterHolds == ASSUME IInv, UNCHANGED vars PROVE IInv'
<1>1. UNCHANGED <<path, spent, age, left, lock>>
  BY DEF vars, caches
<1>2. \A s \in Readers : /\ (At(s, "take")' <=> At(s, "take"))
                          /\ (At(s, "second")' <=> At(s, "second"))
                          /\ (Loading(s)' <=> Loading(s))
                          /\ (Timed(s)' <=> Timed(s))
                          /\ (Sound(path[s])' <=> Sound(path[s]))
  BY <1>1 DEF At, Serving, Loading, Of, Timed, Sound
<1>3. Types'
  BY <1>1 DEF IInv, Types
<1>4. Alone'
  BY <1>1, <1>2 DEF IInv, Alone
<1>5. Aging'
  BY <1>1, <1>2 DEF IInv, Aging
<1>6. Taking'
  BY <1>1, <1>2 DEF IInv, Taking
<1> QED BY <1>3, <1>4, <1>5, <1>6 DEF IInv

-----------------------------------------------------------------------------
(* The theorems about the catalog.                                          *)

\* The inductive invariant: what the overview's lock, its age, the time left and the time each
\* thread counts know of one another.
THEOREM Invariance == Init /\ [][Next]_vars => []IInv
<1>1. IInv /\ [Next]_vars => IInv'
  <2> SUFFICES ASSUME IInv, [Next]_vars PROVE IInv'
    OBVIOUS
  <2>1. ASSUME NEW r \in Readers, Begin(r) PROVE IInv'
    BY <2>1, BeginHolds
  <2>2. ASSUME NEW r \in Readers, Lock(r) PROVE IInv'
    BY <2>2, LockHolds
  <2>3. ASSUME NEW r \in Readers, Proceed(r) PROVE IInv'
    BY <2>3, LookHolds, TakeHolds, LoadOverviewHolds, WriteFirstHolds, WriteSecondHolds,
       LoadHolds, LoadFailsHolds, PreviewsHold DEF Proceed
  <2>4. CASE Tick
    BY <2>4, TickHolds
  <2>5. CASE UNCHANGED vars
    BY <2>5, StutterHolds
  <2> QED BY <2>1, <2>2, <2>3, <2>4, <2>5 DEF Next
<1> QED BY <1>1, InvInit, PTL

\* What else is served changes nothing here.
LEMMA CatalogOfApi == ApiSpec => Init /\ [][Next]_vars
<1>1. ApiInit => Init
  BY DEF ApiInit
<1>2. [ApiNext]_apiVars => [Next]_vars
  BY DEF ApiNext, Catalog, Walk, Judge, apiVars
<1> QED BY <1>1, <1>2, PTL DEF ApiSpec

\* An overview is never older, when a request takes it, than the time it is kept, however the
\* unlocked look, the two writes and the passing of time interleave (hub.py).
THEOREM AnswersAreRecent == ApiSpec => OverviewIsRecent
<1>1. IInv /\ [Next]_vars =>
        [\A r \in Readers :
          At(r, "take") /\ path'[r] # path[r] => age - spent[r] <= Ttl["overview"]]_vars
  BY DEF IInv, Taking
<1> QED BY <1>1, Invariance, CatalogOfApi, PTL DEF OverviewIsRecent

\* Only an overview whose time is over is loaded again, and by one thread: whoever takes the
\* lock finds none kept, or one that is as old as its time (hub.py).
THEOREM LoadsAreDue == ApiSpec => LoadIsDue
<1>1. IInv /\ [Next]_vars =>
        [\A r \in Readers :
           lock["overview"] # r /\ lock'["overview"] = r => age = -1 \/ age >= Ttl["overview"]]_vars
  <2> SUFFICES ASSUME IInv, Next, NEW r \in Readers, lock["overview"] # r, lock'["overview"] = r
               PROVE  age = -1 \/ age >= Ttl["overview"]
    BY DEF vars, caches
  <2>1. r # None
    BY CatalogAssumption
  <2>2. PICK s \in Readers : Lock(s) /\ lock' # lock
    <3>1. \A s \in Readers : Begin(s) => lock' = lock
      BY DEF Begin, caches
    <3>2. \A s \in Readers : Proceed(s) => lock'["overview"] \in {lock["overview"], None}
      <4> SUFFICES ASSUME NEW s \in Readers, Proceed(s)
                   PROVE  lock'["overview"] \in {lock["overview"], None}
        OBVIOUS
      <4>1. lock' = lock \/ lock' = [lock EXCEPT !["overview"] = None]
              \/ lock' = [lock EXCEPT ![Of(s)] = None] \/ lock' = Released(s)
        BY DEF Proceed, Look, Take, LoadOverview, WriteFirst, WriteSecond, Load, LoadFails,
               Refuse, Slot, Query, Ask, Open, Start, Stream, caches
      <4> QED BY <4>1, KeptTypes DEF Released
    <3>3. Tick => lock' = lock
      BY DEF Tick
    <3> QED BY <2>1, <3>1, <3>2, <3>3 DEF Next
  <2>3. /\ ~Rechecked(Of(s)) /\ lock[Of(s)] = None /\ Of(s) \in Shared
        /\ lock' = [lock EXCEPT ![Of(s)] = s]
    BY <2>2, KeptTypes, OfStep DEF Lock
  <2>4. Of(s) = "overview" /\ left["overview"] = 0 /\ lock["overview"] = None
    BY <2>3, KeptTypes DEF Rechecked
  <2>5. \A w \in Readers : ~At(w, "second")
    <3>1. \A w \in Readers : ~Loading(w)
      BY <2>4, CatalogAssumption DEF IInv, Alone
    <3>2. \A w \in Readers : At(w, "second") => Serving(w) /\ Of(w) = "overview"
      BY OfStep DEF At
    <3> QED BY <3>1, <3>2 DEF Loading
  <2> QED BY <2>4, <2>5 DEF IInv, Aging
<1> QED BY <1>1, Invariance, CatalogOfApi, PTL DEF LoadIsDue

-----------------------------------------------------------------------------
(* The verdicts on a session.                                               *)

\* The modules of the pages have finite sets of their own.
LEMMA CardinalityOfStatus == ASSUME NEW S PROVE Status!Cardinality(S) = Cardinality(S)
BY DEF Status!Cardinality, Cardinality

LEMMA StatusConstants == IsFiniteSet(Series) /\ Close \in Nat \ {0} /\ Stale \in Nat
<1>1. Status!IsFiniteSet(Series) <=> IsFiniteSet(Series)
  BY DEF Status!IsFiniteSet, IsFiniteSet
<1> QED BY <1>1, ApiAssumption DEF Status!StatusAssumption

LEMMA MinutesAreFinite == IsFiniteSet(Status!Minutes) /\ Status!Minutes \subseteq Nat
  BY StatusConstants, FS_Interval DEF Status!Minutes

LEMMA PointsOfSession ==
  ASSUME NEW t \in Nat
  PROVE  /\ Status!Points(t) \in 0 .. Close
         /\ Status!Completed(t) \in 0 .. Close
         /\ Status!Completed(t) <= t
         /\ Status!Completed(t) <= Status!Completed(t + 1)
  BY StatusConstants DEF Status!Points, Status!Completed, Status!Least

LEMMA StoredIsFinite ==
  ASSUME NEW B, B \subseteq Series \X Status!Minutes
  PROVE  IsFiniteSet(B) /\ Cardinality(B) \in Nat
<1>1. IsFiniteSet(Series \X Status!Minutes)
  BY StatusConstants, MinutesAreFinite, FS_Product
<1> QED BY <1>1, FS_Subset, FS_CardinalityType

LEMMA MinutesOfSeries ==
  ASSUME NEW B, B \subseteq Series \X Status!Minutes, NEW s
  PROVE  IsFiniteSet(Status!BarsOf(B, s)) /\ Cardinality(Status!BarsOf(B, s)) \in Nat
<1>1. Status!BarsOf(B, s) \subseteq Status!Minutes
  BY DEF Status!BarsOf
<1> QED BY <1>1, MinutesAreFinite, FS_Subset, FS_CardinalityType

\* Counting shows what is missing: a series with fewer bars than minutes lacks one of them.
LEMMA SeriesLacksOne ==
  ASSUME NEW B, B \subseteq Series \X Status!Minutes, NEW s, NEW n \in 0 .. Close,
         Cardinality(Status!BarsOf(B, s)) < n
  PROVE  \E m \in 1 .. n : <<s, m>> \notin B
<1> SUFFICES ASSUME \A m \in 1 .. n : <<s, m>> \in B
             PROVE  n <= Cardinality(Status!BarsOf(B, s))
  BY MinutesOfSeries, StatusConstants
<1>1. 1 .. n \subseteq Status!BarsOf(B, s)
  BY StatusConstants DEF Status!BarsOf, Status!Minutes
<1>2. Cardinality(1 .. n) <= Cardinality(Status!BarsOf(B, s))
  BY <1>1, MinutesOfSeries, FS_Subset
<1>3. Cardinality(1 .. n) = n
  BY FS_Interval
<1> QED BY <1>2, <1>3

\* So it is with the total over series.
LEMMA TotalLacksOne ==
  ASSUME NEW B, B \subseteq Series \X Status!Minutes, NEW E, E \subseteq Series,
         NEW n \in 0 .. Close,
         Cardinality(B) < Cardinality(E) * n
  PROVE  Status!Due(E, n, B)
<1> SUFFICES ASSUME ~Status!Due(E, n, B)
             PROVE  Cardinality(E) * n <= Cardinality(B)
  <2>1. IsFiniteSet(E) /\ Cardinality(E) \in Nat
    BY StatusConstants, FS_Subset, FS_CardinalityType
  <2>2. Cardinality(E) * n \in Nat
    BY <2>1
  <2> QED BY <2>2, StoredIsFinite
<1>1. E \X (1 .. n) \subseteq B
  BY DEF Status!Due
<1>2. IsFiniteSet(E)
  BY StatusConstants, FS_Subset
<1>5. IsFiniteSet(1 .. n) /\ Cardinality(1 .. n) = n
  BY FS_Interval
<1>3. Cardinality(E \X (1 .. n)) = Cardinality(E) * n
  BY <1>2, <1>5, FS_Product
<1>4. Cardinality(E \X (1 .. n)) <= Cardinality(B)
  BY <1>1, StoredIsFinite, FS_Subset
<1> QED BY <1>3, <1>4

\* A percentage that is not reached leaves something to come.
LEMMA BelowLacksOne ==
  ASSUME NEW B, B \subseteq Series \X Status!Minutes, NEW E, E \subseteq Series, E # {},
         NEW t \in Nat, Status!Points(t) > 0,
         NEW percent \in 1 .. 100, Status!Below(percent, t, E, B)
  PROVE  Status!Due(E, Status!Points(t), B)
<1> DEFINE n == Status!Points(t)
<1>1. n \in 0 .. Close /\ n > 0
  BY PointsOfSession
<1>2. CASE B = {}
  <2>1. 1 \in 1 .. n
    BY <1>1, StatusConstants
  <2> QED BY <1>2, <2>1 DEF Status!Due
<1>3. CASE 100 * Cardinality(B) < percent * Cardinality(E) * n
  <2>1. Cardinality(B) \in Nat
    BY StoredIsFinite
  <2>2. Cardinality(E) \in Nat
    BY StatusConstants, FS_Subset, FS_CardinalityType
  <2> HIDE DEF n
  <2>3. PICK k \in Nat : k = Cardinality(E) * n
    BY <1>1, <2>2, StatusConstants
  <2>4. percent * Cardinality(E) * n = percent * k
    BY <1>1, <2>2, <2>3, StatusConstants
  <2>5. 100 * Cardinality(B) < percent * k
    BY <1>3, <2>4
  <2>6. percent * k <= 100 * k
    BY <2>3
  <2>7. Cardinality(B) < k
    BY <2>1, <2>3, <2>5, <2>6
  <2> QED BY <1>1, <2>3, <2>7, TotalLacksOne DEF n
<1> QED BY <1>2, <1>3, CardinalityOfStatus DEF Status!Below

-----------------------------------------------------------------------------
(* Verdicts of a page, whatever its reads: with the clock t, the series E and *)
(* the bars B.                                                               *)

LEMMA OneQuery ==
  ASSUME NEW t \in Nat, t <= clock, clock \in Nat, fed \in Int,
         NEW E, E \subseteq Series, bars \subseteq Series \X Status!Minutes
  PROVE  Status!OneQueryIsTrue(t, E, bars)
<1> DEFINE n == Status!Points(t)
<1>1. n \in 0 .. Close
  BY PointsOfSession
<1>2. Status!SeriesLacks(t, E, bars) => Status!Due(E, n, bars)
  <2> SUFFICES ASSUME NEW s \in E, Cardinality(Status!BarsOf(bars, s)) < n
               PROVE  Status!Due(E, n, bars)
    BY CardinalityOfStatus DEF Status!SeriesLacks
  <2> QED BY <1>1, SeriesLacksOne DEF Status!Due
<1>3. Status!MinuteLacks(t, E, bars) => Status!Due(E, n, bars)
  BY DEF Status!MinuteLacks, Status!Due
<1>4. Status!HubLacks(t, E, bars) => Status!Due(E, n, bars)
  <2> SUFFICES ASSUME E # {}, n > 0, Status!Below(99, t, E, bars)
               PROVE  Status!Due(E, n, bars)
    BY DEF Status!HubLacks
  <2> QED BY <1>1, BelowLacksOne
<1>5. Status!NotFed(t) => Status!NotFed(clock)
  BY StatusConstants DEF Status!NotFed, Status!Aged
<1> QED BY <1>2, <1>3, <1>4, <1>5 DEF Status!OneQueryIsTrue

LEMMA TotalsOfReads ==
  ASSUME NEW t \in Nat, t <= clock, clock \in Nat, fed \in Int,
         NEW E, E \subseteq Series, bars \subseteq Series \X Status!Minutes
  PROVE  Status!TotalsAreTrue(t, E, bars)
<1> DEFINE n == Status!Points(t)
<1>1. n \in 0 .. Close
  BY PointsOfSession
<1>2. Status!TotalLacks(t, E, bars) => Status!Due(E, n, bars)
  BY <1>1, TotalLacksOne, CardinalityOfStatus DEF Status!TotalLacks
<1>3. Status!OverviewComplains(t, E, bars) => Status!Due(E, n, bars) \/ Status!NotFed(clock)
  <2> SUFFICES ASSUME Status!OverviewComplains(t, E, bars), ~Status!NotFed(clock)
               PROVE  Status!Due(E, n, bars)
    OBVIOUS
  <2> DEFINE target == IF t > Close THEN 99 ELSE 95
  <2>1. ~Status!Aged(t)
    BY StatusConstants DEF Status!NotFed, Status!Aged
  <2>2. E # {} /\ t > 0 /\ Status!Below(target, t, E, bars)
    BY <2>1 DEF Status!OverviewComplains
  <2>3. n > 0
    BY <2>2, StatusConstants DEF Status!Points, Status!Least
  <2>4. target \in 1 .. 100
    OBVIOUS
  <2> QED BY <2>2, <2>3, <2>4, BelowLacksOne
<1> QED BY <1>2, <1>3 DEF Status!TotalsAreTrue

LEMMA CoverageOfReads ==
  ASSUME NEW t \in Nat, NEW E, E \subseteq Series, counted \subseteq Series \X Status!Minutes
  PROVE  Status!CoverageIsTrue(t, E, counted)
<1> SUFFICES ASSUME E \subseteq listed, Status!UsLacks(t, E, counted)
             PROVE  Status!Due(E, Status!Completed(t), counted)
  BY DEF Status!CoverageIsTrue
<1> DEFINE n == Status!Completed(t)
           B == {b \in counted : b[1] \in listed}
<1>1. n \in 0 .. Close
  BY PointsOfSession
<1>2. Cardinality(B) < Cardinality(E) * n
  BY CardinalityOfStatus DEF Status!UsLacks
<1>3. B \subseteq Series \X Status!Minutes
  OBVIOUS
<1>4. Status!Due(E, n, B)
  <2> HIDE DEF n, B
  <2> QED BY <1>1, <1>2, <1>3, TotalLacksOne
<1>5. PICK s \in E, m \in 1 .. n : <<s, m>> \notin B
  BY <1>4 DEF Status!Due
<1> QED BY <1>5 DEF Status!Due

-----------------------------------------------------------------------------
(* The invariant of the pages: a page knows no later clock than the world, and no bar that *)
(* is not stored; of the US nothing is stored before its minute is over.                   *)

StatusTyped ==
  /\ market \in Status!Markets
  /\ clock \in Nat /\ fed \in Int
  /\ listed \subseteq Series
  /\ bars \subseteq Series \X Status!Minutes /\ counted \subseteq bars
  /\ asked \subseteq Series /\ seen \subseteq bars

PageTyped ==
  /\ step \in Nat
  /\ page = <<>> => step = 1
  /\ page = Status!UsInstruments => market = "US"

ClockKnown ==
  page \in {Status!ClockFirst, Status!Totals, Status!UsDashboard} /\ step > 1 =>
    at \in Nat /\ at <= clock

OverIsStored ==
  market = "US" => \A b \in bars : b[2] <= Status!Completed(clock)

StatusInv == StatusTyped /\ PageTyped /\ ClockKnown /\ OverIsStored

LEMMA StatusInitHolds == Status!Init => StatusInv
<1> SUFFICES ASSUME Status!Init PROVE StatusInv
  OBVIOUS
<1>1. StatusTyped
  BY DEF Status!Init, StatusTyped
<1>2. PageTyped /\ ClockKnown /\ OverIsStored
  BY DEF Status!Init, PageTyped, ClockKnown, OverIsStored, Status!UsInstruments
<1> QED BY <1>1, <1>2 DEF StatusInv

\* Only the pages of the US begin with the series that are expected.
LEMMA UsInstrumentsIsOfUs ==
  ASSUME NEW p \in Status!Pages, p = Status!UsInstruments, market \in Status!Markets
  PROVE  market = "US"
<1>1. p[1] = "expected"
  BY DEF Status!UsInstruments
<1>2. \A q \in Status!IndiaPages : q[1] # "expected"
  BY DEF Status!IndiaPages, Status!IndiaDashboard, Status!IndiaCoverage, Status!IndiaActivity,
         Status!IndiaFreshness, Status!IndiaGaps, Status!IndiaAnomalies, Status!ClockFirst,
         Status!Totals
<1>3. \A q \in Status!StatsPages \cup Status!DrillDownPages : q[1] # "expected"
  BY DEF Status!StatsPages, Status!DrillDownPages, Status!IndiaStats, Status!IndiaDailyStats,
         Status!IndiaMetrics, Status!IndiaInstrument, Status!IndiaSourceStatus, Status!AtOnce,
         Status!ClockFirst
<1>4. \A q \in Status!HubPages : q[1] # "expected"
  BY DEF Status!HubPages, Status!HubOverview, Status!HubInstruments, Status!HubDays,
         Status!ClockFirst, Status!Totals
<1>5. \A q \in Status!PoliticalPages \cup Status!HubPoliticalPages : q[1] # "expected"
  BY DEF Status!PoliticalPages, Status!HubPoliticalPages, Status!PoliticalDashboard,
         Status!PoliticalCoverage, Status!PoliticalActivity, Status!PoliticalFreshness,
         Status!PoliticalAnomalies, Status!PoliticalMetrics, Status!AtOnce, Status!ClockFirst
<1>6. \A q \in Status!PersonPages : q[1] # "expected"
  BY DEF Status!PersonPages, Status!LegislatorSummary, Status!TickerSummary,
         Status!PoliticalSourceStatus, Status!ClockFirst
<1> QED BY <1>1, <1>2, <1>3, <1>4, <1>5, <1>6 DEF Status!Pages, Status!Markets

LEMMA BeginPageHolds == StatusInv /\ Status!Begin => StatusInv'
<1> SUFFICES ASSUME StatusInv, Status!Begin PROVE StatusInv'
  OBVIOUS
<1>1. UNCHANGED <<market, clock, listed, bars, counted, fed, step, at, asked, seen>>
      /\ page = <<>> /\ page' \in Status!Pages
  BY DEF Status!Begin, Status!world
<1>2. StatusTyped'
  BY <1>1 DEF StatusInv, StatusTyped, Status!Minutes, Status!Markets
<1>3. step = 1
  BY <1>1 DEF StatusInv, PageTyped
<1>4. PageTyped'
  <2>1. page' = Status!UsInstruments => market = "US"
    BY <1>1, UsInstrumentsIsOfUs DEF StatusInv, StatusTyped
  <2>2. page' # <<>> \/ step' = 1
    BY <1>1, <1>3
  <2> QED BY <1>1, <1>3, <2>1, <2>2 DEF PageTyped, Status!UsInstruments
<1>5. ClockKnown' /\ OverIsStored'
  BY <1>1, <1>3 DEF StatusInv, ClockKnown, OverIsStored, Status!Completed, Status!Least
<1> QED BY <1>2, <1>4, <1>5 DEF StatusInv

\* A read, wherever it takes its values from.
LEMMA ReadHolds ==
  ASSUME StatusInv, NEW op, NEW t, NEW E, E \subseteq Series, NEW B, B \subseteq bars,
         Status!Read(op, t, E, B),
         \/ op = "clock" /\ t = clock
         \/ op # "clock" /\ t = at
         \/ t = at /\ step > 1
  PROVE  StatusInv'
<1>1. UNCHANGED <<market, clock, listed, bars, counted, fed>>
  BY DEF Status!Read, Status!world
<1>2. \/ page' = <<>> /\ step' = 1 /\ asked' = {} /\ seen' = {}
      \/ page' = page /\ page # <<>> /\ step' = step + 1 /\ at' = t /\ asked' = E /\ seen' = B
         /\ page[step] = op
  BY DEF Status!Read, Status!Reading
<1>3. StatusTyped'
  BY <1>1, <1>2 DEF StatusInv, StatusTyped, Status!Minutes, Status!Markets
<1>4. PageTyped'
  BY <1>1, <1>2 DEF StatusInv, PageTyped, Status!UsInstruments
<1>5. OverIsStored'
  BY <1>1 DEF StatusInv, OverIsStored, Status!Completed, Status!Least
<1>6. ClockKnown'
  <2> SUFFICES ASSUME page' \in {Status!ClockFirst, Status!Totals, Status!UsDashboard}', step' > 1
               PROVE  at' \in Nat /\ at' <= clock
    BY <1>1 DEF ClockKnown
  <2>1. page' = page /\ at' = t /\ page[step] = op /\ step' = step + 1
    BY <1>2
  <2>2. page \in {Status!ClockFirst, Status!Totals, Status!UsDashboard}
    BY <2>1 DEF Status!ClockFirst, Status!Totals, Status!UsDashboard
  <2>3. step \in Nat /\ clock \in Nat /\ step >= 1
    BY <2>1 DEF StatusInv, StatusTyped, PageTyped
  <2>4. step = 1 => op = "clock"
    BY <2>1, <2>2 DEF Status!ClockFirst, Status!Totals, Status!UsDashboard
  <2>5. CASE op = "clock" /\ t = clock
    BY <2>1, <2>3, <2>5
  <2>6. CASE t = at /\ step > 1
    BY <2>1, <2>2, <2>6 DEF StatusInv, ClockKnown
  <2> QED BY <2>3, <2>4, <2>5, <2>6
<1> QED BY <1>3, <1>4, <1>5, <1>6 DEF StatusInv

LEMMA ServeHolds == StatusInv /\ Status!Serve => StatusInv'
<1> SUFFICES ASSUME StatusInv, Status!Serve PROVE StatusInv'
  OBVIOUS
<1>1. asked \subseteq Series /\ seen \subseteq bars /\ listed \subseteq Series
      /\ counted \subseteq bars /\ {} \subseteq Series /\ step \in Nat
  BY DEF StatusInv, StatusTyped, PageTyped
<1>2. CASE Status!ReadClock
  BY <1>1, <1>2, ReadHolds DEF Status!ReadClock
<1>3. CASE Status!ReadExpected
  BY <1>1, <1>3, ReadHolds DEF Status!ReadExpected
<1>4. CASE Status!ReadBars
  BY <1>1, <1>4, ReadHolds DEF Status!ReadBars
<1>5. CASE Status!ReadSeries
  BY <1>1, <1>5, ReadHolds DEF Status!ReadSeries
<1>6. CASE Status!ReadCoverage
  BY <1>1, <1>6, ReadHolds DEF Status!ReadCoverage
<1>7. CASE Status!ReadAgain
  <2> DEFINE E == IF seen = {} THEN listed ELSE asked
  <2>1. E \subseteq Series
    BY <1>1
  <2>2. Status!Read("again", at, E, seen)
    BY <1>7 DEF Status!ReadAgain
  <2> QED BY <1>1, <2>1, <2>2, ReadHolds
<1>8. CASE Status!ReadFails
  BY <1>1, <1>8, ReadHolds DEF Status!ReadFails
<1> QED BY <1>2, <1>3, <1>4, <1>5, <1>6, <1>7, <1>8 DEF Status!Serve

\* What is stored and what is expected changes around the pages.
LEMMA WorldHolds ==
  ASSUME StatusInv,
         Status!Collect \/ Status!Tick \/ \E s \in Series : Status!Count(s) \/ Status!Activate(s)
  PROVE  StatusInv'
<1>1. UNCHANGED <<market, page, step, at, asked, seen>> /\ bars \subseteq bars'
  BY DEF Status!Collect, Status!Tick, Status!Count, Status!Activate, Status!request
<1>2. clock \in Nat /\ clock' \in Nat /\ clock <= clock'
  BY DEF StatusInv, StatusTyped, Status!Collect, Status!Tick, Status!Count, Status!Activate
<1>3. PageTyped'
  BY <1>1 DEF StatusInv, PageTyped, Status!UsInstruments
<1>4. ClockKnown'
  BY <1>1, <1>2 DEF StatusInv, ClockKnown, Status!ClockFirst, Status!Totals, Status!UsDashboard
<1>5. CASE Status!Collect
  <2>1. PICK s \in Series, m \in Status!Storable : bars' = bars \cup {<<s, m>>}
    BY <1>5 DEF Status!Collect
  <2>2. UNCHANGED <<clock, listed, counted>> /\ fed' = clock
    BY <1>5 DEF Status!Collect
  <2>3. Status!Completed(clock) \in 0 .. Close
    BY <1>2, PointsOfSession
  <2>4. m \in Status!Minutes /\ (market = "US" => m <= Status!Completed(clock))
    BY <2>3, StatusConstants DEF Status!Storable, Status!Minutes
  <2>5. StatusTyped'
    BY <1>1, <1>2, <2>1, <2>2, <2>4 DEF StatusInv, StatusTyped, Status!Minutes, Status!Markets
  <2>6. OverIsStored'
    BY <1>1, <2>1, <2>2, <2>4 DEF StatusInv, OverIsStored, Status!Completed, Status!Least
  <2> QED BY <1>3, <1>4, <2>5, <2>6 DEF StatusInv
<1>6. CASE Status!Tick
  <2>1. clock' = clock + 1 /\ UNCHANGED <<listed, bars, counted, fed>>
    BY <1>6 DEF Status!Tick
  <2>2. StatusTyped'
    BY <1>1, <1>2, <2>1 DEF StatusInv, StatusTyped, Status!Minutes, Status!Markets
  <2>3. Status!Completed(clock) \in 0 .. Close /\ Status!Completed(clock + 1) \in 0 .. Close
        /\ Status!Completed(clock) <= Status!Completed(clock + 1)
    BY <1>2, PointsOfSession
  <2>4. OverIsStored'
    <3> SUFFICES ASSUME market = "US", NEW b \in bars
                 PROVE  b[2] <= Status!Completed(clock + 1)
      BY <1>1, <2>1 DEF OverIsStored, Status!Completed, Status!Least
    <3>1. b[2] \in Nat
      BY MinutesAreFinite DEF StatusInv, StatusTyped
    <3>2. b[2] <= Status!Completed(clock)
      BY DEF StatusInv, OverIsStored
    <3> QED BY <2>3, <3>1, <3>2, StatusConstants
  <2> QED BY <1>3, <1>4, <2>2, <2>4 DEF StatusInv
<1>7. ASSUME NEW s \in Series, Status!Count(s) \/ Status!Activate(s)
      PROVE  StatusInv'
  <2>1. UNCHANGED <<clock, bars, fed>>
    BY <1>7 DEF Status!Count, Status!Activate
  <2>2. listed' \subseteq Series /\ counted' \subseteq bars
    BY <1>7 DEF Status!Count, Status!Activate, StatusInv, StatusTyped
  <2>3. StatusTyped'
    BY <1>1, <2>1, <2>2 DEF StatusInv, StatusTyped, Status!Minutes, Status!Markets
  <2>4. OverIsStored'
    BY <1>1, <2>1 DEF StatusInv, OverIsStored, Status!Completed, Status!Least
  <2> QED BY <1>3, <1>4, <2>3, <2>4 DEF StatusInv
<1> QED BY <1>5, <1>6, <1>7

LEMMA StatusRests ==
  ASSUME StatusInv, UNCHANGED statusVars
  PROVE  StatusInv'
<1>1. StatusTyped'
  BY DEF statusVars, StatusInv, StatusTyped, Status!Minutes, Status!Markets
<1>2. PageTyped' /\ ClockKnown'
  BY DEF statusVars, StatusInv, PageTyped, ClockKnown, Status!UsInstruments, Status!ClockFirst,
         Status!Totals, Status!UsDashboard
<1>3. OverIsStored'
  BY DEF statusVars, StatusInv, OverIsStored, Status!Completed, Status!Least
<1> QED BY <1>1, <1>2, <1>3 DEF StatusInv

LEMMA StatusStep == StatusInv /\ [ApiNext]_apiVars => StatusInv'
<1> SUFFICES ASSUME StatusInv, [ApiNext]_apiVars PROVE StatusInv'
  OBVIOUS
<1>1. Status!Next \/ UNCHANGED statusVars
  BY DEF ApiNext, apiVars, Catalog, Walk, Judge
<1>2. CASE Status!Next
  BY <1>2, BeginPageHolds, ServeHolds, WorldHolds DEF Status!Next
<1> QED BY <1>1, <1>2, StatusRests

-----------------------------------------------------------------------------
(* What the verdicts say, and the theorem about them.                       *)

\* The list of US instruments: as many bars as are due, of minutes that are over, are all of them.
LEMMA CompleteIsTrue ==
  ASSUME StatusInv, market = "US", NEW s \in Series, Status!UsComplete(clock, s, seen)
  PROVE  ~Status!Due({s}, Status!Completed(clock), bars)
<1> DEFINE n == Status!Completed(clock)
           B == Status!BarsOf(seen, s)
<1>1. n \in 0 .. Close /\ n \in Nat
  BY PointsOfSession, StatusConstants DEF StatusInv, StatusTyped
<1>2. Cardinality(B) >= n
  BY CardinalityOfStatus DEF Status!UsComplete
<1>3. seen \subseteq bars /\ bars \subseteq Series \X Status!Minutes
  BY DEF StatusInv, StatusTyped
<1>4. B \subseteq 1 .. n
  <2> SUFFICES ASSUME NEW m \in B PROVE m \in 1 .. n
    OBVIOUS
  <2>1. m \in Status!Minutes /\ <<s, m>> \in bars
    BY <1>3 DEF Status!BarsOf
  <2>2. m <= n
    BY <2>1 DEF StatusInv, OverIsStored
  <2> QED BY <1>1, <2>1, <2>2, StatusConstants DEF Status!Minutes
<1> HIDE DEF n, B
<1>5. IsFiniteSet(1 .. n) /\ Cardinality(1 .. n) = n
  BY <1>1, FS_Interval
<1>6. B = 1 .. n
  <2>1. Cardinality(B) <= n /\ (Cardinality(B) = Cardinality(1 .. n) => B = 1 .. n)
    BY <1>4, <1>5, FS_Subset
  <2>2. Cardinality(B) \in Nat
    BY <1>4, <1>5, FS_Subset, FS_CardinalityType
  <2>3. Cardinality(B) = n
    BY <1>1, <1>2, <2>1, <2>2
  <2> QED BY <1>5, <2>1, <2>3
<1>7. \A m \in 1 .. n : <<s, m>> \in bars
  BY <1>3, <1>6 DEF B, Status!BarsOf
<1> QED BY <1>7 DEF Status!Due, n

LEMMA VerdictsFollow == StatusInv => VerdictsHold
<1> SUFFICES ASSUME StatusInv, Status!Judging PROVE Status!AlarmIsTrue /\ Status!ComfortIsTrue
  BY DEF VerdictsHold, Status!VerdictsHold, Status!AlarmIsTrue, Status!ComfortIsTrue
<1>1. /\ clock \in Nat /\ fed \in Int /\ listed \subseteq Series /\ asked \subseteq Series
      /\ bars \subseteq Series \X Status!Minutes /\ counted \subseteq Series \X Status!Minutes
  BY DEF StatusInv, StatusTyped
<1>2. page \in {Status!ClockFirst, Status!Totals, Status!UsDashboard} /\ step > 1 =>
        at \in Nat /\ at <= clock
  BY DEF StatusInv, ClockKnown
<1>3. page = Status!ClockFirst => Status!OneQueryIsTrue(Status!TheClock, Status!TheSeries, Status!TheBars)
  <2> SUFFICES ASSUME page = Status!ClockFirst
               PROVE  Status!OneQueryIsTrue(Status!TheClock, Status!TheSeries, Status!TheBars)
    OBVIOUS
  <2>1. step = 2 /\ page[step] = "series" /\ page # <<>>
    BY DEF Status!Judging, Status!ClockFirst
  <2>2. Status!TheClock = at /\ Status!TheSeries = listed /\ Status!TheBars = bars
    BY <2>1 DEF Status!TheClock, Status!TheSeries, Status!TheBars, Status!Reading
  <2>3. at \in Nat /\ at <= clock
    BY <1>2, <2>1
  <2> QED BY <1>1, <2>2, <2>3, OneQuery
<1>4. page = Status!Totals => Status!TotalsAreTrue(Status!TheClock, Status!TheSeries, Status!TheBars)
  <2> SUFFICES ASSUME page = Status!Totals
               PROVE  Status!TotalsAreTrue(Status!TheClock, Status!TheSeries, Status!TheBars)
    OBVIOUS
  <2>1. step = 3 /\ page[step] = "bars" /\ page # <<>>
    BY DEF Status!Judging, Status!Totals
  <2>2. Status!TheClock = at /\ Status!TheSeries = asked /\ Status!TheBars = bars
    BY <2>1 DEF Status!TheClock, Status!TheSeries, Status!TheBars, Status!Reading
  <2>3. at \in Nat /\ at <= clock
    BY <1>2, <2>1
  <2> QED BY <1>1, <2>2, <2>3, TotalsOfReads
<1>5. page = Status!UsDashboard => Status!CoverageIsTrue(Status!TheClock, Status!TheSeries, Status!TheBars)
  <2> SUFFICES ASSUME page = Status!UsDashboard
               PROVE  Status!CoverageIsTrue(Status!TheClock, Status!TheSeries, Status!TheBars)
    OBVIOUS
  <2>1. step = 3 /\ page[step] = "coverage" /\ page # <<>>
    BY DEF Status!Judging, Status!UsDashboard
  <2>2. Status!TheClock = at /\ Status!TheSeries = asked /\ Status!TheBars = counted
    BY <2>1 DEF Status!TheClock, Status!TheSeries, Status!TheBars, Status!Reading
  <2>3. at \in Nat
    BY <1>2, <2>1
  <2> QED BY <1>1, <2>2, <2>3, CoverageOfReads
<1>6. Status!ComfortIsTrue
  <2> SUFFICES ASSUME page = Status!UsInstruments, NEW s \in asked,
                      Status!UsComplete(Status!TheClock, s, Status!TheBars)
               PROVE  ~Status!Due({s}, Status!Completed(Status!TheClock), bars)
    BY DEF Status!ComfortIsTrue
  <2>1. step = 3 /\ page[step] = "clock" /\ page # <<>>
    BY DEF Status!Judging, Status!UsInstruments
  <2>2. Status!TheClock = clock /\ Status!TheBars = seen
    BY <2>1 DEF Status!TheClock, Status!TheBars, Status!Reading
  <2>3. market = "US" /\ s \in Series
    BY <1>1 DEF StatusInv, PageTyped
  <2> QED BY <2>2, <2>3, CompleteIsTrue
<1> QED BY <1>3, <1>4, <1>5, <1>6 DEF Status!AlarmIsTrue

\* A page that reads its clock first never reports a lack that is none, and a series of the US
\* that is called complete has every bar that is due, whatever is written between two queries of
\* the page (api/india_observability.py, india_hub.py, hub.py, us.py).
THEOREM VerdictsAreTrue == ApiSpec => []VerdictsHold
<1>1. ApiInit => StatusInv
  BY StatusInitHolds DEF ApiInit
<1> QED BY <1>1, StatusStep, VerdictsFollow, PTL DEF ApiSpec

-----------------------------------------------------------------------------
(* The lists that are read page by page.                                    *)

LEMMA CardinalityOfWalks == ASSUME NEW S PROVE Walks!Cardinality(S) = Cardinality(S)
BY DEF Walks!Cardinality, Cardinality

LEMMA WalkConstants ==
  /\ Rows \subseteq Nat /\ IsFiniteSet(Rows)
  /\ Top \in Nat \ {0} /\ Limit \in Nat \ {0}
  /\ None \notin Nat \X Nat
<1>1. Walks!IsFiniteSet(Rows) <=> IsFiniteSet(Rows)
  BY DEF Walks!IsFiniteSet, IsFiniteSet
<1> QED BY <1>1, ApiAssumption DEF Walks!PagesAssumption

-----------------------------------------------------------------------------
(* The order of a list, and the place of a row in it. *)

LEMMA OrderOfPlaces ==
  /\ \A a \in Nat \X Nat : ~Walks!Precedes(a, a)
  /\ \A a, b, c \in Nat \X Nat : Walks!Precedes(a, b) /\ Walks!Precedes(b, c) => Walks!Precedes(a, c)
  /\ \A a, b \in Nat \X Nat : a # b => Walks!Precedes(a, b) \/ Walks!Precedes(b, a)
BY DEF Walks!Precedes

Keyed == key \in [Rows -> Nat]

LEMMA PlacesOfRows ==
  ASSUME Keyed
  PROVE  /\ \A r \in Rows : Walks!Place(r) \in Nat \X Nat
         /\ \A q, r \in Rows : Walks!Place(q) = Walks!Place(r) => q = r
BY WalkConstants DEF Keyed, Walks!Place

\* Rows of S before r, and how many they are.
Before(S, r) == {q \in S : Walks!Precedes(Walks!Place(q), Walks!Place(r))}
Rank(S, r)   == Cardinality(Before(S, r))

LEMMA Ranks ==
  ASSUME Keyed, NEW S, S \subseteq Rows
  PROVE  /\ IsFiniteSet(S) /\ Cardinality(S) \in Nat
         /\ \A r \in S : Rank(S, r) \in 0 .. Cardinality(S) - 1
         /\ \A q, r \in S : Walks!Precedes(Walks!Place(q), Walks!Place(r)) => Rank(S, q) < Rank(S, r)
         /\ \A q, r \in S : q # r => Rank(S, q) # Rank(S, r)
<1>1. IsFiniteSet(S) /\ Cardinality(S) \in Nat
  BY WalkConstants, FS_Subset, FS_CardinalityType
<1>2. ASSUME NEW r \in S
      PROVE  IsFiniteSet(Before(S, r)) /\ Rank(S, r) \in Nat /\ Rank(S, r) < Cardinality(S)
  <2>1. Before(S, r) \subseteq S /\ r \notin Before(S, r)
    BY PlacesOfRows, OrderOfPlaces DEF Before
  <2>2. IsFiniteSet(Before(S, r)) /\ Rank(S, r) \in Nat
    BY <1>1, <2>1, FS_Subset, FS_CardinalityType DEF Rank
  <2>3. Rank(S, r) <= Cardinality(S) /\ (Rank(S, r) = Cardinality(S) => S = Before(S, r))
    BY <1>1, <2>1, FS_Subset DEF Rank
  <2>4. Rank(S, r) # Cardinality(S)
    BY <2>1, <2>3
  <2> QED BY <1>1, <2>2, <2>3, <2>4
<1>3. ASSUME NEW q \in S, NEW r \in S, Walks!Precedes(Walks!Place(q), Walks!Place(r))
      PROVE  Rank(S, q) < Rank(S, r)
  <2>1. Before(S, q) \subseteq Before(S, r) /\ q \in Before(S, r) /\ q \notin Before(S, q)
    BY <1>3, PlacesOfRows, OrderOfPlaces DEF Before
  <2>2. Rank(S, q) <= Rank(S, r) /\ (Rank(S, r) = Rank(S, q) => Before(S, r) = Before(S, q))
    BY <1>2, <2>1, FS_Subset DEF Rank
  <2>3. Rank(S, q) # Rank(S, r)
    BY <2>1, <2>2
  <2> QED BY <1>2, <2>2, <2>3
<1>4. ASSUME NEW q \in S, NEW r \in S, q # r
      PROVE  Rank(S, q) # Rank(S, r)
  <2>1. Walks!Precedes(Walks!Place(q), Walks!Place(r)) \/ Walks!Precedes(Walks!Place(r), Walks!Place(q))
    BY <1>4, PlacesOfRows, OrderOfPlaces
  <2> QED BY <1>2, <1>3, <2>1
<1> QED BY <1>1, <1>2, <1>3, <1>4

\* Every place up to the number of rows is taken.
LEMMA EveryRankIsTaken ==
  ASSUME Keyed, NEW S, S \subseteq Rows, NEW k \in Nat, k < Cardinality(S)
  PROVE  \E r \in S : Rank(S, r) = k
<1> DEFINE n == Cardinality(S)
           f == [r \in S |-> Rank(S, r)]
<1>1. n \in Nat /\ \A r \in S : f[r] \in 0 .. n - 1
  BY Ranks
<1>2. \A q, r \in S : f[q] = f[r] => q = r
  BY Ranks
<1>3. f \in Injection(S, 0 .. n - 1)
  BY <1>1, <1>2 DEF Injection, IsInjective
<1> HIDE DEF f, n
<1>4. IsFiniteSet(0 .. n - 1) /\ Cardinality(0 .. n - 1) = n
  <2>1. 0 \in Int /\ n - 1 \in Int
    BY <1>1
  <2>2. Cardinality(0 .. n - 1) = IF 0 > n - 1 THEN 0 ELSE n - 1 - 0 + 1
    BY <2>1, FS_Interval
  <2>3. IsFiniteSet(0 .. n - 1)
    BY <2>1, FS_Interval
  <2> QED BY <1>1, <2>2, <2>3
<1>5. f \in Surjection(S, 0 .. n - 1)
  BY <1>3, <1>4, FS_Injection DEF n
<1>6. k \in 0 .. n - 1
  BY <1>1 DEF n
<1>7. PICK r \in S : f[r] = k
  BY <1>5, <1>6 DEF Surjection
<1> QED BY <1>7 DEF f

LEMMA FirstByRank ==
  ASSUME NEW S, NEW n
  PROVE  Walks!FirstOf(S, n) = {r \in S : Rank(S, r) < n}
BY CardinalityOfWalks DEF Walks!FirstOf, Rank, Before

\* A page that is not the last ends with a row that none of it follows.
LEMMA LastOfPage ==
  ASSUME Keyed, NEW S, S \subseteq Rows, Limit < Cardinality(S)
  PROVE  LET l == Walks!LastOf(Walks!FirstOf(S, Limit))
         IN  /\ l \in S
             /\ \A r \in S : r \in Walks!FirstOf(S, Limit)
                               <=> (r = l \/ Walks!Precedes(Walks!Place(r), Walks!Place(l)))
<1> DEFINE F == Walks!FirstOf(S, Limit)
           l == Walks!LastOf(F)
<1>1. F = {r \in S : Rank(S, r) < Limit}
  BY FirstByRank
<1>2. Limit \in Nat \ {0} /\ \A r \in S : Rank(S, r) \in Nat
  <2>1. \A r \in S : Rank(S, r) \in 0 .. Cardinality(S) - 1
    BY Ranks
  <2> QED BY <2>1, WalkConstants
<1>3. PICK z \in S : Rank(S, z) = Limit - 1
  BY <1>2, Ranks, EveryRankIsTaken
<1> HIDE DEF F
<1>4. z \in F /\ \A q \in F \ {z} : Walks!Precedes(Walks!Place(q), Walks!Place(z))
  <2>1. z \in F
    BY <1>1, <1>2, <1>3
  <2> SUFFICES ASSUME NEW q \in F, q # z, ~Walks!Precedes(Walks!Place(q), Walks!Place(z))
               PROVE  FALSE
    BY <2>1
  <2>2. Walks!Precedes(Walks!Place(z), Walks!Place(q))
    BY <1>1, PlacesOfRows, OrderOfPlaces
  <2>3. Rank(S, z) < Rank(S, q)
    BY <1>1, <2>2, Ranks
  <2> QED BY <1>1, <1>2, <1>3, <2>3
<1>5. l \in F /\ \A q \in F \ {l} : Walks!Precedes(Walks!Place(q), Walks!Place(l))
  BY <1>4 DEF Walks!LastOf
<1> HIDE DEF l
<1>6. l \in S
  BY <1>1, <1>5
<1>7. ASSUME NEW r \in S
      PROVE  r \in F <=> (r = l \/ Walks!Precedes(Walks!Place(r), Walks!Place(l)))
  <2>1. Walks!Precedes(Walks!Place(r), Walks!Place(l)) => r \in F
    BY <1>1, <1>2, <1>5, <1>6, Ranks
  <2> QED BY <1>5, <2>1
<1> QED BY <1>6, <1>7 DEF F, l

LEMMA ShortPage ==
  ASSUME Keyed, NEW S, S \subseteq Rows, Cardinality(S) <= Limit
  PROVE  Walks!FirstOf(S, Limit) = S
<1>1. \A r \in S : Rank(S, r) \in 0 .. Cardinality(S) - 1
  BY Ranks
<1>2. Limit \in Nat /\ Cardinality(S) \in Nat
  BY Ranks, WalkConstants
<1>3. \A r \in S : Rank(S, r) < Limit
  BY <1>1, <1>2
<1> QED BY <1>3, FirstByRank

Listing == {r \in Rows : Walks!Listed(r)}

\* A page by offset is a stretch of ranks.
LEMMA StretchOfPage ==
  ASSUME Keyed, NEW offset \in Nat
  PROVE  Walks!PageAt(offset) = {r \in Listing : offset <= Rank(Listing, r) /\ Rank(Listing, r) < offset + Limit}
<1>1. \A r \in Listing : Rank(Listing, r) \in 0 .. Cardinality(Listing) - 1
  BY Ranks DEF Listing
<1>2. Walks!PageAt(offset) = Walks!FirstOf(Listing, offset + Limit) \ Walks!FirstOf(Listing, offset)
  BY DEF Walks!PageAt, Listing
<1>3. \A r \in Listing : Rank(Listing, r) \in Nat
  BY <1>1
<1>4. Walks!PageAt(offset) = {r \in Listing : Rank(Listing, r) < offset + Limit} \ {r \in Listing : Rank(Listing, r) < offset}
  BY <1>2, FirstByRank
<1>5. \A r \in Listing : offset <= Rank(Listing, r) <=> ~(Rank(Listing, r) < offset)
  BY <1>3
<1> QED BY <1>4, <1>5

LEMMA SizeOfStretch ==
  ASSUME NEW a \in Nat, NEW b \in Int, NEW n \in Nat, b = a + n - 1
  PROVE  IsFiniteSet(a .. b) /\ Cardinality(a .. b) = n
<1>1. Cardinality(a .. b) = IF a > b THEN 0 ELSE b - a + 1
  BY FS_Interval
<1>2. IsFiniteSet(a .. b)
  BY FS_Interval
<1> QED BY <1>1, <1>2

\* A page that more rows follow is full.
LEMMA FullPage ==
  ASSUME Keyed, NEW offset \in Nat, NEW z \in Listing, Rank(Listing, z) >= offset + Limit
  PROVE  Cardinality(Walks!PageAt(offset)) = Limit
<1>0. PICK b \in Int : b = offset + Limit - 1
  BY WalkConstants
<1> DEFINE P == Walks!PageAt(offset)
           T == offset .. b
           f == [r \in P |-> Rank(Listing, r)]
<1>1. Limit \in Nat \ {0} /\ Cardinality(Listing) \in Nat /\ Listing \subseteq Rows
  BY Ranks, WalkConstants DEF Listing
<1>2. \A r \in Listing : Rank(Listing, r) \in 0 .. Cardinality(Listing) - 1
  BY <1>1, Ranks
<1>3. P = {r \in Listing : offset <= Rank(Listing, r) /\ Rank(Listing, r) < offset + Limit}
  BY StretchOfPage
<1> HIDE DEF P
<1>4. \A r \in P : f[r] \in T
  BY <1>0, <1>1, <1>2, <1>3
<1>5. \A q, r \in P : f[q] = f[r] => q = r
  BY <1>1, <1>3, Ranks
<1>6. \A k \in T : \E r \in P : f[r] = k
  <2> SUFFICES ASSUME NEW k \in T PROVE \E r \in P : f[r] = k
    OBVIOUS
  <2>1. k \in Nat /\ offset <= k /\ k < offset + Limit
    BY <1>0, <1>1
  <2>2. k < Cardinality(Listing)
    BY <1>1, <1>2, <2>1
  <2>3. PICK r \in Listing : Rank(Listing, r) = k
    BY <1>1, <2>1, <2>2, EveryRankIsTaken
  <2>4. r \in P
    BY <1>3, <2>1, <2>3
  <2> QED BY <2>3, <2>4
<1>7. f \in Injection(P, T) /\ f \in Surjection(P, T)
  BY <1>4, <1>5, <1>6 DEF Injection, Surjection, IsInjective
<1> HIDE DEF f
<1>9. IsFiniteSet(T) /\ Cardinality(T) = Limit
  BY <1>0, <1>1, SizeOfStretch, ZenonT(40)
<1> HIDE DEF T
<1>10. Cardinality(P) = Cardinality(T)
  BY <1>7, <1>9, FS_Injection
<1> QED BY <1>9, <1>10 DEF P

-----------------------------------------------------------------------------
(* The invariant of a walk: which rows have been answered, by where the client is. *)

WalkTyped ==
  /\ key \in [Rows -> 0 .. Top]
  /\ cursor \in (Nat \X Nat) \cup {None}
  /\ times \in [Rows -> 0 .. 2]
  /\ moved \subseteq Rows
  /\ day \in {0, 1}
  /\ walk \in {"reading", "done", "refused"}

Passed(r) == cursor # None /\ ~Walks!Precedes(cursor, Walks!Place(r))

CursorSound ==
  list.by = "cursor" /\ (list.dates = "today" => day = 0) =>
    \A r \in Rows \ moved :
      /\ walk = "reading" => times[r] = IF Walks!Listed(r) /\ Passed(r) THEN 1 ELSE 0
      /\ walk = "done" => times[r] = IF Walks!Listed(r) THEN 1 ELSE 0

Offset == IF cursor = None THEN 0 ELSE cursor[1]

Standing == [r \in Rows |-> Rank(Listing, r)]

OldShown == \A r \in Rows \ moved : r \in Listing /\ Standing[r] < Offset => times[r] >= 1

OnceShown == \A r \in Rows : times[r] = IF r \in Listing /\ Standing[r] < Offset THEN 1 ELSE 0

OffsetSound ==
  list.by = "offset" =>
    /\ walk = "reading" => (list.grows => OldShown) /\ (moved = {} => OnceShown)
    /\ walk = "done" => Walks!OffsetWalksComplete

WalkInv == WalkTyped /\ CursorSound /\ OffsetSound

LEMMA TypedIsKeyed == WalkTyped => Keyed
BY WalkConstants DEF WalkTyped, Keyed

LEMMA Standings ==
  ASSUME Keyed
  PROVE  \A r \in Listing : r \in Rows /\ Standing[r] \in Nat /\ Standing[r] = Rank(Listing, r)
<1>1. \A r \in Listing : Rank(Listing, r) \in 0 .. Cardinality(Listing) - 1
  BY Ranks DEF Listing
<1>2. \A r \in Listing : r \in Rows
  BY DEF Listing
<1> QED BY <1>1, <1>2 DEF Standing

LEMMA WalkInitHolds == Walks!Init => WalkInv
<1> SUFFICES ASSUME Walks!Init PROVE WalkInv
  OBVIOUS
<1>1. WalkTyped
  BY DEF Walks!Init, WalkTyped
<1>2. CursorSound
  BY DEF Walks!Init, CursorSound, Passed
<1>3. OffsetSound
  <2>1. Offset = 0 /\ walk = "reading"
    BY DEF Walks!Init, Offset
  <2>2. \A r \in Listing : ~(Standing[r] < 0)
    BY <1>1, TypedIsKeyed, Standings
  <2>3. OldShown /\ OnceShown
    BY <2>1, <2>2 DEF OldShown, OnceShown, Walks!Init
  <2> QED BY <2>1, <2>3 DEF OffsetSound
<1> QED BY <1>1, <1>2, <1>3 DEF WalkInv

LEMMA AnsweredOnce ==
  ASSUME WalkTyped, NEW S, Walks!Answered(S)
  PROVE  /\ times' \in [Rows -> 0 .. 2]
         /\ \A r \in Rows : /\ r \notin S => times'[r] = times[r]
                            /\ r \in S => times'[r] >= 1
                            /\ (r \in S /\ times[r] = 0) => times'[r] = 1
BY DEF WalkTyped, Walks!Answered

LEMMA CursorPageHolds == WalkInv /\ Walks!CursorPage => WalkInv'
<1> SUFFICES ASSUME WalkInv, Walks!CursorPage PROVE WalkInv'
  OBVIOUS
<1>1. walk = "reading" /\ list.by = "cursor" /\ UNCHANGED <<list, key, moved, day>>
  BY DEF Walks!CursorPage
<1>2. WalkTyped /\ Keyed
  BY TypedIsKeyed DEF WalkInv
<1>3. OffsetSound'
  BY <1>1 DEF OffsetSound
<1>4. CASE cursor # None /\ ~Walks!SameScope
  <2>1. walk' = "refused" /\ UNCHANGED <<cursor, times>>
    BY <1>4 DEF Walks!CursorPage
  <2>2. WalkTyped' /\ CursorSound'
    BY <1>1, <1>2, <2>1 DEF WalkTyped, CursorSound
  <2> QED BY <1>3, <2>2 DEF WalkInv
<1>5. CASE ~(cursor # None /\ ~Walks!SameScope)
  <2> DEFINE S == Walks!Beyond(cursor)
             F == Walks!FirstOf(S, Limit)
             c == Walks!NextCursor(S)
             l == Walks!LastOf(F)
  <2>1. Walks!Answered(F) /\ cursor' = c /\ walk' = IF c = None THEN "done" ELSE "reading"
    BY <1>5 DEF Walks!CursorPage
  <2>2. S \subseteq Rows /\ F \subseteq S
    BY DEF Walks!Beyond, Walks!After, Walks!FirstOf
  <2>3. Cardinality(S) \in Nat /\ Limit \in Nat
    BY <1>2, <2>2, Ranks, WalkConstants
  <2>4. c = IF Cardinality(S) > Limit THEN Walks!Place(l) ELSE None
    BY CardinalityOfWalks DEF Walks!NextCursor
  <2> HIDE DEF F, l, c
  <2>7. /\ times' \in [Rows -> 0 .. 2]
        /\ \A r \in Rows : /\ r \notin F => times'[r] = times[r]
                           /\ r \in F => times'[r] >= 1
                           /\ (r \in F /\ times[r] = 0) => times'[r] = 1
    BY <1>2, <2>1, AnsweredOnce
  <2>5. CASE Cardinality(S) > Limit
    <3>1. l \in S /\ \A r \in S : r \in F
                               <=> (r = l \/ Walks!Precedes(Walks!Place(r), Walks!Place(l)))
      BY <1>2, <2>2, <2>3, <2>5, LastOfPage DEF F, l
    <3>2. c = Walks!Place(l) /\ c \in Nat \X Nat /\ c # None
      BY <1>2, <2>2, <2>4, <2>5, <3>1, PlacesOfRows, WalkConstants
    <3>3. WalkTyped'
      BY <1>1, <1>2, <2>1, <2>7, <3>2 DEF WalkTyped
    <3>4. CursorSound'
      <4> SUFFICES ASSUME list.dates = "today" => day = 0, NEW r \in Rows \ moved
                   PROVE  times'[r] = IF Walks!Listed(r)' /\ Passed(r)' THEN 1 ELSE 0
        BY <1>1, <2>1, <3>2 DEF CursorSound
      <4>1. S = Walks!After(cursor)
        BY DEF Walks!Beyond
      <4>2. Walks!Listed(r)' <=> Walks!Listed(r)
        BY <1>1 DEF Walks!Listed
      <4>3. Passed(r)' <=> ~Walks!Precedes(Walks!Place(l), Walks!Place(r))
        BY <1>1, <2>1, <3>2 DEF Passed, Walks!Place, Walks!Precedes
      <4>4. times[r] = IF Walks!Listed(r) /\ Passed(r) THEN 1 ELSE 0
        BY <1>1 DEF WalkInv, CursorSound
      <4>5. Walks!Place(r) \in Nat \X Nat /\ Walks!Place(l) \in Nat \X Nat
        BY <1>2, <2>2, <3>1, PlacesOfRows
      <4>6. CASE r \in F
        <5>1. r \in S /\ (r = l \/ Walks!Precedes(Walks!Place(r), Walks!Place(l)))
          BY <2>2, <3>1, <4>6
        <5>2. ~Walks!Precedes(Walks!Place(l), Walks!Place(r))
          BY <4>5, <5>1, OrderOfPlaces
        <5>3. Walks!Listed(r) /\ ~Passed(r)
          BY <4>1, <5>1 DEF Walks!After, Passed
        <5> QED BY <2>7, <4>2, <4>3, <4>4, <4>6, <5>2, <5>3
      <4>7. CASE r \notin F /\ r \in S
        <5>1. r # l /\ ~Walks!Precedes(Walks!Place(r), Walks!Place(l))
          BY <3>1, <4>7
        <5>2. Walks!Place(r) # Walks!Place(l)
          BY <1>2, <2>2, <3>1, <5>1, PlacesOfRows
        <5>3. Walks!Precedes(Walks!Place(l), Walks!Place(r))
          BY <4>5, <5>1, <5>2, OrderOfPlaces
        <5>4. Walks!Listed(r) /\ ~Passed(r)
          BY <4>1, <4>7 DEF Walks!After, Passed
        <5> QED BY <2>7, <4>2, <4>3, <4>4, <4>7, <5>3, <5>4
      <4>8. CASE r \notin S
        <5>1. r \notin F
          BY <2>2, <4>8
        <5>2. times'[r] = times[r]
          BY <2>7, <5>1
        <5>3. CASE ~Walks!Listed(r)
          BY <4>2, <4>4, <5>2, <5>3
        <5>4. CASE Walks!Listed(r)
          <6>1. Passed(r)
            BY <4>1, <4>8, <5>4 DEF Walks!After, Passed
          <6>2. cursor \in Nat \X Nat /\ Walks!Precedes(cursor, Walks!Place(l))
            BY <1>2, <3>1, <4>1, <6>1 DEF WalkTyped, Passed, Walks!After
          <6>3. ~Walks!Precedes(Walks!Place(l), Walks!Place(r))
            BY <4>5, <6>1, <6>2, OrderOfPlaces DEF Passed
          <6> QED BY <4>2, <4>3, <4>4, <5>2, <5>4, <6>1, <6>3
        <5> QED BY <5>3, <5>4
      <4> QED BY <4>6, <4>7, <4>8
    <3> QED BY <1>3, <3>3, <3>4 DEF WalkInv
  <2>6. CASE ~(Cardinality(S) > Limit)
    <3>1. F = S
      BY <1>2, <2>2, <2>3, <2>6, ShortPage DEF F
    <3>2. c = None /\ walk' = "done"
      BY <2>1, <2>4, <2>6
    <3>3. WalkTyped'
      BY <1>1, <1>2, <2>1, <2>7, <3>2 DEF WalkTyped
    <3>4. CursorSound'
      <4> SUFFICES ASSUME list.dates = "today" => day = 0, NEW r \in Rows \ moved
                   PROVE  times'[r] = IF Walks!Listed(r)' THEN 1 ELSE 0
        BY <1>1, <3>2 DEF CursorSound
      <4>1. S = Walks!After(cursor)
        BY DEF Walks!Beyond
      <4>2. Walks!Listed(r)' <=> Walks!Listed(r)
        BY <1>1 DEF Walks!Listed
      <4>3. times[r] = IF Walks!Listed(r) /\ Passed(r) THEN 1 ELSE 0
        BY <1>1 DEF WalkInv, CursorSound
      <4>4. r \in S <=> (Walks!Listed(r) /\ ~Passed(r))
        BY <4>1 DEF Walks!After, Passed
      <4> QED BY <2>7, <3>1, <4>2, <4>3, <4>4
    <3> QED BY <1>3, <3>3, <3>4 DEF WalkInv
  <2> QED BY <2>5, <2>6
<1> QED BY <1>4, <1>5

LEMMA OffsetPageHolds == WalkInv /\ Walks!OffsetPage => WalkInv'
<1> SUFFICES ASSUME WalkInv, Walks!OffsetPage PROVE WalkInv'
  OBVIOUS
<1>1. walk = "reading" /\ list.by = "offset" /\ UNCHANGED <<list, key, moved, day>>
  BY DEF Walks!OffsetPage
<1>2. WalkTyped /\ Keyed
  BY TypedIsKeyed DEF WalkInv
<1>3. CursorSound'
  BY <1>1 DEF CursorSound
<1>4. Offset \in Nat
  BY <1>2 DEF WalkTyped, Offset
<1>5. (list.grows => OldShown) /\ (moved = {} => OnceShown)
  BY <1>1 DEF WalkInv, OffsetSound
<1>6. Listing' = Listing /\ Standing' = Standing
  BY <1>1 DEF Listing, Standing, Rank, Before, Walks!Listed, Walks!Place
<1> DEFINE P == Walks!PageAt(Offset)
<1>7. /\ Walks!Answered(P)
      /\ IF Cardinality(P) = Limit
         THEN cursor' = <<Offset + Limit, 0>> /\ UNCHANGED walk
         ELSE walk' = "done" /\ UNCHANGED cursor
  BY CardinalityOfWalks DEF Walks!OffsetPage, Offset
<1> HIDE DEF P
<1>8. /\ times' \in [Rows -> 0 .. 2]
      /\ \A r \in Rows : /\ r \notin P => times'[r] = times[r]
                         /\ r \in P => times'[r] >= 1
                         /\ (r \in P /\ times[r] = 0) => times'[r] = 1
  BY <1>2, <1>7, AnsweredOnce
<1>9. P = {r \in Listing : Offset <= Standing[r] /\ Standing[r] < Offset + Limit}
  <2>1. P = {r \in Listing : Offset <= Rank(Listing, r) /\ Rank(Listing, r) < Offset + Limit}
    BY <1>2, <1>4, StretchOfPage DEF P
  <2> QED BY <1>2, <2>1, Standings
<1>10. Limit \in Nat \ {0} /\ \A r \in Listing : r \in Rows /\ Standing[r] \in Nat
  BY <1>2, WalkConstants, Standings
<1>11. \A r \in Rows : times[r] \in 0 .. 2
  BY <1>2 DEF WalkTyped
<1>12. CASE Cardinality(P) = Limit
  <2>1. cursor' = <<Offset + Limit, 0>> /\ walk' = "reading"
    BY <1>1, <1>7, <1>12
  <2>2. cursor' \in Nat \X Nat /\ Offset' = Offset + Limit
    <3>1. cursor' \in Nat \X Nat
      BY <1>4, <1>10, <2>1
    <3>2. cursor' # None
      BY <3>1, WalkConstants
    <3> QED BY <2>1, <3>1, <3>2 DEF Offset
  <2>3. WalkTyped'
    BY <1>1, <1>2, <1>8, <2>1, <2>2 DEF WalkTyped
  <2>4. OldShown => OldShown'
    <3> SUFFICES ASSUME OldShown, NEW r \in Rows \ moved, r \in Listing, Standing[r] < Offset + Limit
                 PROVE  times'[r] >= 1
      BY <1>1, <1>6, <2>2 DEF OldShown
    <3>1. CASE r \in P
      BY <1>8, <3>1
    <3>2. CASE r \notin P
      <4>1. Standing[r] < Offset
        BY <1>4, <1>9, <1>10, <3>2
      <4>2. times[r] >= 1
        BY <4>1 DEF OldShown
      <4> QED BY <1>8, <3>2, <4>2
    <3> QED BY <3>1, <3>2
  <2>5. OnceShown => OnceShown'
    <3> SUFFICES ASSUME OnceShown, NEW r \in Rows
                 PROVE  times'[r] = IF r \in Listing /\ Standing[r] < Offset + Limit THEN 1 ELSE 0
      BY <1>6, <2>2 DEF OnceShown
    <3>1. times[r] = IF r \in Listing /\ Standing[r] < Offset THEN 1 ELSE 0
      BY DEF OnceShown
    <3>2. CASE r \in P
      <4>1. r \in Listing /\ Standing[r] < Offset + Limit /\ ~(Standing[r] < Offset)
        BY <1>4, <1>9, <1>10, <3>2
      <4> QED BY <1>8, <3>1, <3>2, <4>1
    <3>3. CASE r \notin P
      <4>1. (r \in Listing /\ Standing[r] < Offset + Limit) <=> (r \in Listing /\ Standing[r] < Offset)
        BY <1>4, <1>9, <1>10, <3>3
      <4> QED BY <1>8, <3>1, <3>3, <4>1
    <3> QED BY <3>2, <3>3
  <2>6. OffsetSound'
    BY <1>1, <1>5, <2>1, <2>4, <2>5 DEF OffsetSound
  <2> QED BY <1>3, <2>3, <2>6 DEF WalkInv
<1>13. CASE Cardinality(P) # Limit
  <2>1. walk' = "done" /\ UNCHANGED cursor
    BY <1>7, <1>13
  <2>2. WalkTyped'
    BY <1>1, <1>2, <1>8, <2>1 DEF WalkTyped
  <2>3. \A r \in Listing : Standing[r] < Offset + Limit
    <3> SUFFICES ASSUME NEW r \in Listing, ~(Standing[r] < Offset + Limit) PROVE FALSE
      OBVIOUS
    <3>1. Rank(Listing, r) >= Offset + Limit
      BY <1>2, <1>4, <1>10, Standings
    <3>2. Cardinality(P) = Limit
      BY <1>2, <1>4, <3>1, FullPage DEF P
    <3> QED BY <1>13, <3>2
  <2>4. OldShown => \A r \in Rows \ moved : r \in Listing => times'[r] >= 1
    <3> SUFFICES ASSUME OldShown, NEW r \in Rows \ moved, r \in Listing PROVE times'[r] >= 1
      OBVIOUS
    <3>1. CASE r \in P
      BY <1>8, <3>1
    <3>2. CASE r \notin P
      <4>1. Standing[r] < Offset
        BY <1>4, <1>9, <1>10, <2>3, <3>2
      <4>2. times[r] >= 1
        BY <4>1 DEF OldShown
      <4> QED BY <1>8, <3>2, <4>2
    <3> QED BY <3>1, <3>2
  <2>5. OnceShown => \A r \in Rows : times'[r] = IF r \in Listing THEN 1 ELSE 0
    <3> SUFFICES ASSUME OnceShown, NEW r \in Rows
                 PROVE  times'[r] = IF r \in Listing THEN 1 ELSE 0
      OBVIOUS
    <3>1. times[r] = IF r \in Listing /\ Standing[r] < Offset THEN 1 ELSE 0
      BY DEF OnceShown
    <3>2. CASE r \in P
      <4>1. r \in Listing /\ ~(Standing[r] < Offset)
        BY <1>4, <1>9, <1>10, <3>2
      <4> QED BY <1>8, <3>1, <3>2, <4>1
    <3>3. CASE r \notin P
      <4>1. r \in Listing => Standing[r] < Offset
        BY <1>4, <1>9, <1>10, <2>3, <3>3
      <4> QED BY <1>8, <3>1, <3>3, <4>1
    <3> QED BY <3>2, <3>3
  <2>6. \A r \in Rows : r \in Listing <=> Walks!Listed(r)'
    BY <1>1 DEF Listing, Walks!Listed
  <2>7. Walks!OffsetWalksComplete'
    BY <1>1, <1>5, <2>4, <2>5, <2>6 DEF Walks!OffsetWalksComplete
  <2>8. OffsetSound'
    BY <2>1, <2>7 DEF OffsetSound
  <2> QED BY <1>3, <2>2, <2>8 DEF WalkInv
<1> QED BY <1>12, <1>13

LEMMA ReadAnewHolds == WalkInv /\ Walks!ReadAnew => WalkInv'
<1> SUFFICES ASSUME WalkInv, Walks!ReadAnew PROVE WalkInv'
  OBVIOUS
<1>1. /\ walk' = "reading" /\ cursor' = None /\ times' = [r \in Rows |-> 0]
      /\ moved' = {} /\ day' = 0 /\ UNCHANGED <<list, key>>
  BY DEF Walks!ReadAnew
<1>2. WalkTyped'
  BY <1>1 DEF WalkInv, WalkTyped
<1>3. CursorSound'
  BY <1>1 DEF CursorSound, Passed
<1>4. Listing' = Listing /\ Standing' = Standing
  BY <1>1 DEF Listing, Standing, Rank, Before, Walks!Listed, Walks!Place
<1>5. Offset' = 0
  BY <1>1 DEF Offset
<1>6. \A r \in Listing : ~(Standing[r] < 0)
  BY TypedIsKeyed, Standings DEF WalkInv
<1>7. \A r \in Rows : times'[r] = 0
  BY <1>1
<1>8. OldShown' /\ OnceShown'
  BY <1>4, <1>5, <1>6, <1>7 DEF OldShown, OnceShown
<1>9. OffsetSound'
  BY <1>1, <1>8 DEF OffsetSound
<1> QED BY <1>2, <1>3, <1>9 DEF WalkInv

LEMMA DayPassesHolds == WalkInv /\ Walks!Walking /\ Walks!DayPasses => WalkInv'
<1> SUFFICES ASSUME WalkInv, Walks!Walking, Walks!DayPasses PROVE WalkInv'
  OBVIOUS
<1>1. day' = 1 /\ UNCHANGED <<list, key, walk, cursor, times, moved>> /\ walk = "reading"
  BY DEF Walks!DayPasses, Walks!Walking
<1>2. day = 0
  BY DEF Walks!DayPasses
<1>3. WalkTyped'
  BY <1>1 DEF WalkInv, WalkTyped
<1>4. CursorSound'
  BY <1>1, <1>2 DEF WalkInv, CursorSound, Passed, Walks!Listed, Walks!Place
<1>5. Listing' = Listing /\ Standing' = Standing /\ Offset' = Offset
  BY <1>1 DEF Listing, Standing, Rank, Before, Walks!Listed, Walks!Place, Offset
<1>6. OffsetSound'
  BY <1>1, <1>5 DEF WalkInv, OffsetSound, OldShown, OnceShown
<1> QED BY <1>3, <1>4, <1>6 DEF WalkInv

\* A row that changes is in moved, and no other changes its key.
LEMMA RekeyedSound ==
  ASSUME WalkInv, Walks!Walking, NEW r \in Rows, NEW k \in 0 .. Top, Walks!Rekey(r, k)
  PROVE  WalkTyped' /\ CursorSound' /\ moved' # {}
<1>1. /\ key' = [key EXCEPT ![r] = k] /\ moved' = moved \cup {r}
      /\ UNCHANGED <<list, walk, cursor, times, day>>
  BY DEF Walks!Rekey
<1>2. WalkTyped /\ walk = "reading"
  BY DEF WalkInv, Walks!Walking
<1>3. WalkTyped'
  BY <1>1, <1>2 DEF WalkTyped
<1>4. \A q \in Rows \ moved' : q \in Rows \ moved /\ key'[q] = key[q]
  BY <1>1, <1>2 DEF WalkTyped
<1>5. CursorSound'
  <2> SUFFICES ASSUME list.by = "cursor", list.dates = "today" => day = 0, NEW q \in Rows \ moved'
               PROVE  times[q] = IF key'[q] > 0 /\ cursor # None /\ ~Walks!Precedes(cursor, <<key'[q], q>>)
                                 THEN 1 ELSE 0
    BY <1>1, <1>2 DEF CursorSound, Passed, Walks!Listed, Walks!Place, Walks!Precedes
  <2>1. times[q] = IF Walks!Listed(q) /\ Passed(q) THEN 1 ELSE 0
    BY <1>2, <1>4 DEF WalkInv, CursorSound
  <2> QED BY <1>4, <2>1 DEF Passed, Walks!Listed, Walks!Place
<1> QED BY <1>1, <1>3, <1>5

LEMMA RowAddedHolds == ASSUME NEW r \in Rows PROVE WalkInv /\ Walks!Walking /\ Walks!RowAdded(r) => WalkInv'
<1> SUFFICES ASSUME WalkInv, Walks!Walking, Walks!RowAdded(r) PROVE WalkInv'
  OBVIOUS
<1>1. PICK k \in 1 .. Top :
        /\ list.grows => \A q \in Rows : Walks!Listed(q) => Walks!Precedes(<<k, r>>, Walks!Place(q))
        /\ Walks!Rekey(r, k)
  BY DEF Walks!RowAdded
<1>2. k \in 0 .. Top /\ Top \in Nat
  BY WalkConstants
<1>3. WalkTyped' /\ CursorSound' /\ moved' # {}
  BY <1>1, <1>2, RekeyedSound
<1>4. /\ key' = [key EXCEPT ![r] = k] /\ moved' = moved \cup {r}
      /\ UNCHANGED <<list, walk, cursor, times, day>> /\ walk = "reading" /\ ~Walks!Listed(r)
  BY <1>1 DEF Walks!Rekey, Walks!Walking, Walks!RowAdded
<1>5. WalkTyped /\ Keyed
  BY TypedIsKeyed DEF WalkInv
<1>6. \A q \in Rows : q # r => key'[q] = key[q]
  BY <1>4, <1>5 DEF WalkTyped
<1>7. \A q \in Rows \ moved' : q \in Listing' <=> q \in Listing
  BY <1>4, <1>6 DEF Listing, Walks!Listed
<1>8. ASSUME NEW q \in Rows \ moved', q \in Listing
      PROVE  Standing[q] <= Standing'[q] /\ Standing'[q] \in Nat /\ Standing[q] \in Nat
  <2> DEFINE A == Before(Listing, q)
             B == {x \in Listing' : Walks!Precedes(<<key'[x], x>>, <<key'[q], q>>)}
  <2>1. q # r
    BY <1>4
  <2>2. A \subseteq B
    <3> SUFFICES ASSUME NEW x \in A PROVE x \in B
      OBVIOUS
    <3>1. x \in Listing /\ x # r
      BY <1>4 DEF Before, Listing
    <3>2. key'[x] = key[x] /\ key'[q] = key[q]
      BY <1>6, <2>1, <3>1 DEF Listing
    <3>3. x \in Listing'
      BY <3>1, <3>2 DEF Listing, Walks!Listed
    <3>4. Walks!Precedes(<<key[x], x>>, <<key[q], q>>)
      BY DEF Before, Walks!Place
    <3> QED BY <3>2, <3>3, <3>4
  <2>3. IsFiniteSet(B)
    <3>1. B \subseteq Rows
      BY DEF Listing
    <3> QED BY <3>1, WalkConstants, FS_Subset
  <2>4. Standing[q] = Cardinality(A)
    BY DEF Standing, Rank
  <2>5. Standing'[q] = Cardinality(B)
    BY DEF Standing, Rank, Before, Walks!Place, Walks!Precedes
  <2> HIDE DEF A, B
  <2>6. IsFiniteSet(A) /\ Cardinality(A) <= Cardinality(B)
    BY <2>2, <2>3, FS_Subset
  <2>7. Cardinality(A) \in Nat /\ Cardinality(B) \in Nat
    BY <2>3, <2>6, FS_CardinalityType
  <2> QED BY <2>4, <2>5, <2>6, <2>7
<1>9. Offset' = Offset /\ Offset \in Nat
  BY <1>4, <1>5 DEF Offset, WalkTyped
<1>10. list.by = "offset" /\ list.grows => OldShown'
  <2> SUFFICES ASSUME list.by = "offset", list.grows,
                      NEW q \in Rows \ moved', q \in Listing', Standing'[q] < Offset
               PROVE  times[q] >= 1
    BY <1>4, <1>9 DEF OldShown
  <2>1. q \in Rows \ moved /\ q \in Listing
    BY <1>4, <1>7
  <2>2. Standing[q] < Offset
    BY <1>8, <1>9, <2>1
  <2>3. OldShown
    BY <1>4 DEF WalkInv, OffsetSound
  <2> QED BY <2>1, <2>2, <2>3 DEF OldShown
<1>11. OffsetSound'
  BY <1>3, <1>4, <1>10 DEF OffsetSound
<1> QED BY <1>3, <1>11 DEF WalkInv

\* A list that only grows has no such step.
LEMMA RowChangesHold ==
  ASSUME NEW r \in Rows
  PROVE  WalkInv /\ Walks!Walking /\ (Walks!RowMoved(r) \/ Walks!RowLeaves(r)) => WalkInv'
<1> SUFFICES ASSUME WalkInv, Walks!Walking, Walks!RowMoved(r) \/ Walks!RowLeaves(r) PROVE WalkInv'
  OBVIOUS
<1>1. ~list.grows
  BY DEF Walks!RowMoved, Walks!RowLeaves
<1>2. Top \in Nat
  BY WalkConstants
<1>3. PICK k \in 0 .. Top : Walks!Rekey(r, k)
  <2>1. CASE Walks!RowMoved(r)
    BY <1>2, <2>1 DEF Walks!RowMoved
  <2>2. CASE Walks!RowLeaves(r)
    BY <1>2, <2>2 DEF Walks!RowLeaves
  <2> QED BY <2>1, <2>2
<1>4. WalkTyped' /\ CursorSound' /\ moved' # {}
  BY <1>3, RekeyedSound
<1>5. UNCHANGED <<list, walk>> /\ walk = "reading"
  BY <1>3 DEF Walks!Rekey, Walks!Walking
<1>6. OffsetSound'
  BY <1>1, <1>4, <1>5 DEF OffsetSound
<1> QED BY <1>4, <1>6 DEF WalkInv

LEMMA WalkRests == WalkInv /\ UNCHANGED walkVars => WalkInv'
<1> SUFFICES ASSUME WalkInv, UNCHANGED walkVars PROVE WalkInv'
  OBVIOUS
<1>1. UNCHANGED <<list, key, walk, cursor, times, moved, day>>
  BY DEF walkVars
<1>2. WalkTyped' /\ CursorSound'
  BY <1>1 DEF WalkInv, WalkTyped, CursorSound, Passed, Walks!Listed, Walks!Place
<1>3. Listing' = Listing /\ Standing' = Standing /\ Offset' = Offset
  BY <1>1 DEF Listing, Standing, Rank, Before, Walks!Listed, Walks!Place, Offset
<1>4. Walks!OffsetWalksComplete' <=> Walks!OffsetWalksComplete
  BY <1>1 DEF Walks!OffsetWalksComplete, Walks!Listed
<1>5. OffsetSound'
  BY <1>1, <1>3, <1>4 DEF WalkInv, OffsetSound, OldShown, OnceShown
<1> QED BY <1>2, <1>5 DEF WalkInv

LEMMA WalkStep == WalkInv /\ [ApiNext]_apiVars => WalkInv'
<1> SUFFICES ASSUME WalkInv, [ApiNext]_apiVars PROVE WalkInv'
  OBVIOUS
<1>1. CASE Walks!Next
  BY <1>1, CursorPageHolds, OffsetPageHolds, ReadAnewHolds, DayPassesHolds, RowAddedHolds, RowChangesHold
     DEF Walks!Next
<1>2. CASE UNCHANGED walkVars
  BY <1>2, WalkRests
<1>3. Walks!Next \/ UNCHANGED walkVars
  BY DEF ApiNext, Catalog, Walk, Judge, apiVars
<1> QED BY <1>1, <1>2, <1>3

LEMMA WalksFollow == WalkInv => WalksComplete
<1> SUFFICES ASSUME WalkInv PROVE WalksComplete
  OBVIOUS
<1>1. Walks!CursorWalksComplete
  BY DEF WalkInv, CursorSound, Walks!CursorWalksComplete
<1>2. Walks!OffsetWalksComplete
  BY DEF WalkInv, OffsetSound, Walks!OffsetWalksComplete
<1> QED BY <1>1, <1>2 DEF WalksComplete, Walks!WalksComplete

\* Whatever is written to a list while it is read, and for pages of any size: a cursor answers
\* each row that stays as it is exactly once, and an offset misses no old row of a list of runs
\* (encode_cursor, decode_cursor and the LIMIT of the lists of src/factorlab/api).
THEOREM WalksAreComplete == ApiSpec => []WalksComplete
<1>1. ApiInit => WalkInv
  BY WalkInitHolds DEF ApiInit
<1> QED BY <1>1, WalkStep, WalksFollow, PTL DEF ApiSpec

=============================================================================
