----------------------------- MODULE ApiClient -----------------------------
(***************************************************************************)
(* The HTTP client of the political sources (shared/ingest/http.py) under  *)
(* the clients with a pool of keys (fec/client.py and congress_gov/client.py,   *)
(* _get) and the one with a single key (lda/client.py).  A page comes from *)
(* the disk cache while it is young enough, else from the provider, with    *)
(* retries; a key that is refused with 429 is left for the next one, and a *)
(* refused pool is tried once more after half an hour.                     *)
(*                                                                         *)
(* One process, one call after the other.  The unit of time is the pool's   *)
(* waiting time; requests and their retries take none.                     *)
(***************************************************************************)
EXTENDS Integers

CONSTANTS
  Pool,      \* number of keys
  Retries,   \* requests of one fetch
  Ttl        \* age up to which a page of the active period is served from the cache

ApiAssumption == Pool \in Nat \ {0} /\ Retries \in Nat \ {0} /\ Ttl \in Nat

VARIABLES
  mode,    \* "pool": a client with several keys; "inline": the single key waits
  spent,   \* keys whose quota is used up
  cache,   \* a page on disk: absent, as the provider serves it, an older one, or torn
  key,     \* _key_idx
  call     \* the call

vars == <<mode, spent, cache, key, call>>

\* Pages of the active cycle, congress or year have a time to live, others have none.
Pages == {"active", "untimed"}
Keys == IF mode = "pool" THEN 1 .. Pool ELSE {1}

Idle == [pc |-> "idle", page |-> "active", cycle |-> 0, attempt |-> 0, refused |-> {}]
Absent == [copy |-> "absent", age |-> 0, behind |-> 0]

TypeOK ==
  /\ mode \in {"pool", "inline"}
  /\ spent \subseteq Keys
  /\ cache \in [Pages -> [copy : {"absent", "current", "old", "torn"},
                          age : 0 .. Ttl + 1, behind : 0 .. Ttl + 1]]
  /\ key \in Keys
  /\ call \in [pc : {"idle", "request", "poolwait", "answered", "failed", "deferred"},
               page : Pages, cycle : 0 .. 1, attempt : 0 .. Retries - 1, refused : SUBSET Keys]

At(pc) == call.pc = pc
Ended == At("idle") \/ At("answered") \/ At("failed") \/ At("deferred")

-----------------------------------------------------------------------------
(* HTTPClient._fetch. *)

FreshForever(p) == cache[p].copy # "absent"
Fresh(p) == cache[p].copy # "absent" /\ (p = "active" => cache[p].age <= Ttl)

\* A cached page is parsed as it is: one that a crash tore fails the call, not the cache.
Call(p) ==
  /\ Ended
  /\ call' = [Idle EXCEPT !.page = p,
                          !.pc = IF ~Fresh(p) THEN "request"
                                 ELSE IF cache[p].copy = "torn" THEN "failed" ELSE "answered"]
  /\ UNCHANGED <<mode, spent, cache, key>>

Stored(copy) == [cache EXCEPT ![call.page] = [copy |-> copy, age |-> 0, behind |-> 0]]

Answer ==
  /\ At("request") /\ key \notin spent
  /\ cache' = Stored("current")
  /\ call' = [call EXCEPT !.pc = "answered"]
  /\ UNCHANGED <<mode, spent, key>>

\* write_bytes is not atomic, and the process that comes back starts with the first key.
DieWriting ==
  /\ At("request") /\ key \notin spent
  /\ cache' = Stored("torn")
  /\ call' = Idle /\ key' = 1
  /\ UNCHANGED <<mode, spent>>

\* The next request of the same fetch, after a pause.
Retry ==
  call' = IF call.attempt + 1 = Retries THEN [call EXCEPT !.pc = "failed"]
          ELSE [call EXCEPT !.attempt = @ + 1]

\* 502, 503, 504, a timeout or another HTTP error.
ServerFails ==
  /\ At("request")
  /\ Retry
  /\ UNCHANGED <<mode, spent, cache, key>>

\* 429 to the single key: a short Retry-After is slept and counts as one of the requests.
RefusedInline ==
  /\ At("request") /\ mode = "inline" /\ key \in spent
  /\ Retry \/ call' = [call EXCEPT !.pc = "deferred"]
  /\ UNCHANGED <<mode, spent, cache, key>>

-----------------------------------------------------------------------------
(* FECClient._get, _rotate_key; CongressClient alike. *)

LastKey == key = Pool
PoolOver == IF call.cycle = 0 THEN "poolwait" ELSE "deferred"

Refused ==
  /\ At("request") /\ mode = "pool" /\ key \in spent
  /\ call' = [call EXCEPT !.refused = @ \cup {key}, !.attempt = 0,
                          !.pc = IF LastKey THEN PoolOver ELSE "request"]
  /\ key' = IF LastKey THEN key ELSE key + 1
  /\ UNCHANGED <<mode, spent, cache>>

\* The pool is tried again from its first key.
AgainSticky ==
  UNCHANGED key /\ call' = [call EXCEPT !.pc = "request", !.cycle = 1, !.refused = {}]

Again == key' = 1 /\ call' = [call EXCEPT !.pc = "request", !.cycle = 1, !.refused = {}]

Older(n) == IF n > Ttl THEN n ELSE n + 1

Aged(page) ==
  [page EXCEPT !.age = IF page.copy = "absent" THEN 0 ELSE Older(@),
               !.behind = IF page.copy = "old" THEN Older(@) ELSE @]

\* Half an hour passes, between two calls or in the pool's pause; quotas come back.
Tick ==
  /\ Ended \/ At("poolwait")
  /\ cache' = [p \in Pages |-> Aged(cache[p])]
  /\ spent' \in SUBSET spent
  /\ IF At("poolwait") THEN Again ELSE call' = Idle /\ UNCHANGED key
  /\ UNCHANGED mode

-----------------------------------------------------------------------------
(* The provider, and other processes with the same keys. *)

Spend(k) ==
  /\ k \notin spent
  /\ spent' = spent \cup {k}
  /\ UNCHANGED <<mode, cache, key, call>>

Revise(p) ==
  /\ cache[p].copy = "current" /\ Ended
  /\ cache' = [cache EXCEPT ![p].copy = "old", ![p].behind = 0]
  /\ call' = Idle
  /\ UNCHANGED <<mode, spent, key>>

Restart ==
  /\ Ended
  /\ key' = 1 /\ call' = Idle
  /\ UNCHANGED <<mode, spent, cache>>

-----------------------------------------------------------------------------
Init ==
  /\ mode \in {"pool", "inline"}
  /\ spent = {}
  /\ cache = [p \in Pages |-> Absent]
  /\ key = 1
  /\ call = Idle

Next ==
  \/ \E p \in Pages : Call(p) \/ Revise(p)
  \/ Answer \/ DieWriting \/ ServerFails \/ RefusedInline \/ Refused \/ Tick \/ Restart
  \/ \E k \in Keys : Spend(k)

Spec == Init /\ [][Next]_vars

-----------------------------------------------------------------------------
(* Properties. *)

\* A source is deferred only after a wait and with every key of the pool refused since.
DeferralIsDue == At("deferred") /\ mode = "pool" => call.cycle = 1 /\ call.refused = Keys

\* A page of the active period is never answered with a copy that the provider replaced
\* longer ago than the time to live, and never with a torn one.
AnswerIsRecent ==
  At("answered") =>
    /\ cache[call.page].copy \in {"current", "old"}
    /\ call.page = "active" => cache[call.page].behind <= Ttl

=============================================================================
