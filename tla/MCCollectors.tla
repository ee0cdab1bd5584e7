---------------------------- MODULE MCCollectors ----------------------------
(* Two processes, one plain source a day and one a week beside the House Clerk.
   Four session ages and windows of one session: a recovery of three windows can be
   interrupted between any two, and a hole can lie two sessions behind a polled one.
   Three symbols, one of them on an exchange nobody knows, so that a list can differ from
   the one before and be refused half way; two futures of one symbol,
   which the master may list without their underlying. *)
EXTENDS Collectors, TLC

DailySources  == <<"house_clerk", "lda">>
WeeklySources == <<"fec">>
UnderlyingOf  == <<1, 1>>
Symmetry      == Permutations(Procs)

\* Once two runs have overlapped, only daily runs are followed, no further than to the first
\* source that succeeds, and no hour passes in which a source is cooling down: what is left
\* to check then is the done set.
FirstSource ==
  Overlapped =>
    /\ \A p \in Procs : /\ run[p].mode = "daily"
                        /\ run[p].pc # "none" => \A q \in SourceNames : run[p].mem[q].ok = Cooldown
    /\ \A q \in SourceNames : asked[q] = 0 /\ runFile[q].ok = Cooldown

\* Among the India sessions kept at most one is without bars or a recovery of its own; while two
\* resolvers are at work the US collector does not change its tier; a second one begins when the
\* series of the provider before have been retired.
Focus ==
  /\ FirstSource
  /\ Cardinality(short \cup lapsed) <= 1
  /\ (\A p \in Procs : resolver[p].pc # "asleep") =>
       tiering.pc \in {"down", "polling"} /\ expected["eodhd"] = {}
=============================================================================
