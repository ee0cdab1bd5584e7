-------------------------- MODULE ProviderClients --------------------------
(***************************************************************************)
(* Five components that talk to a provider over HTTP: three sources of the  *)
(* political runs, each with tables and state files of its own (the         *)
(* Congress.gov passes, the FEC stages, the lobbying source), the HTTP      *)
(* client under them, and the path of the broker's token.  They share      *)
(* nothing that any of the five modules holds, so that a behaviour of all   *)
(* is a behaviour of each: the component is chosen once and the others      *)
(* rest.                                                                   *)
(***************************************************************************)
EXTENDS BillPasses, FiniteSets

CONSTANTS Pacs, Pccs, None, Batch, MaxFaults, Filings, Pool, Retries, Ttl, Life, Window, Interval

VARIABLES
  source,                                            \* the component that runs
  filed, committees, donated, fecMarks, job, faults, \* FecPasses
  read, orphaned, unlisted, fecDried,
  posted, filings, activities, targets, lobbyists,   \* LdaPass
  aliases, ldaJob, ldaBreaks,
  mode, spent, cache, key, call,                     \* ApiClient
  kv, req, agent, timer, files,
  calm, settled, raced, regressed                    \* BrokerTokens

Fec == INSTANCE FecPasses WITH marks <- fecMarks, dried <- fecDried
Lda == INSTANCE LdaPass WITH job <- ldaJob, breaks <- ldaBreaks, MaxBreaks <- MaxFaults
Api == INSTANCE ApiClient
Tokens == INSTANCE BrokerTokens

ASSUME ConstantsAssumption ==
  Fec!FecAssumption /\ Lda!LdaAssumption /\ Api!ApiAssumption /\ Tokens!TimesAssumption

fecVars == <<filed, committees, donated, fecMarks, job, faults, read, orphaned,
             unlisted, fecDried>>
ldaVars == <<posted, filings, activities, targets, lobbyists, aliases, ldaJob, ldaBreaks>>
apiVars == <<mode, spent, cache, key, call>>
tokenVars == <<kv, req, agent, timer, files, calm, settled, raced, regressed>>
allVars == <<vars, fecVars, ldaVars, apiVars, tokenVars, source>>

\* The client with several keys and the one with a single key start only where the client runs.
ClientsInit ==
  /\ Init /\ Fec!Init /\ Lda!Init /\ Api!Init /\ Tokens!Init
  /\ source \in {"congress_gov", "fec", "lda", "client", "tokens"}
  /\ source # "client" => mode = "pool"

Congress(A) ==
  source = "congress_gov" /\ A /\ UNCHANGED <<fecVars, ldaVars, apiVars, tokenVars, source>>
FecRun(A) == source = "fec" /\ A /\ UNCHANGED <<vars, ldaVars, apiVars, tokenVars, source>>
LdaRun(A) == source = "lda" /\ A /\ UNCHANGED <<vars, fecVars, apiVars, tokenVars, source>>
Client(A) == source = "client" /\ A /\ UNCHANGED <<vars, fecVars, ldaVars, tokenVars, source>>
Token(A)  == source = "tokens" /\ A /\ UNCHANGED <<vars, fecVars, ldaVars, apiVars, source>>

ClientsNext ==
  Congress(Next) \/ FecRun(Fec!Next) \/ LdaRun(Lda!Next) \/ Client(Api!Next) \/ Token(Tokens!Next)

\* The fairness of BillPasses, of LdaPass and of BrokerTokens, each where its component runs.
ClientsSpec ==
  /\ ClientsInit /\ [][ClientsNext]_allVars
  /\ WF_vars(source = "congress_gov" /\ Proceed) /\ SF_vars(source = "congress_gov" /\ Daily)
  /\ WF_ldaVars(source = "lda" /\ Lda!Proceed) /\ SF_ldaVars(source = "lda" /\ Lda!Daily)
  /\ WF_tokenVars(source = "tokens" /\ Tokens!Serve)
  /\ WF_tokenVars(source = "tokens" /\ Tokens!Agent)
  /\ WF_tokenVars(source = "tokens" /\ Tokens!Tick)

\* A bound for TLC: Congress.gov lists bills or it lists hearings, whose passes have only the
\* process and its order in common.
OneKind == listed = {} \/ held = {}

-----------------------------------------------------------------------------
(* Properties. *)

\* The foreign keys to a committee refuse a batch of campaign_donations only for a recipient
\* that came as a key without the nested object: any other committee of a buffered donation
\* has a row or is written before it, wherever an earlier unit or write failed (fec/ingest.py
\* _flush_committees, _flush_committee_stubs, _flush_donations).  And wherever a run of
\* ingest_lda broke, no row is left that the keys from lobbying_activities to its filing and
\* from the targets and lobbyists to their activity forbid.
BatchAdmissible == Fec!BatchAdmissible /\ Lda!ParentsFirst

\* What the state file of a source calls done is stored, as far as the answer made rows.  Of
\* Congress.gov a bill that is done has its row, and its sponsor unless the answer named none, a
\* hearing its row unless the answer made none; what a dry run marked is excepted.  Of the FEC
\* also what died in memory in a run that broke after the mark was flushed.
DoneIsStored == MarksStored /\ Fec!DoneIsStored

\* A list that is marked done has its bills but for a batch that was never written, and a bill
\* whose policy area is stored has the sponsor that its answer named, but for a run that broke
\* between the two writes.
BillsKept == ListKept /\ SponsorKept

\* The client defers a source only after the pool's wait, every key refused since
\* (fec/client.py _get and _rotate_key, congress_gov/client.py _get).
DeferralIsDue == Api!DeferralIsDue

\* A page of the active period is never answered with a copy that the provider replaced longer
\* ago than the time to live (shared/ingest/http.py _fetch).
AnswerIsRecent == Api!AnswerIsRecent

\* What token_ready vouches for is usable, unless a late put brought an older record back; a
\* login is undone by an older one's refresh token only if it fell between a request's read of
\* the record and its put; and while nothing fails the collectors are never without a token
\* (_render_bundle of the secrets agent, resolveSchwabRuntimeToken of the worker).
TokensKept == Tokens!ReadyIsUsable /\ Tokens!LoginKept /\ Tokens!HeldWhenCalm

\* What comes of it in the end.  A hearing that is held arrives, unless a dry run marked it or
\* what Congress.gov says of it makes no row; a lobbying filing is stored with an activity, its
\* targets and lobbyists, although a run of ingest_lda may break between any two of its tables;
\* and whatever happened to the token before, the collectors get one and keep it, once nothing
\* fails.
ClientsRecover == []<>(HearingsStored /\ Lda!LobbyingStored) /\ Tokens!Reconnects

=============================================================================
