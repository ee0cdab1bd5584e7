--------------------------- MODULE ReleaseDeploy ---------------------------
(***************************************************************************)
(* Production releases: deploy/scripts/deploy-release.sh and                *)
(* rollback-release.sh on the one VPS, through the first activation of the  *)
(* v2 writers.  A bundle carries its image pin, so a release names both.    *)
(*                                                                         *)
(* The state is what survives the scripts: the live directory, the running  *)
(* containers, the release records, the v2-cutover-activated marker, the    *)
(* political cron file and the current-release file.  Two invocations may   *)
(* overlap (a re-run workflow, a manual rollback): deploy-release.sh reads  *)
(* the marker and the cron file before it takes the release lock.  Any step *)
(* may fail, which runs on_error, and a script may be killed anywhere.      *)
(* The optional IBKR services are left out.                                 *)
(***************************************************************************)
EXTENDS Integers, FiniteSets

CONSTANTS
  Scripts,         \* invocations of the scripts that may overlap
  Releases,        \* v2 release ids
  Legacy,          \* the deployment before the first of them
  LegacyServices,  \* services of the legacy compose file
  None             \* no bundle, no container

Writers  == {"universe-us", "ingest-india", "ingest-us"}
Services == {"agent", "api"} \cup Writers

ASSUME ReleaseAssumption ==
  /\ Legacy \notin Releases /\ None \notin Releases /\ None # Legacy
  /\ {"agent", "api"} \subseteq LegacyServices /\ LegacyServices \subseteq Services

VARIABLES
  live,      \* the bundle in /opt/factorlab/deploy, None when it is missing
  running,   \* running[s]: the image service s runs, None when it is stopped
  record,    \* record[r]: what releases/r saved
  marker,    \* v2-cutover-activated exists
  cron,      \* /etc/cron.d/factorlab-political exists
  checked,   \* verify_clickhouse_v2_writes.py has passed on this host
  current,   \* the current-release file
  script     \* the invocations

vars == <<live, running, record, marker, cron, checked, current, script>>

Bundles == Releases \cup {Legacy}

Offered(b) == IF b = Legacy THEN LegacyServices ELSE Services

\* A record first holds the previous bundle, then also the images and release.env.
Absent  == [state |-> "absent", deploy |-> None, images |-> [s \in Services |-> None],
            current |-> Legacy]
Images  == [Services -> Bundles \cup {None}]
Records == {Absent} \cup
           [state : {"bundle", "complete"}, deploy : Bundles, images : Images, current : Bundles]

Unlocked  == {"idle", "read", "lock"}
Staging   == {"check", "save", "images", "stage"}
Replacing == {"remove", "install", "agent", "api", "mark"}
Activated == {"universe-us", "ingest-india", "ingest-us", "verify", "writes", "cron", "current"}
Failing   == {"error", "unschedule"}
Undoing   == {"undo-check", "undo-stop", "undo-remove", "undo-copy", "undo-agent",
              "undo-services", "undo-current", "resume", "restored"}

Invocations ==
  [pc : Unlocked \cup Staging \cup Replacing \cup Activated \cup Failing \cup Undoing,
   by : {"deploy", "rollback"}, release : Bundles, first : BOOLEAN, incomplete : BOOLEAN,
   started : BOOLEAN, todo : SUBSET Services]

Idle == [pc |-> "idle", by |-> "deploy", release |-> Legacy, first |-> FALSE,
         incomplete |-> FALSE, started |-> FALSE, todo |-> {}]

TypeOK ==
  /\ live \in Bundles \cup {None}
  /\ running \in Images
  /\ record \in [Releases -> Records]
  /\ marker \in BOOLEAN /\ cron \in BOOLEAN /\ checked \in BOOLEAN
  /\ current \in Bundles
  /\ script \in [Scripts -> Invocations]

-----------------------------------------------------------------------------
(* Helpers. *)

Host  == <<live, running, marker, cron, checked, current>>   \* all but the records
Files == <<live, record, marker, cron, checked, current>>    \* all but the containers

At(p, pc)   == script[p].pc = pc
Goto(p, pc) == script' = [script EXCEPT ![p].pc = pc]
Exit(p)     == script' = [script EXCEPT ![p] = Idle]

Mine(p)     == record[script[p].release]
Locked(p)   == script[p].pc \notin Unlocked
Deployed(p) == script[p].release

\* docker compose up -d --no-deps --force-recreate s, with the live bundle.
Recreated(s) == [running EXCEPT ![s] = live]

Started == {s \in Services : running[s] # None}

-----------------------------------------------------------------------------
(* deploy-release.sh. *)

\* The release workflow calls the script; a workflow that is run again reuses the id.
Release(p, r) ==
  /\ At(p, "idle")
  /\ script' = [script EXCEPT ![p] = [Idle EXCEPT !.pc = "read", !.release = r]]
  /\ UNCHANGED <<Host, record>>

NotActivated         == ~marker
ActivationIncomplete == ~marker \/ ~cron

\* first_v2_activation and activation_incomplete, before the lock.
ReadMarkers(p) ==
  /\ At(p, "read")
  /\ script' = [script EXCEPT ![p].pc = "lock", ![p].first = ~marker,
                              ![p].incomplete = ActivationIncomplete]
  /\ UNCHANGED <<Host, record>>

\* flock -n: the one who finds it taken gives up.
TakeLock(p) ==
  /\ At(p, "lock")
  /\ IF \A q \in Scripts : ~Locked(q)
     THEN Goto(p, IF script[p].by = "deploy" THEN "check" ELSE "undo-check")
     ELSE Exit(p)
  /\ UNCHANGED <<Host, record>>

CronPaused == ~cron

\* A first activation requires the legacy writers and cron paused.
Paused == Started \cap Writers \cap Offered(live) = {} /\ ~cron

Unready(p) == Mine(p).state # "absent" \/ (script[p].first /\ ~Paused)

Refused(p) == live = None \/ Mine(p).state # "absent" \/ (script[p].first /\ ~Paused)

\* The preconditions; a refusal exits without on_error.
Check(p) ==
  /\ At(p, "check")
  /\ IF Refused(p) THEN Exit(p) ELSE Goto(p, "save")
  /\ UNCHANGED <<Host, record>>

\* The record: previous-deploy and previous-services.txt.
SaveBundle(p) ==
  /\ At(p, "save")
  /\ record' = [record EXCEPT ![Deployed(p)] =
                  [Absent EXCEPT !.state = "bundle", !.deploy = live]]
  /\ Goto(p, "images")
  /\ UNCHANGED Host

\* previous-running-images.tsv and release.env.
SaveImages(p) ==
  /\ At(p, "images")
  /\ record' = [record EXCEPT ![Deployed(p)].state = "complete",
                              ![Deployed(p)].current = current,
                              ![Deployed(p)].images =
                                [s \in Services |-> IF s \in Offered(live) THEN running[s] ELSE None]]
  /\ Goto(p, "stage")
  /\ UNCHANGED Host

\* Unpack, pin, validate and pull; then deployment_started.
Stage(p) ==
  /\ At(p, "stage")
  /\ script' = [script EXCEPT ![p].pc = "remove", ![p].started = TRUE]
  /\ UNCHANGED <<Host, record>>

\* A bundle without the required files: exit without on_error, so the record stays.
BadBundle(p) ==
  /\ At(p, "stage")
  /\ Exit(p)
  /\ UNCHANGED <<Host, record>>

RemoveLive(p) ==
  /\ At(p, "remove")
  /\ live' = None
  /\ Goto(p, "install")
  /\ UNCHANGED <<running, record, marker, cron, checked, current>>

InstallLive(p) ==
  /\ At(p, "install")
  /\ live' = Deployed(p)
  /\ Goto(p, "agent")
  /\ UNCHANGED <<running, record, marker, cron, checked, current>>

After(s) == CASE s = "agent"        -> "api"
              [] s = "api"          -> "mark"
              [] s = "universe-us"  -> "ingest-india"
              [] s = "ingest-india" -> "ingest-us"
              [] s = "ingest-us"    -> "verify"

\* A service is recreated and found healthy, serving or running with the image.
StartService(p, s) ==
  /\ At(p, s)
  /\ running' = Recreated(s)
  /\ Goto(p, After(s))
  /\ UNCHANGED Files

\* The marker of the first activation; from here on the writers count as activated.
Mark(p) ==
  /\ At(p, "mark")
  /\ marker' = (marker \/ script[p].first)
  /\ Goto(p, "universe-us")
  /\ UNCHANGED <<live, running, record, cron, checked, current>>

\* verify_current: every service runs the image, and the API answers.
VerifyCurrent(p) ==
  /\ At(p, "verify")
  /\ \A s \in Services : running[s] = Deployed(p)
  /\ Goto(p, "writes")
  /\ UNCHANGED <<Host, record>>

\* An incomplete activation also waits for v2 writes.
VerifyWrites(p) ==
  /\ At(p, "writes")
  /\ checked' = (checked \/ script[p].incomplete)
  /\ Goto(p, "cron")
  /\ UNCHANGED <<live, running, record, marker, cron, current>>

InstallCron(p) ==
  /\ At(p, "cron")
  /\ cron' = TRUE
  /\ Goto(p, "current")
  /\ UNCHANGED <<live, running, record, marker, checked, current>>

Succeed(p) ==
  /\ At(p, "current")
  /\ current' = Deployed(p)
  /\ Exit(p)
  /\ UNCHANGED <<live, running, record, marker, cron, checked>>

-----------------------------------------------------------------------------
(* on_error. *)

\* A command fails before its effect, or with its container gone: set -e calls on_error.
StepFails(p) ==
  /\ script[p].pc \in (Staging \ {"check"}) \cup Replacing \cup Activated
  /\ Goto(p, "error")
  /\ \/ UNCHANGED running
     \/ /\ script[p].pc \in Services
        /\ running' = [running EXCEPT ![script[p].pc] = None]
  /\ UNCHANGED Files

\* Before deployment_started only the record is discarded.
DiscardRecord(p) ==
  /\ At(p, "error") /\ ~script[p].started
  /\ record' = [record EXCEPT ![Deployed(p)] = Absent]
  /\ Exit(p)
  /\ UNCHANGED Host

\* After the activation: stop the writers for a fix-forward release, as far as stopping works.
StopWriters(p) ==
  /\ At(p, "error") /\ script[p].started /\ marker
  /\ \E S \in SUBSET Writers :
       running' = [s \in Services |-> IF s \in S THEN None ELSE running[s]]
  /\ Goto(p, "unschedule")
  /\ UNCHANGED Files

\* An activation that was never completed also loses its cron.
Unschedule(p) ==
  /\ At(p, "unschedule")
  /\ cron' = (cron /\ ~script[p].incomplete)
  /\ Exit(p)
  /\ UNCHANGED <<live, running, record, marker, checked, current>>

\* Otherwise the previous deployment is restored.
RollBack(p) ==
  /\ At(p, "error") /\ script[p].started /\ ~marker
  /\ Goto(p, "undo-stop")
  /\ UNCHANGED <<Host, record>>

-----------------------------------------------------------------------------
(* Restoring: rollback() of deploy-release.sh, and rollback-release.sh. *)

\* The manual rollback of r, with its saved bundle and images file.
Undo(p, r) ==
  /\ At(p, "idle")
  /\ record[r].state # "absent"
  /\ script' = [script EXCEPT ![p] =
                  [Idle EXCEPT !.pc = "lock", !.by = "rollback", !.release = r]]
  /\ UNCHANGED <<Host, record>>

\* Refused once the writers are activated; the record, and a live bundle to ask for
\* its services, must be there.
UndoCheck(p) ==
  /\ At(p, "undo-check")
  /\ IF marker \/ live = None \/ Mine(p).state = "absent"
     THEN Exit(p) ELSE Goto(p, "undo-stop")
  /\ UNCHANGED <<Host, record>>

\* Services the undone release introduced are stopped; rollback() ignores a failure.
UndoStop(p) ==
  LET added == IF live = None THEN {} ELSE Offered(live) \ Offered(Mine(p).deploy)
  IN  /\ At(p, "undo-stop")
      /\ \/ running' = [s \in Services |-> IF s \in added THEN None ELSE running[s]]
         \/ script[p].by = "deploy" /\ UNCHANGED running
      /\ Goto(p, "undo-remove")
      /\ UNCHANGED Files

UndoRemove(p) ==
  /\ At(p, "undo-remove")
  /\ live' = None
  /\ Goto(p, "undo-copy")
  /\ UNCHANGED <<running, record, marker, cron, checked, current>>

UndoCopy(p) ==
  /\ At(p, "undo-copy")
  /\ live' = Mine(p).deploy
  /\ Goto(p, "undo-agent")
  /\ UNCHANGED <<running, record, marker, cron, checked, current>>

AnyImage(p, s) == TRUE

\* The image check after a service is recreated; a mismatch ends the rollback.
AsRecorded(p, s) == running'[s] = Mine(p).images[s]

\* The agent comes first, whether it ran before or not; rollback() only looks at the
\* container that is there afterwards.  Then comes what ran before.
UndoAgent(p) ==
  LET recorded == {s \in Services : Mine(p).images[s] # None}
  IN  /\ At(p, "undo-agent")
      /\ \/ running' = Recreated("agent")
         \/ script[p].by = "deploy" /\ running["agent"] # None /\ UNCHANGED running
      /\ IF "agent" \in recorded => AsRecorded(p, "agent")
         THEN script' = [script EXCEPT ![p].pc = "undo-services",
                                       ![p].todo = recorded \ {"agent"}]
         ELSE Exit(p)
      /\ UNCHANGED Files

UndoService(p, s) ==
  /\ At(p, "undo-services") /\ s \in script[p].todo
  /\ running' = Recreated(s)
  /\ IF AsRecorded(p, s) THEN script' = [script EXCEPT ![p].todo = @ \ {s}] ELSE Exit(p)
  /\ UNCHANGED Files

\* The API answers: a failed first activation goes on to resume the paused collection.
UndoVerify(p) ==
  /\ At(p, "undo-services") /\ script[p].todo = {}
  /\ {"agent", "api"} \subseteq Started
  /\ script' = [script EXCEPT
       ![p].pc = IF script[p].by = "rollback" THEN "undo-current"
                 ELSE IF script[p].first THEN "resume" ELSE "restored",
       ![p].todo = {"ingest-india", "ingest-us"} \cap Offered(Mine(p).deploy)]
  /\ UNCHANGED <<Host, record>>

Resume(p, s) ==
  /\ At(p, "resume") /\ s \in script[p].todo
  /\ running' = Recreated(s)
  /\ script' = [script EXCEPT ![p].todo = @ \ {s}]
  /\ UNCHANGED Files

ResumeCron(p) ==
  /\ At(p, "resume") /\ script[p].todo = {}
  /\ cron' = TRUE
  /\ Goto(p, "restored")
  /\ UNCHANGED <<live, running, record, marker, checked, current>>

\* rollback_state=succeeded is reported.
Restored(p) ==
  /\ At(p, "restored")
  /\ Exit(p)
  /\ UNCHANGED <<Host, record>>

PreviousRelease(p) == Mine(p).current

\* The last lines of rollback-release.sh; without a release.env they fail.
UndoCurrent(p) ==
  /\ At(p, "undo-current")
  /\ current' = IF Mine(p).state = "complete" THEN PreviousRelease(p) ELSE current
  /\ Exit(p)
  /\ UNCHANGED <<live, running, record, marker, cron, checked>>

-----------------------------------------------------------------------------
(* The host and its operator. *)

\* The service whose container p is recreating.
Recreating(p, s) ==
  \/ At(p, s)
  \/ At(p, "undo-agent") /\ s = "agent"
  \/ script[p].pc \in {"undo-services", "resume"} /\ s \in script[p].todo

\* A script is killed, or a restoring script gives up: its lock is free, the container in
\* hand may be gone, the rest stays.
Killed(p) ==
  /\ ~At(p, "idle")
  /\ Exit(p)
  /\ \/ UNCHANGED running
     \/ \E s \in Services : Recreating(p, s) /\ running' = [running EXCEPT ![s] = None]
  /\ UNCHANGED Files

\* The operator pauses collection for the first activation.
Pause ==
  /\ ~marker
  /\ running' = [s \in Services |-> IF s \in Writers THEN None ELSE running[s]]
  /\ cron' = FALSE
  /\ UNCHANGED <<live, record, marker, checked, current, script>>

-----------------------------------------------------------------------------
Init ==
  /\ live = Legacy
  /\ running = [s \in Services |-> IF s \in LegacyServices THEN Legacy ELSE None]
  /\ record = [r \in Releases |-> Absent]
  /\ marker = FALSE /\ cron = TRUE /\ checked = FALSE
  /\ current = Legacy
  /\ script = [p \in Scripts |-> Idle]

Deploy(p) ==
  \/ ReadMarkers(p) \/ TakeLock(p) \/ Check(p) \/ SaveBundle(p) \/ SaveImages(p)
  \/ Stage(p) \/ BadBundle(p) \/ RemoveLive(p) \/ InstallLive(p) \/ Mark(p)
  \/ \E s \in Services : StartService(p, s)
  \/ VerifyCurrent(p) \/ VerifyWrites(p) \/ InstallCron(p) \/ Succeed(p)

OnError(p) ==
  \/ StepFails(p) \/ DiscardRecord(p) \/ StopWriters(p) \/ Unschedule(p) \/ RollBack(p)

Restore(p) ==
  \/ UndoCheck(p) \/ UndoStop(p) \/ UndoRemove(p) \/ UndoCopy(p) \/ UndoAgent(p)
  \/ \E s \in Services : UndoService(p, s) \/ Resume(p, s)
  \/ UndoVerify(p) \/ ResumeCron(p) \/ Restored(p) \/ UndoCurrent(p)

Next ==
  \/ \E p \in Scripts :
       \/ \E r \in Releases : Release(p, r) \/ Undo(p, r)
       \/ Deploy(p) \/ OnError(p) \/ Restore(p) \/ Killed(p)
  \/ Pause

Spec == Init /\ [][Next]_vars

-----------------------------------------------------------------------------
(* Properties. *)

\* Once the marker exists no writer runs the legacy image: the writers are activated only
\* over a paused collection, and no rollback, kill or stale read brings them back.
NoLegacyWriter == marker => \A s \in Writers : running[s] # Legacy

\* With the v2 writers activated, the political job is scheduled only on a host where the
\* v2 writes were verified, however often the activation was killed and repeated.
CronAfterWrites == marker /\ cron => checked

\* The current-release file never names a release of an activation that was not verified.
CurrentVerified == current # Legacy => marker /\ checked

\* A rollback that reports success runs every service that was running before, with the
\* image it ran.
RestoredIsPrevious ==
  \A p \in Scripts : At(p, "restored") =>
    /\ live = Mine(p).deploy
    /\ \A s \in Services : Mine(p).images[s] # None => running[s] = Mine(p).images[s]

\* rollback-release.sh:27: "v2 writers have been activated; rollback is disabled".  A v2
\* writer runs only with the marker set, so the rollback that would undo it is refused.
V2WritersMarked == (\E s \in Writers : running[s] \in Releases) => marker

=============================================================================
