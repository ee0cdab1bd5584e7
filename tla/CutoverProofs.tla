---------------------------- MODULE CutoverProofs ----------------------------
(***************************************************************************)
(* Proofs about the commands of the move.  Releases, for any set of         *)
(* invocations and releases and any legacy service list: type correctness,  *)
(* that no legacy writer runs once the v2 marker is set, that cron and the  *)
(* current-release file follow the write check, and that a successful       *)
(* rollback restores what ran before.  The commands beside the release, for *)
(* any number of rows, revisions, tables and overlapping invocations: what  *)
(* a review decides is what is loaded and stays decided, and an exchange    *)
(* hides nothing its comparison had seen.                                   *)
(***************************************************************************)
EXTENDS Cutover, TLAPS

-----------------------------------------------------------------------------
(* The inductive invariant of releases. *)

\* The release lock has one holder.
OneHolder == \A p, q \in Scripts : Locked(p) /\ Locked(q) => p = q

\* What holds of the host at every moment, whoever holds the lock.
HostSound ==
  /\ \A s \in Services : running[s] = Legacy => s \in LegacyServices
  /\ NoLegacyWriter /\ CronAfterWrites /\ CurrentVerified

\* A record lists services of its own bundle; before the activation, none of them a writer,
\* because every deploy until then is a first activation.
RecordSound ==
  \A r \in Releases :
    /\ record[r].state # "absent" =>
         \A s \in Services : record[r].images[s] # None => s \in Offered(record[r].deploy)
    /\ ~marker => record[r].current = Legacy /\ \A w \in Writers : record[r].images[w] = None

\* An invocation has a release, and a rollback only restores.
Named(p) ==
  /\ script[p].pc # "idle" => script[p].release \in Releases
  /\ script[p].by = "rollback" => script[p].pc \in {"lock"} \cup Undoing

\* The flags read before the lock stay right in the direction that matters: the marker and
\* the write check are never undone.
Flagged(p) ==
  script[p].by = "deploy" /\ script[p].pc \notin {"idle", "read"} =>
    /\ script[p].first \/ marker
    /\ script[p].incomplete \/ (marker /\ checked)

\* From its check to its marker a first activation finds collection paused.
Quiet(p) ==
  script[p].first /\ script[p].pc \in (Staging \ {"check"}) \cup Replacing =>
    /\ ~cron
    /\ \A w \in Writers : running[w] # Legacy
    /\ script[p].pc \in {"save", "images"} =>
         \A w \in Writers \cap Offered(live) : running[w] = None

\* Which bundle is live at which step, and what the writers' steps may rely on.
Placed(p) ==
  /\ script[p].pc \in (Staging \ {"check"}) => live # None
  /\ script[p].pc \in {"agent", "api", "mark"} \cup Activated => live = script[p].release
  /\ script[p].pc \in Activated => marker
  /\ script[p].pc \in {"cron", "current"} => checked

\* A deploy that may roll back has its record.
Saved(p) ==
  /\ script[p].pc = "images" => Mine(p).state # "absent" /\ Mine(p).deploy = live
  /\ script[p].pc \in {"stage"} \cup Replacing \cup Activated => Mine(p).state # "absent"
  /\ script[p].pc = "error" /\ script[p].started => Mine(p).state # "absent"
  /\ script[p].pc \in Unlocked \cup Staging => ~script[p].started

\* Restoring happens before the activation, from a record, towards the saved images.
Restoring(p) ==
  /\ script[p].pc \in Undoing \ {"undo-check"} => ~marker /\ Mine(p).state # "absent"
  /\ script[p].pc \in {"undo-agent", "undo-services", "undo-current", "resume", "restored"} =>
       live = Mine(p).deploy
  /\ script[p].pc = "resume" => script[p].todo \subseteq Offered(Mine(p).deploy)
  /\ script[p].pc = "resume" => script[p].todo \subseteq Writers
  /\ script[p].pc = "undo-services" =>
       /\ \A s \in script[p].todo : Mine(p).images[s] # None
       /\ \A s \in Services \ script[p].todo :
            Mine(p).images[s] # None => running[s] = Mine(p).images[s]
  /\ script[p].pc \in {"undo-current", "resume", "restored"} =>
       \A s \in Services : Mine(p).images[s] # None => running[s] = Mine(p).images[s]

Sound(p) == Named(p) /\ Flagged(p) /\ Quiet(p) /\ Placed(p) /\ Saved(p) /\ Restoring(p)

IInv == TypeOK /\ OneHolder /\ HostSound /\ RecordSound /\ \A p \in Scripts : Sound(p)

-----------------------------------------------------------------------------
(* How an invocation moves. *)

\* Goto changes the pc of one invocation.
LEMMA GotoEffect ==
  ASSUME TypeOK, NEW p \in Scripts, NEW pc, Goto(p, pc),
         pc \in Unlocked \cup Staging \cup Replacing \cup Activated \cup Failing \cup Undoing
  PROVE  /\ script' \in [Scripts -> Invocations]
         /\ script'[p].pc = pc /\ script'[p].by = script[p].by
         /\ script'[p].release = script[p].release /\ script'[p].first = script[p].first
         /\ script'[p].incomplete = script[p].incomplete
         /\ script'[p].started = script[p].started /\ script'[p].todo = script[p].todo
         /\ \A q \in Scripts : q # p => script'[q] = script[q]
BY DEF TypeOK, Goto, Invocations

\* Exit makes it idle.
LEMMA ExitEffect ==
  ASSUME TypeOK, NEW p \in Scripts, Exit(p)
  PROVE  /\ script' \in [Scripts -> Invocations]
         /\ script'[p] = Idle
         /\ \A q \in Scripts : q # p => script'[q] = script[q]
<1>1. Idle \in Invocations
  BY DEF Idle, Invocations, Bundles, Unlocked
<1> QED BY <1>1 DEF TypeOK, Exit

\* An idle invocation meets every condition.
LEMMA IdleSound ==
  ASSUME NEW p \in Scripts, script'[p] = Idle
  PROVE  Sound(p)' /\ ~Locked(p)'
<1>1. script'[p].pc = "idle" /\ script'[p].by = "deploy" /\ ~script'[p].started
  BY DEF Idle
<1>2. /\ Named(p)' /\ Flagged(p)'
  BY <1>1 DEF Named, Flagged
<1>3. Quiet(p)' /\ Placed(p)' /\ Saved(p)' /\ Restoring(p)'
  BY <1>1 DEF Quiet, Placed, Saved, Restoring, Staging, Replacing, Activated, Undoing
<1> QED BY <1>1, <1>2, <1>3 DEF Sound, Locked, Unlocked

\* An invocation without the lock relies only on the marker and the write check.
LEMMA UnlockedSound ==
  ASSUME NEW q \in Scripts, Sound(q), ~Locked(q), script'[q] = script[q],
         marker => marker', checked => checked'
  PROVE  Sound(q)' /\ ~Locked(q)'
<1>1. script[q].pc \in Unlocked
  BY DEF Locked
<1>2. Named(q)' /\ Flagged(q)'
  BY DEF Sound, Named, Flagged
<1>3. Quiet(q)' /\ Placed(q)' /\ Saved(q)' /\ Restoring(q)'
  BY <1>1 DEF Sound, Unlocked, Quiet, Placed, Saved, Restoring, Staging, Replacing, Activated,
     Undoing
<1> QED BY <1>1, <1>2, <1>3 DEF Sound, Locked

\* A step of the lock holder preserves the invariant if it does so for itself.
LEMMA HolderStep ==
  ASSUME IInv, NEW p \in Scripts, Locked(p),
         \A q \in Scripts : q # p => script'[q] = script[q],
         marker => marker', checked => checked',
         TypeOK', HostSound', RecordSound', Sound(p)'
  PROVE  IInv'
<1>1. \A q \in Scripts : q # p => ~Locked(q)
  BY DEF IInv, OneHolder
<1>2. \A q \in Scripts : q # p => Sound(q)' /\ ~Locked(q)'
  BY <1>1, UnlockedSound DEF IInv
<1>3. OneHolder'
  BY <1>2 DEF OneHolder
<1>4. \A q \in Scripts : Sound(q)'
  BY <1>2
<1> QED BY <1>3, <1>4 DEF IInv

\* With the host and the records as they were, an invocation that did not move stays sound.
LEMMA StillSound ==
  ASSUME NEW q \in Scripts, Sound(q), UNCHANGED <<Host, record>>, script'[q] = script[q]
  PROVE  Sound(q)'
BY DEF Host, Sound, Named, Flagged, Quiet, Placed, Saved, Restoring, Mine

\* A step that only moves one invocation and does not take a taken lock.
LEMMA QuietStep ==
  ASSUME IInv, NEW p \in Scripts, UNCHANGED <<Host, record>>,
         script' \in [Scripts -> Invocations],
         \A q \in Scripts : q # p => script'[q] = script[q],
         Locked(p)' => (Locked(p) \/ \A q \in Scripts : ~Locked(q)),
         Sound(p)'
  PROVE  IInv'
<1>1. TypeOK'
  BY DEF IInv, TypeOK, Host
<1>2. HostSound' /\ RecordSound'
  BY DEF IInv, HostSound, RecordSound, NoLegacyWriter, CronAfterWrites, CurrentVerified, Host
<1>3. \A q \in Scripts : Sound(q)'
  BY StillSound DEF IInv
<1>4. \A q \in Scripts : q # p => (Locked(q)' <=> Locked(q))
  BY DEF Locked
<1>5. OneHolder'
  BY <1>4 DEF IInv, OneHolder
<1> QED BY <1>1, <1>2, <1>3, <1>5 DEF IInv

-----------------------------------------------------------------------------
(* Steps that leave the host and the records alone. *)

\* Before the first release nothing is activated.
LEMMA InvInit == Init => IInv
<1> SUFFICES ASSUME Init PROVE IInv
  OBVIOUS
<1> USE ReleaseAssumption
<1>1. Absent \in Records /\ Absent.state = "absent" /\ Absent.current = Legacy
      /\ \A s \in Services : Absent.images[s] = None
  BY DEF Records, Absent
<1>2. running \in Images /\ \A s \in Services : running[s] = Legacy => s \in LegacyServices
  BY DEF Init, Images, Bundles
<1>3. Idle \in Invocations /\ Idle.pc = "idle" /\ Idle.by = "deploy" /\ ~Idle.started
  BY DEF Idle, Invocations, Bundles, Unlocked
<1>4. TypeOK
  BY <1>1, <1>2, <1>3 DEF Init, TypeOK, Bundles
<1>5. HostSound
  BY <1>2 DEF Init, HostSound, NoLegacyWriter, CronAfterWrites, CurrentVerified
<1>6. RecordSound
  BY <1>1 DEF Init, RecordSound, Writers, Services
<1>7. \A p \in Scripts : script[p].pc = "idle" /\ script[p].by = "deploy" /\ ~script[p].started
  BY <1>3 DEF Init
<1>8. \A p \in Scripts : Sound(p) /\ ~Locked(p)
  BY <1>7 DEF Sound, Named, Flagged, Quiet, Placed, Saved, Restoring, Locked, Unlocked,
          Staging, Replacing, Activated, Undoing
<1> QED BY <1>4, <1>5, <1>6, <1>8 DEF IInv, OneHolder

\* Calling a script, reading the markers and trying the lock.
LEMMA ArrivalSteps ==
  ASSUME IInv, NEW p \in Scripts,
         \/ \E r \in Releases : Release(p, r) \/ Undo(p, r)
         \/ ReadMarkers(p) \/ TakeLock(p)
  PROVE  IInv'
<1>1. ASSUME NEW r \in Releases, Release(p, r) PROVE IInv'
  <2> DEFINE new == [Idle EXCEPT !.pc = "read", !.release = r]
  <2>1. new \in Invocations /\ new.pc = "read" /\ new.by = "deploy" /\ new.release = r
        /\ ~new.started
    BY DEF Idle, Invocations, Bundles, Unlocked
  <2> HIDE DEF new
  <2>2. /\ script' \in [Scripts -> Invocations] /\ script'[p] = new
        /\ \A q \in Scripts : q # p => script'[q] = script[q]
    BY <1>1, <2>1 DEF Release, IInv, TypeOK, new
  <2>3. Sound(p)' /\ ~Locked(p)'
    BY <2>1, <2>2 DEF Sound, Named, Flagged, Quiet, Placed, Saved, Restoring, Locked, Unlocked,
       Staging, Replacing, Activated, Undoing
  <2> QED BY <1>1, <2>2, <2>3, QuietStep DEF Release
<1>2. ASSUME NEW r \in Releases, Undo(p, r) PROVE IInv'
  <2> DEFINE new == [Idle EXCEPT !.pc = "lock", !.by = "rollback", !.release = r]
  <2>1. new \in Invocations /\ new.pc = "lock" /\ new.by = "rollback" /\ new.release = r
        /\ ~new.started
    BY DEF Idle, Invocations, Bundles, Unlocked
  <2> HIDE DEF new
  <2>2. /\ script' \in [Scripts -> Invocations] /\ script'[p] = new
        /\ \A q \in Scripts : q # p => script'[q] = script[q]
    BY <1>2, <2>1 DEF Undo, IInv, TypeOK, new
  <2>3. Sound(p)' /\ ~Locked(p)'
    BY <2>1, <2>2 DEF Sound, Named, Flagged, Quiet, Placed, Saved, Restoring, Locked, Unlocked,
       Staging, Replacing, Activated, Undoing
  <2> QED BY <1>2, <2>2, <2>3, QuietStep DEF Undo
<1>3. CASE ReadMarkers(p)
  <2>0. (~marker) \in BOOLEAN /\ ActivationIncomplete \in BOOLEAN /\ "lock" \in Unlocked
    BY DEF ActivationIncomplete, Unlocked
  <2>1. /\ script' \in [Scripts -> Invocations]
        /\ script'[p].pc = "lock" /\ script'[p].by = script[p].by
        /\ script'[p].release = script[p].release
        /\ \A q \in Scripts : q # p => script'[q] = script[q]
    <3> DEFINE first == ~marker
               new   == [script[p] EXCEPT !.pc = "lock", !.first = first,
                                          !.incomplete = ActivationIncomplete]
    <3>1. first \in BOOLEAN
      OBVIOUS
    <3>2. script' = [script EXCEPT ![p] = new]
      BY <1>3 DEF ReadMarkers, IInv, TypeOK
    <3> HIDE DEF first
    <3>3. /\ new \in Invocations /\ new.pc = "lock" /\ new.by = script[p].by
          /\ new.release = script[p].release
      BY <2>0, <3>1 DEF IInv, TypeOK, Invocations
    <3> QED BY <3>2, <3>3 DEF IInv, TypeOK
  <2>2. script'[p].first <=> ~marker
    BY <1>3 DEF ReadMarkers, IInv, TypeOK, Invocations
  <2>3. script'[p].incomplete <=> (~marker \/ ~cron)
    BY <1>3 DEF ReadMarkers, IInv, TypeOK, Invocations, ActivationIncomplete
  <2>4. UNCHANGED <<Host, record>> /\ script[p].pc = "read"
    BY <1>3 DEF ReadMarkers, At
  <2>8. ~script'[p].started
    BY <1>3, <2>4 DEF ReadMarkers, IInv, TypeOK, Invocations, Sound, Saved, Unlocked
  <2>5. Named(p)'
    BY <2>1, <2>4 DEF IInv, Sound, Named
  <2>6. Flagged(p)'
    BY <2>2, <2>3, <2>4 DEF Flagged, Host, IInv, HostSound, CronAfterWrites
  <2>7. Quiet(p)' /\ Placed(p)' /\ Saved(p)' /\ Restoring(p)' /\ ~Locked(p)'
    BY <2>1, <2>8 DEF Quiet, Placed, Saved, Restoring, Locked, Unlocked, Staging, Replacing,
       Activated, Undoing
  <2> QED BY <2>1, <2>4, <2>5, <2>6, <2>7, QuietStep DEF Sound
<1>4. CASE TakeLock(p)
  <2>1. CASE \A q \in Scripts : ~Locked(q)
    <3> DEFINE pc == IF script[p].by = "deploy" THEN "check" ELSE "undo-check"
    <3>1. Goto(p, pc) /\ UNCHANGED <<Host, record>> /\ script[p].pc = "lock"
      BY <1>4, <2>1 DEF TakeLock, At
    <3>2. pc \in {"check", "undo-check"} /\ (script[p].by = "rollback" => pc = "undo-check")
      BY DEF IInv, TypeOK, Invocations
    <3> HIDE DEF pc
    <3>3. pc \in Staging \cup Undoing
      BY <3>2 DEF Staging, Undoing
    <3>4. /\ script' \in [Scripts -> Invocations]
          /\ script'[p].pc = pc /\ script'[p].by = script[p].by
          /\ script'[p].release = script[p].release /\ script'[p].first = script[p].first
          /\ script'[p].incomplete = script[p].incomplete
          /\ script'[p].started = script[p].started
          /\ \A q \in Scripts : q # p => script'[q] = script[q]
      BY <3>1, <3>3, GotoEffect DEF IInv
    <3>5. Named(p)'
      BY <3>1, <3>2, <3>4 DEF IInv, Sound, Named, Undoing
    <3>6. Flagged(p)'
      BY <3>1, <3>2, <3>4 DEF IInv, Sound, Flagged, Host
    <3>8. ~script[p].started
      BY <3>1 DEF IInv, Sound, Saved, Unlocked
    <3>7. Quiet(p)' /\ Placed(p)' /\ Saved(p)' /\ Restoring(p)'
      BY <3>2, <3>4, <3>8 DEF Quiet, Placed, Saved, Restoring, Staging, Replacing, Activated, Undoing
    <3> QED BY <2>1, <3>1, <3>4, <3>5, <3>6, <3>7, QuietStep DEF Sound
  <2>2. CASE ~ \A q \in Scripts : ~Locked(q)
    BY <1>4, <2>2, ExitEffect, IdleSound, QuietStep DEF TakeLock, IInv
  <2> QED BY <2>1, <2>2
<1> QED BY <1>1, <1>2, <1>3, <1>4

\* Whatever ends an invocation without touching host or records.
LEMMA EndingStep ==
  ASSUME IInv, NEW p \in Scripts, Exit(p), UNCHANGED <<Host, record>>
  PROVE  IInv'
BY ExitEffect, IdleSound, QuietStep DEF IInv

-----------------------------------------------------------------------------
(* The deploy steps. *)

\* A step of the holder that moves only its pc keeps its name and flags.
LEMMA FlagsKept ==
  ASSUME NEW p \in Scripts, Sound(p), marker => marker', checked => checked',
         script[p].pc \notin Unlocked, script'[p].by = script[p].by,
         script'[p].release = script[p].release, script'[p].first = script[p].first,
         script'[p].incomplete = script[p].incomplete,
         script[p].by = "rollback" => script'[p].pc \in Undoing
  PROVE  Named(p)' /\ Flagged(p)'
BY DEF Sound, Named, Flagged, Unlocked

\* The first activation's check leaves collection paused.
LEMMA CheckStep == ASSUME IInv, NEW p \in Scripts, Check(p) PROVE IInv'
<1>1. CASE Refused(p)
  BY <1>1, EndingStep DEF Check
<1>2. CASE ~Refused(p)
  <2>1. Goto(p, "save") /\ UNCHANGED <<Host, record>> /\ script[p].pc = "check"
    BY <1>2 DEF Check, At
  <2>2. /\ script' \in [Scripts -> Invocations]
        /\ script'[p].pc = "save" /\ script'[p].by = script[p].by
        /\ script'[p].release = script[p].release /\ script'[p].first = script[p].first
        /\ script'[p].incomplete = script[p].incomplete
        /\ script'[p].started = script[p].started
        /\ \A q \in Scripts : q # p => script'[q] = script[q]
    BY <2>1, GotoEffect DEF IInv, Staging
  <2>3. UNCHANGED <<live, running, record, marker, cron, checked>>
    BY <2>1 DEF Host
  <2>4. live # None /\ (script[p].first => Paused)
    BY <1>2 DEF Refused
  <2>5. ASSUME script[p].first PROVE
          /\ ~cron /\ \A w \in Writers : running[w] # Legacy
          /\ \A w \in Writers \cap Offered(live) : running[w] = None
    <3>1. ~cron /\ \A w \in Writers \cap Offered(live) : running[w] = None
      BY <2>4, <2>5 DEF Paused, Started, Writers, Services
    <3>2. \A w \in Writers : running[w] = Legacy => w \in LegacyServices
      BY DEF IInv, HostSound, Writers, Services
    <3>3. \A w \in Writers : w \in LegacyServices => w \in Offered(live)
      BY DEF Offered, Services
    <3> QED BY <3>1, <3>2, <3>3, ReleaseAssumption
  <2>6. Quiet(p)'
    BY <2>2, <2>3, <2>5 DEF Quiet
  <2>7. Placed(p)' /\ Restoring(p)'
    BY <2>2, <2>3, <2>4 DEF Placed, Restoring, Staging, Replacing, Activated, Undoing
  <2>8. script[p].by = "deploy" /\ ~script[p].started
    BY <2>1 DEF IInv, Sound, Named, Saved, Undoing, Staging, TypeOK, Invocations
  <2>9. Saved(p)'
    BY <2>2, <2>8 DEF Saved, Staging, Replacing, Activated
  <2>10. Named(p)' /\ Flagged(p)'
    BY <2>1, <2>2, <2>3, <2>8, FlagsKept DEF IInv, Unlocked
  <2>11. Locked(p)
    BY <2>1 DEF Locked, Unlocked
  <2> QED BY <2>1, <2>2, <2>6, <2>7, <2>9, <2>10, <2>11, QuietStep DEF Sound
<1> QED BY <1>1, <1>2

\* The host facts and the record facts depend on these variables only.
LEMMA HostKept ==
  ASSUME HostSound, UNCHANGED <<running, marker, cron, checked, current>>
  PROVE  HostSound'
BY DEF HostSound, NoLegacyWriter, CronAfterWrites, CurrentVerified

\* A step that leaves the record alone, and drops no marker, keeps it.
LEMMA RecordKept ==
  ASSUME RecordSound, UNCHANGED record, marker => marker'
  PROVE  RecordSound'
BY DEF RecordSound

\* previous-deploy is the live bundle.
LEMMA SaveBundleStep == ASSUME IInv, NEW p \in Scripts, SaveBundle(p) PROVE IInv'
<1> USE ReleaseAssumption
<1> DEFINE r   == script[p].release
           new == [Absent EXCEPT !.state = "bundle", !.deploy = live]
<1>1. script[p].pc = "save" /\ UNCHANGED <<live, running, marker, cron, checked, current>>
  BY DEF SaveBundle, At, Host
<1>2. r \in Releases /\ live # None
  BY <1>1 DEF IInv, Sound, Named, Placed, Staging
<1>3. /\ new \in Records /\ new.state # "absent" /\ new.deploy = live /\ new.current = Legacy
      /\ \A s \in Services : new.images[s] = None
  BY <1>2 DEF IInv, TypeOK, Absent, Records, Images, Bundles
<1> HIDE DEF new
<1>4. record' = [record EXCEPT ![r] = new]
  BY DEF SaveBundle, Deployed, new
<1>5. record' \in [Releases -> Records] /\ Mine(p)' = record'[script'[p].release]
  BY <1>3, <1>4 DEF IInv, TypeOK, Mine
<1>6. /\ script' \in [Scripts -> Invocations]
      /\ script'[p].pc = "images" /\ script'[p].by = script[p].by
      /\ script'[p].release = r /\ script'[p].first = script[p].first
      /\ script'[p].incomplete = script[p].incomplete /\ script'[p].started = script[p].started
      /\ \A q \in Scripts : q # p => script'[q] = script[q]
  <2>1. Goto(p, "images")
    BY DEF SaveBundle
  <2> QED BY <2>1, GotoEffect DEF IInv, Staging
<1>7. record'[r] = new
  BY <1>2, <1>4 DEF IInv, TypeOK
<1>8. TypeOK'
  BY <1>1, <1>5, <1>6 DEF IInv, TypeOK
<1>9. HostSound'
  BY <1>1, HostKept DEF IInv
<1>10. RecordSound'
  <2>1. \A w \in Writers : w \in Services
    BY DEF Services
  <2> QED BY <1>1, <1>3, <1>4, <2>1 DEF IInv, TypeOK, RecordSound
<1>11. Named(p)' /\ Flagged(p)'
  <2>1. script[p].by # "rollback"
    BY <1>1 DEF IInv, Sound, Named, Undoing
  <2> QED BY <1>1, <1>6, <2>1, FlagsKept DEF IInv, Unlocked
<1>12. Quiet(p)'
  BY <1>1, <1>6 DEF IInv, Sound, Quiet, Staging
<1>13. Placed(p)' /\ Restoring(p)'
  BY <1>1, <1>2, <1>6 DEF Placed, Restoring, Staging, Activated, Undoing
<1>14. Saved(p)'
  BY <1>1, <1>3, <1>5, <1>6, <1>7 DEF IInv, Sound, Saved, Staging, Replacing, Activated, Unlocked
<1>15. Locked(p)
  BY <1>1 DEF Locked, Unlocked
<1> QED BY <1>1, <1>6, <1>8, <1>9, <1>10, <1>11, <1>12, <1>13, <1>14, <1>15, HolderStep DEF Sound

\* The saved images are those of the live bundle's services; a first activation saves no writer.
LEMMA SaveImagesStep == ASSUME IInv, NEW p \in Scripts, SaveImages(p) PROVE IInv'
<1> USE ReleaseAssumption
<1> DEFINE r      == script[p].release
           images == [s \in Services |-> IF s \in Offered(live) THEN running[s] ELSE None]
           new    == [record[r] EXCEPT !.state = "complete", !.current = current, !.images = images]
<1>1. script[p].pc = "images" /\ UNCHANGED <<live, running, marker, cron, checked, current>>
  BY DEF SaveImages, At, Host
<1>2. /\ r \in Releases /\ live # None
      /\ record[r].state # "absent" /\ record[r].deploy = live
  BY <1>1 DEF IInv, Sound, Named, Placed, Saved, Staging, Mine
<1>3. images \in Images
  BY DEF IInv, TypeOK, Images
<1> HIDE DEF images
<1>4. record[r] \in [state : {"bundle", "complete"}, deploy : Bundles, images : Images,
                     current : Bundles]
  BY <1>2 DEF IInv, TypeOK, Records, Absent
<1>5. /\ new \in Records /\ new.state # "absent" /\ new.deploy = live /\ new.current = current
      /\ new.images = images
  BY <1>2, <1>3, <1>4 DEF IInv, TypeOK, Records
<1>6. record' = [record EXCEPT ![r] = new]
  BY <1>2 DEF SaveImages, Deployed, images, IInv, TypeOK
<1> HIDE DEF new
<1>7. record' \in [Releases -> Records] /\ record'[r] = new
  BY <1>2, <1>5, <1>6 DEF IInv, TypeOK
<1>8. /\ script' \in [Scripts -> Invocations]
      /\ script'[p].pc = "stage" /\ script'[p].by = script[p].by
      /\ script'[p].release = r /\ script'[p].first = script[p].first
      /\ script'[p].incomplete = script[p].incomplete /\ script'[p].started = script[p].started
      /\ \A q \in Scripts : q # p => script'[q] = script[q]
  <2>1. Goto(p, "stage")
    BY DEF SaveImages
  <2> QED BY <2>1, GotoEffect DEF IInv, Staging
<1>9. TypeOK'
  BY <1>1, <1>7, <1>8 DEF IInv, TypeOK
<1>10. script[p].by = "deploy"
  BY <1>1 DEF IInv, Sound, Named, Undoing, TypeOK, Invocations
<1>11. ~marker => current = Legacy /\ \A w \in Writers : images[w] = None
  <2>1. ~marker => script[p].first
    BY <1>1, <1>10 DEF IInv, Sound, Flagged
  <2>2. ~marker => \A w \in Writers \cap Offered(live) : running[w] = None
    BY <1>1, <2>1 DEF IInv, Sound, Quiet, Staging
  <2>3. \A w \in Writers : w \in Services
    BY DEF Services
  <2>4. ~marker => current = Legacy
    BY DEF IInv, HostSound, CurrentVerified
  <2> QED BY <2>2, <2>3, <2>4 DEF images
<1>12. \A s \in Services : images[s] # None => s \in Offered(live)
  BY DEF images
<1>13. RecordSound'
  BY <1>1, <1>5, <1>6, <1>11, <1>12 DEF IInv, TypeOK, RecordSound, Offered
<1>14. HostSound'
  BY <1>1, HostKept DEF IInv
<1>15. Named(p)' /\ Flagged(p)'
  BY <1>1, <1>8, <1>10, FlagsKept DEF IInv, Unlocked
<1>16. Quiet(p)'
  BY <1>1, <1>8 DEF IInv, Sound, Quiet, Staging
<1>17. Placed(p)' /\ Restoring(p)'
  BY <1>1, <1>2, <1>8 DEF Placed, Restoring, Staging, Activated, Undoing
<1>18. Saved(p)'
  BY <1>1, <1>5, <1>7, <1>8 DEF IInv, Sound, Saved, Mine, Staging, Replacing, Activated, Unlocked
<1>19. Locked(p)
  BY <1>1 DEF Locked, Unlocked
<1> QED BY <1>1, <1>8, <1>9, <1>13, <1>14, <1>15, <1>16, <1>17, <1>18, <1>19, HolderStep DEF Sound

\* What Goto gives a deploying holder: its new pc, and its name and flags as they were.
LEMMA Advance ==
  ASSUME IInv, NEW p \in Scripts, NEW pc, Goto(p, pc),
         script[p].pc \in Staging \cup Replacing \cup Activated \cup Failing,
         pc \in Staging \cup Replacing \cup Activated \cup Failing \cup Undoing,
         marker => marker', checked => checked'
  PROVE  /\ script' \in [Scripts -> Invocations]
         /\ script'[p].pc = pc /\ script'[p].by = script[p].by
         /\ script'[p].release = script[p].release /\ script'[p].first = script[p].first
         /\ script'[p].incomplete = script[p].incomplete
         /\ script'[p].started = script[p].started
         /\ \A q \in Scripts : q # p => script'[q] = script[q]
         /\ script[p].by = "deploy" /\ script[p].release \in Releases
         /\ Named(p)' /\ Flagged(p)' /\ Locked(p)
<1>1. /\ script' \in [Scripts -> Invocations]
      /\ script'[p].pc = pc /\ script'[p].by = script[p].by
      /\ script'[p].release = script[p].release /\ script'[p].first = script[p].first
      /\ script'[p].incomplete = script[p].incomplete
      /\ script'[p].started = script[p].started
      /\ \A q \in Scripts : q # p => script'[q] = script[q]
  BY GotoEffect DEF IInv
<1>2. script[p].by # "rollback" /\ script[p].release \in Releases
  BY DEF IInv, Sound, Named, Staging, Replacing, Activated, Failing, Undoing
<1>3. script[p].by = "deploy"
  BY <1>2 DEF IInv, TypeOK, Invocations
<1>4. script[p].pc \notin Unlocked
  BY DEF Staging, Replacing, Activated, Failing, Unlocked
<1>5. Named(p)' /\ Flagged(p)'
  BY <1>1, <1>2, <1>4, FlagsKept DEF IInv
<1> QED BY <1>1, <1>2, <1>3, <1>4, <1>5 DEF Locked

\* A pc is in one phase of the scripts.
LEMMA Phases ==
  /\ Staging \cap (Replacing \cup Activated \cup Failing \cup Undoing \cup Unlocked) = {}
  /\ Replacing \cap (Activated \cup Failing \cup Undoing \cup Unlocked) = {}
  /\ Activated \cap (Failing \cup Undoing \cup Unlocked) = {}
  /\ Failing \cap (Undoing \cup Unlocked) = {}
  /\ Undoing \cap Unlocked = {}
BY DEF Staging, Replacing, Activated, Failing, Undoing, Unlocked

\* deployment_started is set with the record complete.
LEMMA StageStep == ASSUME IInv, NEW p \in Scripts, Stage(p) PROVE IInv'
<1>1. script[p].pc = "stage" /\ UNCHANGED <<Host, record>>
  BY DEF Stage, At
<1>2. /\ script' \in [Scripts -> Invocations]
      /\ script'[p].pc = "remove" /\ script'[p].by = script[p].by
      /\ script'[p].release = script[p].release /\ script'[p].first = script[p].first
      /\ script'[p].incomplete = script[p].incomplete
      /\ \A q \in Scripts : q # p => script'[q] = script[q]
  BY ZenonT(40) DEF Stage, IInv, TypeOK, Invocations, Replacing
<1>3. script[p].by # "rollback"
  BY <1>1 DEF IInv, Sound, Named, Undoing
<1>4. UNCHANGED <<marker, checked, cron, running, live, record>>
  BY <1>1 DEF Host
<1>5. Named(p)' /\ Flagged(p)' /\ Locked(p)
  BY <1>1, <1>2, <1>3, <1>4, FlagsKept DEF IInv, Unlocked, Locked
<1>6. Quiet(p)'
  BY <1>1, <1>2, <1>4 DEF IInv, Sound, Quiet, Staging, Replacing
<1>7. Placed(p)' /\ Restoring(p)'
  BY <1>2 DEF Placed, Restoring, Staging, Activated, Undoing
<1>8. Saved(p)'
  BY <1>1, <1>2, <1>4 DEF IInv, Sound, Saved, Mine, Replacing, Staging, Activated, Unlocked
<1> QED BY <1>1, <1>2, <1>5, <1>6, <1>7, <1>8, QuietStep DEF Sound

\* rm -rf live, and the new bundle in its place.
LEMMA ReplaceSteps ==
  ASSUME IInv, NEW p \in Scripts, RemoveLive(p) \/ InstallLive(p)
  PROVE  IInv'
<1> DEFINE pc == IF RemoveLive(p) THEN "install" ELSE "agent"
<1>1. /\ Goto(p, pc) /\ pc \in {"install", "agent"}
      /\ UNCHANGED <<running, record, marker, cron, checked, current>>
      /\ script[p].pc \in {"remove", "install"}
      /\ live' \in {None, script[p].release}
      /\ pc = "agent" => live' = script[p].release
  BY DEF RemoveLive, InstallLive, At, Deployed
<1> HIDE DEF pc
<1>2. script[p].pc \in Replacing /\ pc \in Replacing
  BY <1>1 DEF Replacing
<1>3. /\ script' \in [Scripts -> Invocations]
      /\ script'[p].pc = pc /\ script'[p].by = script[p].by
      /\ script'[p].release = script[p].release /\ script'[p].first = script[p].first
      /\ script'[p].started = script[p].started
      /\ \A q \in Scripts : q # p => script'[q] = script[q]
      /\ script[p].release \in Releases /\ Named(p)' /\ Flagged(p)' /\ Locked(p)
  BY <1>1, <1>2, Advance
<1>4. TypeOK'
  BY <1>1, <1>3 DEF IInv, TypeOK, Bundles
<1>5. HostSound' /\ RecordSound'
  BY <1>1, HostKept, RecordKept DEF IInv
<1>6. Quiet(p)'
  BY <1>1, <1>2, <1>3 DEF IInv, Sound, Quiet
<1>7. Placed(p)' /\ Restoring(p)'
  BY <1>1, <1>3 DEF Placed, Restoring, Staging, Activated, Undoing
<1>8. Saved(p)'
  BY <1>1, <1>2, <1>3 DEF IInv, Sound, Saved, Mine, Replacing, Staging, Activated, Unlocked
<1> QED BY <1>1, <1>3, <1>4, <1>5, <1>6, <1>7, <1>8, HolderStep DEF Sound

\* A deploy starts services of its own release: before the marker only the agent and the API.
LEMMA StartServiceStep ==
  ASSUME IInv, NEW p \in Scripts, NEW s \in Services, StartService(p, s)
  PROVE  IInv'
<1>1. /\ script[p].pc = s /\ running' = [running EXCEPT ![s] = live]
      /\ Goto(p, After(s)) /\ UNCHANGED <<live, record, marker, cron, checked, current>>
  BY DEF StartService, At, Files, Recreated
<1>2. /\ s \in {"agent", "api"} => After(s) \in {"api", "mark"} /\ s \in Replacing
      /\ s \in Writers => After(s) \in {"ingest-india", "ingest-us", "verify"} /\ s \in Activated
  BY DEF After, Writers, Replacing, Activated
<1>3. s \in {"agent", "api"} \/ s \in Writers
  BY DEF Services
<1>4. script[p].pc \in Replacing \cup Activated /\ After(s) \in Replacing \cup Activated
  BY <1>1, <1>2, <1>3 DEF Replacing, Activated
<1>5. /\ script' \in [Scripts -> Invocations]
      /\ script'[p].pc = After(s) /\ script'[p].by = script[p].by
      /\ script'[p].release = script[p].release /\ script'[p].first = script[p].first
      /\ script'[p].started = script[p].started
      /\ \A q \in Scripts : q # p => script'[q] = script[q]
      /\ script[p].release \in Releases /\ Named(p)' /\ Flagged(p)' /\ Locked(p)
  BY <1>1, <1>4, Advance
<1>6. live = script[p].release /\ live \in Releases /\ live # Legacy
  <2>1. script[p].pc \in {"agent", "api", "mark"} \cup Activated
    BY <1>1, <1>2, <1>3
  <2> QED BY <1>5, <2>1, ReleaseAssumption DEF IInv, Sound, Placed
<1>7. s \in Writers => marker
  BY <1>1, <1>2 DEF IInv, Sound, Placed
<1>8. TypeOK'
  BY <1>1, <1>5, <1>6 DEF IInv, TypeOK, Images, Bundles
<1>9. \A t \in Services : running'[t] = Legacy => running[t] = Legacy
  BY <1>1, <1>6 DEF IInv, TypeOK, Images
<1>10. \A w \in Writers : w \in Services
  BY DEF Services
<1>11. HostSound'
  BY <1>1, <1>9, <1>10 DEF IInv, HostSound, NoLegacyWriter, CronAfterWrites, CurrentVerified
<1>12. RecordSound'
  BY <1>1, RecordKept DEF IInv
<1>13. Quiet(p)'
  <2>1. After(s) \notin {"save", "images"}
    BY <1>2, <1>3
  <2>2. script'[p].pc \in Replacing => script[p].pc \in Replacing
    BY <1>1, <1>2, <1>3, <1>5, Phases DEF Replacing
  <2>3. After(s) \notin Staging
    BY <1>4, Phases
  <2> QED BY <1>1, <1>5, <1>9, <1>10, <2>1, <2>2, <2>3 DEF IInv, Sound, Quiet
<1>14. Placed(p)'
  <2>1. After(s) \in Activated => s \in Writers
    BY <1>2, <1>3 DEF Activated
  <2>2. After(s) \notin Staging /\ After(s) \notin {"cron", "current"}
    BY <1>2, <1>3 DEF Staging
  <2> QED BY <1>1, <1>5, <1>6, <1>7, <2>1, <2>2 DEF Placed
<1>15. Saved(p)' /\ Restoring(p)'
  <2>1. After(s) \notin Undoing \cup Staging \cup Unlocked /\ After(s) \notin {"images", "error"}
    BY <1>2, <1>3 DEF Undoing, Staging, Unlocked
  <2>2. Mine(p)' = Mine(p)
    BY <1>1, <1>5 DEF Mine
  <2>3. Mine(p).state # "absent"
    BY <1>4 DEF IInv, Sound, Saved
  <2>4. {"undo-agent", "undo-services", "undo-current", "resume", "restored"} \subseteq Undoing
    BY DEF Undoing
  <2> QED BY <1>5, <2>1, <2>2, <2>3, <2>4 DEF Saved, Restoring
<1> QED BY <1>1, <1>5, <1>8, <1>11, <1>12, <1>13, <1>14, <1>15, HolderStep DEF Sound

\* The marker: a first activation found collection paused, a later one finds the marker there.
LEMMA MarkStep == ASSUME IInv, NEW p \in Scripts, Mark(p) PROVE IInv'
<1>1. /\ script[p].pc = "mark" /\ marker' = (marker \/ script[p].first)
      /\ Goto(p, "universe-us")
      /\ UNCHANGED <<live, running, record, cron, checked, current>>
  BY DEF Mark, At
<1>2. script[p].pc \in Replacing /\ "universe-us" \in Activated
  BY <1>1 DEF Replacing, Activated
<1>3. /\ script' \in [Scripts -> Invocations]
      /\ script'[p].pc = "universe-us" /\ script'[p].by = script[p].by
      /\ script'[p].release = script[p].release /\ script'[p].first = script[p].first
      /\ script'[p].started = script[p].started
      /\ \A q \in Scripts : q # p => script'[q] = script[q]
      /\ script[p].by = "deploy" /\ Named(p)' /\ Flagged(p)' /\ Locked(p)
  BY <1>1, <1>2, Advance
<1>4. script[p].first \in BOOLEAN /\ marker \in BOOLEAN
  BY DEF IInv, TypeOK, Invocations
<1>5. marker' \in BOOLEAN
  BY <1>1, <1>4
<1>6. TypeOK'
  BY <1>1, <1>3, <1>5 DEF IInv, TypeOK
<1>7. marker'
  BY <1>1, <1>3 DEF IInv, Sound, Flagged
<1>8. script[p].first => ~cron /\ \A w \in Writers : running[w] # Legacy
  BY <1>1, <1>2 DEF IInv, Sound, Quiet
<1>9. NoLegacyWriter'
  BY <1>1, <1>7, <1>8 DEF IInv, HostSound, NoLegacyWriter
<1>10. CronAfterWrites'
  BY <1>1, <1>7, <1>8 DEF IInv, HostSound, CronAfterWrites
<1>11. HostSound'
  BY <1>1, <1>7, <1>9, <1>10 DEF IInv, HostSound, CurrentVerified
<1>12. RecordSound'
  BY <1>1, <1>7 DEF IInv, RecordSound
<1>13. Quiet(p)' /\ Placed(p)' /\ Restoring(p)'
  BY <1>1, <1>2, <1>3, <1>7 DEF IInv, Sound, Quiet, Placed, Restoring, Staging, Replacing,
     Activated, Undoing
<1>14. Saved(p)'
  BY <1>1, <1>2, <1>3 DEF IInv, Sound, Saved, Mine, Replacing, Staging, Unlocked
<1> QED BY <1>1, <1>3, <1>6, <1>11, <1>12, <1>13, <1>14, HolderStep DEF Sound

\* verify_current moves on.
LEMMA VerifyCurrentStep == ASSUME IInv, NEW p \in Scripts, VerifyCurrent(p) PROVE IInv'
<1>1. script[p].pc = "verify" /\ Goto(p, "writes") /\ UNCHANGED <<Host, record>>
  BY DEF VerifyCurrent, At
<1>2. script[p].pc \in Activated /\ "writes" \in Activated
  BY <1>1 DEF Activated
<1>3. UNCHANGED <<live, running, record, marker, cron, checked, current>>
  BY <1>1 DEF Host
<1>4. /\ script' \in [Scripts -> Invocations]
      /\ script'[p].pc = "writes"
      /\ script'[p].release = script[p].release
      /\ \A q \in Scripts : q # p => script'[q] = script[q]
      /\ Named(p)' /\ Flagged(p)' /\ Locked(p)
  BY <1>1, <1>2, <1>3, Advance
<1>5. Quiet(p)' /\ Placed(p)' /\ Restoring(p)'
  BY <1>2, <1>3, <1>4 DEF IInv, Sound, Quiet, Placed, Restoring, Staging, Replacing,
     Activated, Undoing
<1>6. Saved(p)'
  BY <1>2, <1>3, <1>4 DEF IInv, Sound, Saved, Mine, Staging, Unlocked
<1> QED BY <1>1, <1>4, <1>5, <1>6, QuietStep DEF Sound

\* An incomplete activation has its writes checked, a complete one had them checked before.
LEMMA VerifyWritesStep == ASSUME IInv, NEW p \in Scripts, VerifyWrites(p) PROVE IInv'
<1>1. /\ script[p].pc = "writes" /\ checked' = (checked \/ script[p].incomplete)
      /\ Goto(p, "cron")
      /\ UNCHANGED <<live, running, record, marker, cron, current>>
  BY DEF VerifyWrites, At
<1>2. script[p].pc \in Activated /\ "cron" \in Activated
  BY <1>1 DEF Activated
<1>3. /\ script' \in [Scripts -> Invocations]
      /\ script'[p].pc = "cron"
      /\ script'[p].release = script[p].release
      /\ \A q \in Scripts : q # p => script'[q] = script[q]
      /\ script[p].by = "deploy" /\ Named(p)' /\ Flagged(p)' /\ Locked(p)
  BY <1>1, <1>2, Advance
<1>4. script[p].incomplete \in BOOLEAN /\ checked \in BOOLEAN
  BY DEF IInv, TypeOK, Invocations
<1>5. checked' \in BOOLEAN
  BY <1>1, <1>4
<1>6. checked'
  BY <1>1, <1>3 DEF IInv, Sound, Flagged
<1>7. TypeOK'
  BY <1>1, <1>3, <1>5 DEF IInv, TypeOK
<1>8. HostSound'
  BY <1>1, <1>6 DEF IInv, HostSound, NoLegacyWriter, CronAfterWrites, CurrentVerified
<1>9. RecordSound'
  BY <1>1, RecordKept DEF IInv
<1>10. Quiet(p)' /\ Placed(p)' /\ Restoring(p)'
  BY <1>1, <1>2, <1>3, <1>6 DEF IInv, Sound, Quiet, Placed, Restoring, Staging, Replacing,
     Activated, Undoing
<1>11. Saved(p)'
  BY <1>1, <1>2, <1>3 DEF IInv, Sound, Saved, Mine, Staging, Unlocked
<1> QED BY <1>1, <1>3, <1>7, <1>8, <1>9, <1>10, <1>11, HolderStep DEF Sound

\* Cron is installed over checked writes.
LEMMA InstallCronStep == ASSUME IInv, NEW p \in Scripts, InstallCron(p) PROVE IInv'
<1>1. /\ script[p].pc = "cron" /\ cron' = TRUE /\ Goto(p, "current")
      /\ UNCHANGED <<live, running, record, marker, checked, current>>
  BY DEF InstallCron, At
<1>2. script[p].pc \in Activated /\ "current" \in Activated
  BY <1>1 DEF Activated
<1>3. /\ script' \in [Scripts -> Invocations]
      /\ script'[p].pc = "current"
      /\ script'[p].release = script[p].release
      /\ \A q \in Scripts : q # p => script'[q] = script[q]
      /\ Named(p)' /\ Flagged(p)' /\ Locked(p)
  BY <1>1, <1>2, Advance
<1>4. checked /\ marker
  BY <1>1, <1>2 DEF IInv, Sound, Placed
<1>5. TypeOK'
  BY <1>1, <1>3 DEF IInv, TypeOK
<1>6. HostSound'
  BY <1>1, <1>4 DEF IInv, HostSound, NoLegacyWriter, CronAfterWrites, CurrentVerified
<1>7. RecordSound'
  BY <1>1, RecordKept DEF IInv
<1>8. Quiet(p)' /\ Placed(p)' /\ Restoring(p)'
  BY <1>1, <1>2, <1>3, <1>4 DEF IInv, Sound, Quiet, Placed, Restoring, Staging, Replacing,
     Activated, Undoing
<1>9. Saved(p)'
  BY <1>1, <1>2, <1>3 DEF IInv, Sound, Saved, Mine, Staging, Unlocked
<1> QED BY <1>1, <1>3, <1>5, <1>6, <1>7, <1>8, <1>9, HolderStep DEF Sound

\* A step that ends the holder's run over a host that stays sound.
LEMMA HolderExit ==
  ASSUME IInv, NEW p \in Scripts, Locked(p), Exit(p), marker => marker', checked => checked',
         UNCHANGED <<live, marker, checked>>, running' \in Images,
         record' \in [Releases -> Records], cron' \in BOOLEAN, current' \in Bundles,
         HostSound', RecordSound'
  PROVE  IInv'
<1>1. /\ script' \in [Scripts -> Invocations] /\ script'[p] = Idle
      /\ \A q \in Scripts : q # p => script'[q] = script[q]
  BY ExitEffect DEF IInv
<1>2. TypeOK'
  BY <1>1 DEF IInv, TypeOK
<1> QED BY <1>1, <1>2, IdleSound, HolderStep

\* The release becomes the current one.
LEMMA SucceedStep == ASSUME IInv, NEW p \in Scripts, Succeed(p) PROVE IInv'
<1>1. /\ script[p].pc = "current" /\ current' = script[p].release /\ Exit(p)
      /\ UNCHANGED <<live, running, record, marker, cron, checked>>
  BY DEF Succeed, At, Deployed
<1>2. script[p].pc \in Activated
  BY <1>1 DEF Activated
<1>3. checked /\ marker /\ script[p].release \in Releases
  BY <1>1, <1>2 DEF IInv, Sound, Placed, Named
<1>4. HostSound'
  BY <1>1, <1>3 DEF IInv, HostSound, NoLegacyWriter, CronAfterWrites, CurrentVerified
<1>5. RecordSound'
  BY <1>1, RecordKept DEF IInv
<1>6. Locked(p)
  BY <1>2, Phases DEF Locked
<1> QED BY <1>1, <1>3, <1>4, <1>5, <1>6, HolderExit DEF IInv, TypeOK, Bundles

-----------------------------------------------------------------------------
(* on_error. *)

\* Stopping containers never brings a legacy writer back.
LEMMA StoppedHost ==
  ASSUME HostSound, UNCHANGED <<marker, checked, current>>, cron' => cron,
         \A s \in Services : running'[s] = running[s] \/ running'[s] = None
  PROVE  HostSound'
<1>1. \A s \in Services : running'[s] = Legacy => running[s] = Legacy
  BY ReleaseAssumption
<1>2. \A w \in Writers : w \in Services
  BY DEF Services
<1> QED BY <1>1, <1>2 DEF HostSound, NoLegacyWriter, CronAfterWrites, CurrentVerified

\* A failure keeps what the handler relies on.
LEMMA StepFailsStep == ASSUME IInv, NEW p \in Scripts, StepFails(p) PROVE IInv'
<1>1. /\ script[p].pc \in (Staging \ {"check"}) \cup Replacing \cup Activated
      /\ Goto(p, "error") /\ UNCHANGED <<live, record, marker, cron, checked, current>>
      /\ \/ UNCHANGED running
         \/ /\ script[p].pc \in Services
            /\ running' = [running EXCEPT ![script[p].pc] = None]
  BY DEF StepFails, Files
<1>2. "error" \in Failing
  BY DEF Failing
<1>3. /\ script' \in [Scripts -> Invocations]
      /\ script'[p].pc = "error" /\ script'[p].release = script[p].release
      /\ script'[p].started = script[p].started
      /\ \A q \in Scripts : q # p => script'[q] = script[q]
      /\ Named(p)' /\ Flagged(p)' /\ Locked(p)
  BY <1>1, <1>2, Advance
<1>4. /\ running' \in Images
      /\ \A s \in Services : running'[s] = running[s] \/ running'[s] = None
  BY <1>1 DEF IInv, TypeOK, Images
<1>5. TypeOK'
  BY <1>1, <1>3, <1>4 DEF IInv, TypeOK
<1>6. HostSound'
  BY <1>1, <1>4, StoppedHost DEF IInv
<1>7. RecordSound'
  BY <1>1, RecordKept DEF IInv
<1>8. Quiet(p)' /\ Placed(p)' /\ Restoring(p)'
  BY <1>3 DEF Quiet, Placed, Restoring, Staging, Replacing, Activated, Undoing
<1>9. Saved(p)'
  <2>1. script[p].started => script[p].pc \notin Staging
    BY DEF IInv, Sound, Saved
  <2>2. script[p].started => Mine(p).state # "absent"
    BY <1>1, <2>1 DEF IInv, Sound, Saved
  <2> QED BY <1>1, <1>3, <2>2 DEF Saved, Mine, Staging, Replacing, Activated, Unlocked
<1> QED BY <1>1, <1>3, <1>5, <1>6, <1>7, <1>8, <1>9, HolderStep DEF Sound

\* Discarding a record before anything was deployed.
LEMMA DiscardRecordStep == ASSUME IInv, NEW p \in Scripts, DiscardRecord(p) PROVE IInv'
<1>1. /\ script[p].pc = "error" /\ Exit(p)
      /\ record' = [record EXCEPT ![script[p].release] = Absent]
      /\ UNCHANGED <<live, running, marker, cron, checked, current>>
  BY DEF DiscardRecord, At, Host, Deployed
<1>2. Absent \in Records /\ Absent.state = "absent" /\ Absent.current = Legacy
      /\ \A s \in Services : Absent.images[s] = None
  BY DEF Records, Absent
<1>3. record' \in [Releases -> Records]
  BY <1>1, <1>2 DEF IInv, TypeOK
<1>4. HostSound'
  BY <1>1, HostKept DEF IInv
<1>5. RecordSound'
  <2>1. \A w \in Writers : w \in Services
    BY DEF Services
  <2> HIDE DEF Absent
  <2> QED BY <1>1, <1>2, <2>1 DEF IInv, TypeOK, RecordSound
<1>6. Locked(p)
  BY <1>1 DEF Locked, Unlocked
<1> QED BY <1>1, <1>3, <1>4, <1>5, <1>6, HolderExit DEF IInv, TypeOK

\* Stopping writers.
LEMMA StopWritersStep == ASSUME IInv, NEW p \in Scripts, StopWriters(p) PROVE IInv'
<1>1. /\ script[p].pc = "error" /\ Goto(p, "unschedule") /\ marker
      /\ UNCHANGED <<live, record, marker, cron, checked, current>>
  BY DEF StopWriters, At, Files
<1>2. script[p].pc \in Failing /\ "unschedule" \in Failing
  BY <1>1 DEF Failing
<1>3. /\ script' \in [Scripts -> Invocations]
      /\ script'[p].pc = "unschedule"
      /\ \A q \in Scripts : q # p => script'[q] = script[q]
      /\ Named(p)' /\ Flagged(p)' /\ Locked(p)
  BY <1>1, <1>2, Advance
<1>4. /\ running' \in Images
      /\ \A s \in Services : running'[s] = running[s] \/ running'[s] = None
  BY DEF StopWriters, IInv, TypeOK, Images
<1>5. TypeOK'
  BY <1>1, <1>3, <1>4 DEF IInv, TypeOK
<1>6. HostSound'
  BY <1>1, <1>4, StoppedHost DEF IInv
<1>7. RecordSound'
  BY <1>1, RecordKept DEF IInv
<1>8. Quiet(p)' /\ Placed(p)' /\ Restoring(p)' /\ Saved(p)'
  BY <1>3 DEF Quiet, Placed, Restoring, Saved, Staging, Replacing, Activated, Undoing, Unlocked
<1> QED BY <1>1, <1>3, <1>5, <1>6, <1>7, <1>8, HolderStep DEF Sound

\* Removing cron, if the activation was never completed.
LEMMA UnscheduleStep == ASSUME IInv, NEW p \in Scripts, Unschedule(p) PROVE IInv'
<1>1. /\ script[p].pc = "unschedule" /\ Exit(p)
      /\ cron' = (cron /\ ~script[p].incomplete)
      /\ UNCHANGED <<live, running, record, marker, checked, current>>
  BY DEF Unschedule, At
<1>2. cron' \in BOOLEAN /\ (cron' => cron)
  <2>1. cron \in BOOLEAN /\ script[p].incomplete \in BOOLEAN
    BY DEF IInv, TypeOK, Invocations
  <2> QED BY <1>1, <2>1
<1>3. HostSound'
  BY <1>1, <1>2 DEF IInv, HostSound, NoLegacyWriter, CronAfterWrites, CurrentVerified
<1>4. RecordSound'
  BY <1>1, RecordKept DEF IInv
<1>5. Locked(p)
  BY <1>1 DEF Locked, Unlocked
<1> QED BY <1>1, <1>2, <1>3, <1>4, <1>5, HolderExit DEF IInv, TypeOK

\* The rollback begins before the activation, with its record.
LEMMA RollBackStep == ASSUME IInv, NEW p \in Scripts, RollBack(p) PROVE IInv'
<1>1. /\ script[p].pc = "error" /\ script[p].started /\ ~marker
      /\ Goto(p, "undo-stop") /\ UNCHANGED <<Host, record>>
  BY DEF RollBack, At
<1>2. script[p].pc \in Failing /\ "undo-stop" \in Undoing
  BY <1>1 DEF Failing, Undoing
<1>3. UNCHANGED <<live, running, record, marker, cron, checked, current>>
  BY <1>1 DEF Host
<1>4. /\ script' \in [Scripts -> Invocations]
      /\ script'[p].pc = "undo-stop" /\ script'[p].release = script[p].release
      /\ \A q \in Scripts : q # p => script'[q] = script[q]
      /\ Named(p)' /\ Flagged(p)' /\ Locked(p)
  BY <1>1, <1>2, <1>3, Advance
<1>5. Quiet(p)' /\ Placed(p)' /\ Saved(p)'
  BY <1>4 DEF Quiet, Placed, Saved, Staging, Replacing, Activated, Unlocked
<1>6. Restoring(p)'
  BY <1>1, <1>3, <1>4 DEF IInv, Sound, Saved, Restoring, Mine
<1> QED BY <1>1, <1>4, <1>5, <1>6, QuietStep DEF Sound

-----------------------------------------------------------------------------
(* Restoring. *)

\* What Goto gives a restoring holder.
LEMMA Retreat ==
  ASSUME IInv, NEW p \in Scripts, NEW pc, Goto(p, pc),
         script[p].pc \in Undoing, pc \in Undoing, UNCHANGED <<marker, checked>>
  PROVE  /\ script' \in [Scripts -> Invocations]
         /\ script'[p].pc = pc /\ script'[p].by = script[p].by
         /\ script'[p].release = script[p].release /\ script'[p].first = script[p].first
         /\ script'[p].started = script[p].started /\ script'[p].todo = script[p].todo
         /\ \A q \in Scripts : q # p => script'[q] = script[q]
         /\ Named(p)' /\ Flagged(p)' /\ Locked(p)
         /\ Quiet(p)' /\ Placed(p)' /\ Saved(p)'
<1>1. /\ script' \in [Scripts -> Invocations]
      /\ script'[p].pc = pc /\ script'[p].by = script[p].by
      /\ script'[p].release = script[p].release /\ script'[p].first = script[p].first
      /\ script'[p].incomplete = script[p].incomplete
      /\ script'[p].started = script[p].started /\ script'[p].todo = script[p].todo
      /\ \A q \in Scripts : q # p => script'[q] = script[q]
  BY GotoEffect DEF IInv
<1>2. script[p].pc \notin Unlocked
  BY Phases
<1>3. Named(p)' /\ Flagged(p)'
  BY <1>1, <1>2, FlagsKept DEF IInv
<1>4. Quiet(p)' /\ Placed(p)' /\ Saved(p)'
  BY <1>1, Phases DEF Quiet, Placed, Saved, Undoing
<1> QED BY <1>1, <1>2, <1>3, <1>4 DEF Locked

\* The manual rollback begins before the activation, with its record.
LEMMA UndoCheckStep == ASSUME IInv, NEW p \in Scripts, UndoCheck(p) PROVE IInv'
<1>1. CASE marker \/ live = None \/ Mine(p).state = "absent"
  BY <1>1, EndingStep DEF UndoCheck
<1>2. CASE ~(marker \/ live = None \/ Mine(p).state = "absent")
  <2>1. Goto(p, "undo-stop") /\ UNCHANGED <<Host, record>> /\ script[p].pc = "undo-check"
    BY <1>2 DEF UndoCheck, At
  <2>2. UNCHANGED <<live, running, record, marker, cron, checked, current>>
    BY <2>1 DEF Host
  <2>3. script[p].pc \in Undoing /\ "undo-stop" \in Undoing
    BY <2>1 DEF Undoing
  <2>4. /\ script' \in [Scripts -> Invocations]
        /\ script'[p].pc = "undo-stop" /\ script'[p].release = script[p].release
        /\ \A q \in Scripts : q # p => script'[q] = script[q]
        /\ Named(p)' /\ Flagged(p)' /\ Locked(p)
        /\ Quiet(p)' /\ Placed(p)' /\ Saved(p)'
    BY <2>1, <2>2, <2>3, Retreat
  <2>5. Restoring(p)'
    BY <1>2, <2>2, <2>4 DEF Restoring, Mine
  <2> QED BY <2>1, <2>4, <2>5, QuietStep DEF Sound
<1> QED BY <1>1, <1>2

\* Services the undone release introduced are stopped.
LEMMA UndoStopStep == ASSUME IInv, NEW p \in Scripts, UndoStop(p) PROVE IInv'
<1>1. /\ script[p].pc = "undo-stop" /\ Goto(p, "undo-remove")
      /\ UNCHANGED <<live, record, marker, cron, checked, current>>
  BY DEF UndoStop, At, Files
<1>2. script[p].pc \in Undoing /\ script[p].pc # "undo-check" /\ "undo-remove" \in Undoing
  BY <1>1 DEF Undoing
<1>3. /\ script' \in [Scripts -> Invocations]
      /\ script'[p].pc = "undo-remove" /\ script'[p].release = script[p].release
      /\ \A q \in Scripts : q # p => script'[q] = script[q]
      /\ Named(p)' /\ Flagged(p)' /\ Locked(p)
      /\ Quiet(p)' /\ Placed(p)' /\ Saved(p)'
  BY <1>1, <1>2, Retreat
<1>4. /\ running' \in Images
      /\ \A s \in Services : running'[s] = running[s] \/ running'[s] = None
  BY DEF UndoStop, IInv, TypeOK, Images
<1>5. TypeOK'
  BY <1>1, <1>3, <1>4 DEF IInv, TypeOK
<1>6. HostSound' /\ RecordSound'
  BY <1>1, <1>4, StoppedHost, RecordKept DEF IInv
<1>7. Restoring(p)'
  BY <1>1, <1>2, <1>3 DEF IInv, Sound, Restoring, Mine
<1> QED BY <1>1, <1>3, <1>5, <1>6, <1>7, HolderStep DEF Sound

\* The live bundle is replaced by the saved one.
LEMMA UndoReplaceSteps ==
  ASSUME IInv, NEW p \in Scripts, UndoRemove(p) \/ UndoCopy(p)
  PROVE  IInv'
<1> DEFINE pc == IF UndoRemove(p) THEN "undo-copy" ELSE "undo-agent"
<1>1. /\ Goto(p, pc) /\ pc \in {"undo-copy", "undo-agent"}
      /\ UNCHANGED <<running, record, marker, cron, checked, current>>
      /\ script[p].pc \in {"undo-remove", "undo-copy"}
      /\ live' \in {None, Mine(p).deploy}
      /\ pc = "undo-agent" => live' = Mine(p).deploy
  BY DEF UndoRemove, UndoCopy, At
<1> HIDE DEF pc
<1>2. script[p].pc \in Undoing \ {"undo-check"} /\ pc \in Undoing \ {"undo-check"}
  BY <1>1 DEF Undoing
<1>3. /\ script' \in [Scripts -> Invocations]
      /\ script'[p].pc = pc /\ script'[p].release = script[p].release
      /\ \A q \in Scripts : q # p => script'[q] = script[q]
      /\ Named(p)' /\ Flagged(p)' /\ Locked(p)
      /\ Quiet(p)' /\ Placed(p)' /\ Saved(p)'
  BY <1>1, <1>2, Retreat
<1>4. script[p].release \in Releases /\ Mine(p).state # "absent" /\ ~marker
  BY <1>2 DEF IInv, Sound, Named, Restoring, Undoing
<1>5. Mine(p).deploy \in Bundles
  BY <1>4 DEF IInv, TypeOK, Records, Mine, Absent
<1>6. TypeOK'
  BY <1>1, <1>3, <1>5 DEF IInv, TypeOK
<1>7. HostSound' /\ RecordSound'
  BY <1>1, HostKept, RecordKept DEF IInv
<1>8. Restoring(p)'
  BY <1>1, <1>3, <1>4 DEF Restoring, Mine
<1> QED BY <1>1, <1>3, <1>6, <1>7, <1>8, HolderStep DEF Sound

\* Before the activation, recreating a service that its bundle offers keeps the host sound.
LEMMA RecreatedHost ==
  ASSUME IInv, NEW s \in Services, live \in Bundles, s \in Offered(live), ~marker,
         running' = Recreated(s), UNCHANGED <<marker, cron, checked, current>>
  PROVE  HostSound' /\ running' \in Images
<1>1. running' = [running EXCEPT ![s] = live]
  BY DEF Recreated
<1>2. live = Legacy => s \in LegacyServices
  BY DEF Offered
<1>3. \A t \in Services : running'[t] = Legacy => t \in LegacyServices
  BY <1>1, <1>2 DEF IInv, TypeOK, HostSound, Images
<1>4. NoLegacyWriter' /\ CronAfterWrites' /\ CurrentVerified'
  BY DEF IInv, HostSound, NoLegacyWriter, CronAfterWrites, CurrentVerified
<1> QED BY <1>1, <1>3, <1>4 DEF HostSound, IInv, TypeOK, Images

\* What a restoring holder past the copy knows of its record.
LEMMA RestoringFacts ==
  ASSUME IInv, NEW p \in Scripts,
         script[p].pc \in {"undo-agent", "undo-services", "undo-current", "resume", "restored"}
  PROVE  /\ ~marker /\ live = Mine(p).deploy /\ live \in Bundles
         /\ script[p].release \in Releases /\ Mine(p).state # "absent"
         /\ \A s \in Services : Mine(p).images[s] # None => s \in Offered(live)
         /\ \A w \in Writers : Mine(p).images[w] = None
         /\ Mine(p).current = Legacy
<1>1. script[p].pc \in Undoing \ {"undo-check"} /\ script[p].pc # "idle"
  BY DEF Undoing
<1>2. /\ ~marker /\ live = Mine(p).deploy
      /\ script[p].release \in Releases /\ Mine(p).state # "absent"
  BY <1>1 DEF IInv, Sound, Named, Restoring
<1>3. live \in Bundles
  BY <1>2 DEF IInv, TypeOK, Records, Mine, Absent
<1> QED BY <1>2, <1>3 DEF IInv, RecordSound, Mine

\* The agent runs the image it ran before, or the rollback ends.
LEMMA UndoAgentStep == ASSUME IInv, NEW p \in Scripts, UndoAgent(p) PROVE IInv'
<1> DEFINE recorded == {s \in Services : Mine(p).images[s] # None}
           passed   == "agent" \in recorded => AsRecorded(p, "agent")
           new      == [script[p] EXCEPT !.pc = "undo-services", !.todo = recorded \ {"agent"}]
<1>1. /\ script[p].pc = "undo-agent" /\ UNCHANGED <<live, record, marker, cron, checked, current>>
      /\ running' = Recreated("agent") \/ UNCHANGED running
      /\ IF passed THEN script' = [script EXCEPT ![p] = new] ELSE Exit(p)
  BY DEF UndoAgent, At, Files, IInv, TypeOK
<1> HIDE DEF passed
<1>2. /\ ~marker /\ live = Mine(p).deploy /\ live \in Bundles
      /\ script[p].release \in Releases /\ Mine(p).state # "absent"
  BY <1>1, RestoringFacts
<1>3. "agent" \in Services /\ "agent" \in Offered(live)
  BY ReleaseAssumption DEF Services, Offered
<1>4. HostSound' /\ running' \in Images
  <2>1. CASE running' = Recreated("agent")
    BY <1>1, <1>2, <1>3, <2>1, RecreatedHost
  <2>2. CASE UNCHANGED running
    BY <1>1, <2>2, HostKept DEF IInv, TypeOK
  <2> QED BY <1>1, <2>1, <2>2
<1>5. RecordSound'
  BY <1>1, RecordKept DEF IInv
<1>6. Locked(p)
  BY <1>1 DEF Locked, Unlocked
<1>7. CASE ~passed
  <2>1. Exit(p)
    BY <1>1, <1>7
  <2> QED BY <1>1, <1>4, <1>5, <1>6, <2>1, HolderExit DEF IInv, TypeOK
<1>8. CASE passed
  <2>1. /\ new \in Invocations /\ new.pc = "undo-services" /\ new.by = script[p].by
        /\ new.release = script[p].release /\ new.first = script[p].first
        /\ new.incomplete = script[p].incomplete /\ new.started = script[p].started
        /\ new.todo = recorded \ {"agent"}
    BY DEF IInv, TypeOK, Invocations, Undoing
  <2> HIDE DEF new
  <2>2. /\ script' \in [Scripts -> Invocations] /\ script'[p] = new
        /\ \A q \in Scripts : q # p => script'[q] = script[q]
    BY <1>1, <1>8, <2>1 DEF IInv, TypeOK
  <2>3. TypeOK'
    BY <1>1, <1>4, <2>2 DEF IInv, TypeOK
  <2>4. new.pc \in Undoing /\ script[p].pc \notin Unlocked
    BY <1>1, <2>1 DEF Undoing, Unlocked
  <2>5. Named(p)' /\ Flagged(p)'
    BY <1>1, <2>1, <2>2, <2>4, FlagsKept DEF IInv
  <2>6. Quiet(p)' /\ Placed(p)' /\ Saved(p)'
    BY <2>1, <2>2 DEF Quiet, Placed, Saved, Staging, Replacing, Activated, Unlocked
  <2>7. Mine(p)' = Mine(p)
    BY <1>1, <2>1, <2>2 DEF Mine
  <2>8. \A s \in Services \ new.todo : Mine(p).images[s] # None => running'[s] = Mine(p).images[s]
    <3>1. "agent" \in recorded => running'["agent"] = Mine(p).images["agent"]
      BY <1>8 DEF passed, AsRecorded
    <3> QED BY <2>1, <3>1
  <2>9. \A s \in new.todo : Mine(p).images[s] # None
    BY <2>1
  <2>10. Restoring(p)'
    BY <1>1, <1>2, <2>1, <2>2, <2>7, <2>8, <2>9 DEF Restoring
  <2> QED BY <1>1, <1>4, <1>5, <1>6, <2>2, <2>3, <2>5, <2>6, <2>10, HolderStep DEF Sound
<1> QED BY <1>7, <1>8

\* Each service that ran before runs the image it ran, or the rollback ends.
LEMMA UndoServiceStep ==
  ASSUME IInv, NEW p \in Scripts, NEW s \in Services, UndoService(p, s)
  PROVE  IInv'
<1> DEFINE passed == AsRecorded(p, s)
           new    == [script[p] EXCEPT !.todo = @ \ {s}]
<1>1. /\ script[p].pc = "undo-services" /\ s \in script[p].todo
      /\ UNCHANGED <<live, record, marker, cron, checked, current>>
      /\ running' = Recreated(s)
      /\ IF passed THEN script' = [script EXCEPT ![p] = new] ELSE Exit(p)
  BY DEF UndoService, At, Files, IInv, TypeOK
<1> HIDE DEF passed
<1>2. /\ ~marker /\ live = Mine(p).deploy /\ live \in Bundles
      /\ script[p].release \in Releases /\ Mine(p).state # "absent"
      /\ \A t \in Services : Mine(p).images[t] # None => t \in Offered(live)
  BY <1>1, RestoringFacts
<1>3. /\ \A t \in script[p].todo : Mine(p).images[t] # None
      /\ \A t \in Services \ script[p].todo :
           Mine(p).images[t] # None => running[t] = Mine(p).images[t]
  BY <1>1 DEF IInv, Sound, Restoring
<1>4. HostSound' /\ running' \in Images
  BY <1>1, <1>2, <1>3, RecreatedHost
<1>5. RecordSound'
  BY <1>1, RecordKept DEF IInv
<1>6. Locked(p)
  BY <1>1 DEF Locked, Unlocked
<1>7. CASE ~passed
  <2>1. Exit(p)
    BY <1>1, <1>7
  <2> QED BY <1>1, <1>4, <1>5, <1>6, <2>1, HolderExit DEF IInv, TypeOK
<1>8. CASE passed
  <2>1. /\ new \in Invocations /\ new.pc = "undo-services" /\ new.by = script[p].by
        /\ new.release = script[p].release /\ new.first = script[p].first
        /\ new.incomplete = script[p].incomplete /\ new.started = script[p].started
        /\ new.todo = script[p].todo \ {s}
    BY <1>1 DEF IInv, TypeOK, Invocations
  <2> HIDE DEF new
  <2>2. /\ script' \in [Scripts -> Invocations] /\ script'[p] = new
        /\ \A q \in Scripts : q # p => script'[q] = script[q]
    BY <1>1, <1>8, <2>1 DEF IInv, TypeOK
  <2>3. TypeOK'
    BY <1>1, <1>4, <2>2 DEF IInv, TypeOK
  <2>4. new.pc \in Undoing /\ script[p].pc \notin Unlocked
    BY <1>1, <2>1 DEF Undoing, Unlocked
  <2>5. Named(p)' /\ Flagged(p)'
    BY <1>1, <2>1, <2>2, <2>4, FlagsKept DEF IInv
  <2>6. Quiet(p)' /\ Placed(p)' /\ Saved(p)'
    BY <2>1, <2>2 DEF Quiet, Placed, Saved, Staging, Replacing, Activated, Unlocked
  <2>7. Mine(p)' = Mine(p)
    BY <1>1, <2>1, <2>2 DEF Mine
  <2>8. \A t \in Services \ new.todo : Mine(p).images[t] # None => running'[t] = Mine(p).images[t]
    <3>1. running'[s] = Mine(p).images[s]
      BY <1>8 DEF passed, AsRecorded
    <3>2. \A t \in Services : t # s => running'[t] = running[t]
      BY <1>1 DEF Recreated, IInv, TypeOK, Images
    <3> QED BY <1>3, <2>1, <3>1, <3>2
  <2>9. \A t \in new.todo : Mine(p).images[t] # None
    BY <1>3, <2>1
  <2>10. Restoring(p)'
    BY <1>1, <1>2, <2>1, <2>2, <2>7, <2>8, <2>9 DEF Restoring
  <2> QED BY <1>1, <1>4, <1>5, <1>6, <2>2, <2>3, <2>5, <2>6, <2>10, HolderStep DEF Sound
<1> QED BY <1>7, <1>8

\* With nothing left to recreate, all that ran before runs again.
LEMMA UndoVerifyStep == ASSUME IInv, NEW p \in Scripts, UndoVerify(p) PROVE IInv'
<1> DEFINE pc   == IF script[p].by = "rollback" THEN "undo-current"
                   ELSE IF script[p].first THEN "resume" ELSE "restored"
           todo == {"ingest-india", "ingest-us"} \cap Offered(Mine(p).deploy)
           new  == [script[p] EXCEPT !.pc = pc, !.todo = todo]
<1>1. /\ script[p].pc = "undo-services" /\ script[p].todo = {} /\ UNCHANGED <<Host, record>>
      /\ script' = [script EXCEPT ![p] = new]
  BY DEF UndoVerify, At, IInv, TypeOK
<1>2. pc \in {"undo-current", "resume", "restored"} /\ pc \in Undoing
  BY DEF Undoing
<1> HIDE DEF pc
<1>3. todo \subseteq Writers /\ todo \subseteq Offered(Mine(p).deploy) /\ todo \subseteq Services
  BY DEF Writers, Services
<1> HIDE DEF todo
<1>4. /\ new \in Invocations /\ new.pc = pc /\ new.by = script[p].by
      /\ new.release = script[p].release /\ new.first = script[p].first
      /\ new.incomplete = script[p].incomplete /\ new.started = script[p].started
      /\ new.todo = todo
  BY <1>2, <1>3 DEF IInv, TypeOK, Invocations
<1> HIDE DEF new
<1>5. /\ script' \in [Scripts -> Invocations] /\ script'[p] = new
      /\ \A q \in Scripts : q # p => script'[q] = script[q]
  BY <1>1, <1>4 DEF IInv, TypeOK
<1>6. UNCHANGED <<live, running, record, marker, cron, checked, current>>
  BY <1>1 DEF Host
<1>7. Locked(p) /\ script[p].pc \notin Unlocked
  BY <1>1 DEF Locked, Unlocked
<1>8. Named(p)' /\ Flagged(p)'
  BY <1>2, <1>4, <1>5, <1>6, <1>7, FlagsKept DEF IInv
<1>9. Quiet(p)' /\ Placed(p)' /\ Saved(p)'
  BY <1>2, <1>4, <1>5 DEF Quiet, Placed, Saved, Staging, Replacing, Activated, Unlocked
<1>10. /\ ~marker /\ live = Mine(p).deploy /\ Mine(p).state # "absent"
       /\ \A s \in Services : Mine(p).images[s] # None => running[s] = Mine(p).images[s]
  BY <1>1, RestoringFacts DEF IInv, Sound, Restoring
<1>11. Mine(p)' = Mine(p)
  BY <1>4, <1>5, <1>6 DEF Mine
<1>12. Restoring(p)'
  BY <1>2, <1>3, <1>4, <1>5, <1>6, <1>10, <1>11 DEF Restoring
<1> QED BY <1>1, <1>5, <1>7, <1>8, <1>9, <1>12, QuietStep DEF Sound

\* Resumed writers were not running before, so no saved image is disturbed.
LEMMA ResumeStep ==
  ASSUME IInv, NEW p \in Scripts, NEW s \in Services, Resume(p, s)
  PROVE  IInv'
<1> DEFINE new == [script[p] EXCEPT !.todo = @ \ {s}]
<1>1. /\ script[p].pc = "resume" /\ s \in script[p].todo
      /\ UNCHANGED <<live, record, marker, cron, checked, current>>
      /\ running' = Recreated(s) /\ script' = [script EXCEPT ![p] = new]
  BY DEF Resume, At, Files, IInv, TypeOK
<1>2. /\ ~marker /\ live = Mine(p).deploy /\ live \in Bundles
      /\ Mine(p).state # "absent" /\ \A w \in Writers : Mine(p).images[w] = None
  BY <1>1, RestoringFacts
<1>3. /\ script[p].todo \subseteq Offered(Mine(p).deploy) /\ script[p].todo \subseteq Writers
      /\ \A t \in Services : Mine(p).images[t] # None => running[t] = Mine(p).images[t]
  BY <1>1 DEF IInv, Sound, Restoring
<1>4. HostSound' /\ running' \in Images
  BY <1>1, <1>2, <1>3, RecreatedHost
<1>5. RecordSound'
  BY <1>1, RecordKept DEF IInv
<1>6. /\ new \in Invocations /\ new.pc = "resume" /\ new.by = script[p].by
      /\ new.release = script[p].release /\ new.first = script[p].first
      /\ new.incomplete = script[p].incomplete /\ new.started = script[p].started
      /\ new.todo = script[p].todo \ {s}
  BY <1>1 DEF IInv, TypeOK, Invocations
<1> HIDE DEF new
<1>7. /\ script' \in [Scripts -> Invocations] /\ script'[p] = new
      /\ \A q \in Scripts : q # p => script'[q] = script[q]
  BY <1>1, <1>6 DEF IInv, TypeOK
<1>8. TypeOK'
  BY <1>1, <1>4, <1>7 DEF IInv, TypeOK
<1>9. Locked(p) /\ script[p].pc \notin Unlocked /\ new.pc \in Undoing
  BY <1>1, <1>6 DEF Locked, Unlocked, Undoing
<1>10. Named(p)' /\ Flagged(p)'
  BY <1>1, <1>6, <1>7, <1>9, FlagsKept DEF IInv
<1>11. Quiet(p)' /\ Placed(p)' /\ Saved(p)'
  BY <1>6, <1>7 DEF Quiet, Placed, Saved, Staging, Replacing, Activated, Unlocked
<1>12. Mine(p)' = Mine(p)
  BY <1>1, <1>6, <1>7 DEF Mine
<1>13. \A t \in Services : Mine(p).images[t] # None => running'[t] = Mine(p).images[t]
  <2>1. s \in Writers
    BY <1>1, <1>3
  <2>2. \A t \in Services : t # s => running'[t] = running[t]
    BY <1>1 DEF Recreated, IInv, TypeOK, Images
  <2> QED BY <1>2, <1>3, <2>1, <2>2
<1>14. Restoring(p)'
  BY <1>1, <1>2, <1>3, <1>6, <1>7, <1>12, <1>13 DEF Restoring
<1> QED BY <1>1, <1>4, <1>5, <1>7, <1>8, <1>9, <1>10, <1>11, <1>14, HolderStep DEF Sound

\* Cron is resumed before the activation.
LEMMA ResumeCronStep == ASSUME IInv, NEW p \in Scripts, ResumeCron(p) PROVE IInv'
<1>1. /\ script[p].pc = "resume" /\ cron' = TRUE /\ Goto(p, "restored")
      /\ UNCHANGED <<live, running, record, marker, checked, current>>
  BY DEF ResumeCron, At
<1>2. script[p].pc \in Undoing /\ "restored" \in Undoing
  BY <1>1 DEF Undoing
<1>3. /\ script' \in [Scripts -> Invocations]
      /\ script'[p].pc = "restored" /\ script'[p].release = script[p].release
      /\ \A q \in Scripts : q # p => script'[q] = script[q]
      /\ Named(p)' /\ Flagged(p)' /\ Locked(p)
      /\ Quiet(p)' /\ Placed(p)' /\ Saved(p)'
  BY <1>1, <1>2, Retreat
<1>4. ~marker /\ live = Mine(p).deploy /\ Mine(p).state # "absent"
  BY <1>1, RestoringFacts
<1>5. \A s \in Services : Mine(p).images[s] # None => running[s] = Mine(p).images[s]
  BY <1>1 DEF IInv, Sound, Restoring
<1>6. TypeOK'
  BY <1>1, <1>3 DEF IInv, TypeOK
<1>7. HostSound'
  BY <1>1, <1>4 DEF IInv, HostSound, NoLegacyWriter, CronAfterWrites, CurrentVerified
<1>8. RecordSound'
  BY <1>1, RecordKept DEF IInv
<1>9. Mine(p)' = Mine(p)
  BY <1>1, <1>3 DEF Mine
<1>10. Restoring(p)'
  BY <1>1, <1>3, <1>4, <1>5, <1>9 DEF Restoring
<1> QED BY <1>1, <1>3, <1>6, <1>7, <1>8, <1>10, HolderStep DEF Sound

\* Before the activation every saved current-release is the legacy one.
LEMMA UndoCurrentStep == ASSUME IInv, NEW p \in Scripts, UndoCurrent(p) PROVE IInv'
<1>1. /\ script[p].pc = "undo-current" /\ current' \in {current, Mine(p).current} /\ Exit(p)
      /\ UNCHANGED <<live, running, record, marker, cron, checked>>
  BY DEF UndoCurrent, At, PreviousRelease
<1>2. Mine(p).current = Legacy /\ ~marker
  BY <1>1, RestoringFacts
<1>3. HostSound' /\ current' \in Bundles
  BY <1>1, <1>2 DEF IInv, TypeOK, Bundles, HostSound, NoLegacyWriter, CronAfterWrites,
     CurrentVerified
<1>4. RecordSound'
  BY <1>1, RecordKept DEF IInv
<1>5. Locked(p)
  BY <1>1 DEF Locked, Unlocked
<1> QED BY <1>1, <1>3, <1>4, <1>5, HolderExit DEF IInv, TypeOK

\* Pausing stops only writers, which no restorable record has saved.
LEMMA PauseStep == ASSUME IInv, Pause PROVE IInv'
<1>1. /\ ~marker /\ cron' = FALSE
      /\ running' = [s \in Services |-> IF s \in Writers THEN None ELSE running[s]]
      /\ UNCHANGED <<live, record, marker, checked, current, script>>
  BY DEF Pause
<1>2. TypeOK'
  BY <1>1 DEF IInv, TypeOK, Images
<1>3. \A s \in Services : running'[s] = running[s] \/ running'[s] = None
  BY <1>1
<1>4. HostSound'
  BY <1>1, <1>3, StoppedHost DEF IInv
<1>5. RecordSound' /\ OneHolder'
  BY <1>1, RecordKept DEF IInv, OneHolder, Locked
<1>6. ASSUME NEW p \in Scripts PROVE Sound(p)'
  <2>1. Named(p)' /\ Flagged(p)' /\ Placed(p)' /\ Saved(p)'
    BY <1>1 DEF IInv, Sound, Named, Flagged, Placed, Saved, Mine
  <2>2. \A w \in Writers : w \in Services
    BY DEF Services
  <2>3. Quiet(p)'
    BY <1>1, <2>2, ReleaseAssumption DEF IInv, Sound, Quiet, Offered
  <2>4. CASE script[p].pc \in {"undo-agent", "undo-services", "undo-current", "resume", "restored"}
    <3>1. \A w \in Writers : Mine(p).images[w] = None
      BY <2>4, RestoringFacts
    <3>2. \A s \in Services : Mine(p).images[s] # None => running'[s] = running[s]
      BY <1>1, <3>1
    <3>3. Mine(p)' = Mine(p)
      BY <1>1 DEF Mine
    <3>4. Restoring(p)'
      BY <1>1, <3>2, <3>3 DEF IInv, Sound, Restoring
    <3> QED BY <2>1, <2>3, <3>4 DEF Sound
  <2>5. CASE script[p].pc \notin {"undo-agent", "undo-services", "undo-current", "resume", "restored"}
    <3>1. Restoring(p)'
      BY <1>1, <2>5 DEF IInv, Sound, Restoring, Mine
    <3> QED BY <2>1, <2>3, <3>1 DEF Sound
  <2> QED BY <2>4, <2>5
<1> QED BY <1>2, <1>4, <1>5, <1>6 DEF IInv

-----------------------------------------------------------------------------
(* Theorems. *)

\* A kill may lose the container in hand, which no condition on other invocations needs.
LEMMA KilledStep == ASSUME IInv, NEW p \in Scripts, Killed(p) PROVE IInv'
<1>1. Exit(p) /\ UNCHANGED <<live, record, marker, cron, checked, current>>
  BY DEF Killed, Files
<1>2. CASE UNCHANGED running
  BY <1>1, <1>2, EndingStep DEF Host
<1>3. ASSUME NEW s \in Services, Recreating(p, s), running' = [running EXCEPT ![s] = None]
      PROVE  IInv'
  <2>1. Locked(p)
    BY <1>3 DEF Recreating, At, Locked, Unlocked, Services, Writers
  <2>2. /\ running' \in Images
        /\ \A t \in Services : running'[t] = running[t] \/ running'[t] = None
    BY <1>3 DEF IInv, TypeOK, Images
  <2>3. HostSound'
    BY <1>1, <2>2, StoppedHost DEF IInv
  <2>4. RecordSound'
    BY <1>1, RecordKept DEF IInv
  <2> QED BY <1>1, <2>1, <2>2, <2>3, <2>4, HolderExit DEF IInv, TypeOK
<1> QED BY <1>2, <1>3 DEF Killed

\* Every step keeps the invariant.
LEMMA InvStep == IInv /\ [Next]_vars => IInv'
<1> SUFFICES ASSUME IInv, [Next]_vars PROVE IInv'
  OBVIOUS
<1>1. ASSUME NEW p \in Scripts, NEW r \in Releases, Release(p, r) \/ Undo(p, r) PROVE IInv'
  BY <1>1, ArrivalSteps
<1>2. ASSUME NEW p \in Scripts, Deploy(p) PROVE IInv'
  <2>1. CASE ReadMarkers(p) \/ TakeLock(p)
    BY <2>1, ArrivalSteps
  <2>2. CASE Check(p) \/ SaveBundle(p) \/ SaveImages(p) \/ Stage(p)
    BY <2>2, CheckStep, SaveBundleStep, SaveImagesStep, StageStep
  <2>3. CASE BadBundle(p)
    BY <2>3, EndingStep DEF BadBundle
  <2>4. CASE RemoveLive(p) \/ InstallLive(p) \/ Mark(p)
    BY <2>4, ReplaceSteps, MarkStep
  <2>5. ASSUME NEW s \in Services, StartService(p, s) PROVE IInv'
    BY <2>5, StartServiceStep
  <2>6. CASE VerifyCurrent(p) \/ VerifyWrites(p) \/ InstallCron(p) \/ Succeed(p)
    BY <2>6, VerifyCurrentStep, VerifyWritesStep, InstallCronStep, SucceedStep
  <2> QED BY <1>2, <2>1, <2>2, <2>3, <2>4, <2>5, <2>6 DEF Deploy
<1>3. ASSUME NEW p \in Scripts, OnError(p) PROVE IInv'
  BY <1>3, StepFailsStep, DiscardRecordStep, StopWritersStep, UnscheduleStep, RollBackStep
     DEF OnError
<1>4. ASSUME NEW p \in Scripts, Restore(p) PROVE IInv'
  <2>1. CASE UndoCheck(p) \/ UndoStop(p) \/ UndoRemove(p) \/ UndoCopy(p) \/ UndoAgent(p)
    BY <2>1, UndoCheckStep, UndoStopStep, UndoReplaceSteps, UndoAgentStep
  <2>2. ASSUME NEW s \in Services, UndoService(p, s) \/ Resume(p, s) PROVE IInv'
    BY <2>2, UndoServiceStep, ResumeStep
  <2>3. CASE UndoVerify(p) \/ ResumeCron(p) \/ UndoCurrent(p)
    BY <2>3, UndoVerifyStep, ResumeCronStep, UndoCurrentStep
  <2>4. CASE Restored(p)
    BY <2>4, EndingStep DEF Restored
  <2> QED BY <1>4, <2>1, <2>2, <2>3, <2>4 DEF Restore
<1>5. ASSUME NEW p \in Scripts, Killed(p) PROVE IInv'
  BY <1>5, KilledStep
<1>6. CASE Pause
  BY <1>6, PauseStep
<1>7. CASE UNCHANGED vars
  <2>1. UNCHANGED <<live, running, record, marker, cron, checked, current, script>>
    BY <1>7 DEF vars
  <2>2. TypeOK' /\ OneHolder' /\ HostSound' /\ RecordSound'
    BY <2>1, HostKept, RecordKept DEF IInv, TypeOK, OneHolder, Locked
  <2>3. \A p \in Scripts : Sound(p)'
    BY <2>1, StillSound DEF IInv, Host
  <2> QED BY <2>2, <2>3 DEF IInv
<1> QED BY <1>1, <1>2, <1>3, <1>4, <1>5, <1>6, <1>7 DEF Next

\* The invariant holds throughout, for any invocations, releases and legacy services.
THEOREM Invariance == Spec => []IInv
BY InvInit, InvStep, PTL DEF Spec

\* Every state of the host and of the invocations is well typed.
THEOREM TypeCorrect == Spec => []TypeOK
<1>1. IInv => TypeOK
  BY DEF IInv
<1> QED BY <1>1, Invariance, PTL

\* Once the marker exists no writer runs the legacy image.
THEOREM LegacyStays == Spec => []NoLegacyWriter
<1>1. IInv => NoLegacyWriter
  BY DEF IInv, HostSound
<1> QED BY <1>1, Invariance, PTL

\* The political job of an activated host is scheduled only over verified v2 writes.
THEOREM CronFollowsWrites == Spec => []CronAfterWrites
<1>1. IInv => CronAfterWrites
  BY DEF IInv, HostSound
<1> QED BY <1>1, Invariance, PTL

\* The current release was verified.
THEOREM CurrentIsVerified == Spec => []CurrentVerified
<1>1. IInv => CurrentVerified
  BY DEF IInv, HostSound
<1> QED BY <1>1, Invariance, PTL

\* A rollback that reports success has restored what ran before.
THEOREM RollbackRestores == Spec => []RestoredIsPrevious
<1>1. IInv => RestoredIsPrevious
  BY RestoringFacts DEF IInv, Sound, Restoring, RestoredIsPrevious, At
<1> QED BY <1>1, Invariance, PTL

-----------------------------------------------------------------------------
(* The exchange of the operational tables. *)

\* A table that an invocation has compared, and nobody has written to since, has both copies
\* equal: each of several exchanges of it changes nothing that is read.
ExchangeInv ==
  /\ Exchange!TypeOK
  /\ Exchange!ExchangeHidesNothing
  /\ \A o \in Scripts, t \in Exchange!Table :
       Exchange!Compared(o, t) => exposed[t] \/ Exchange!ExactCopy(t)

Exchanges == [pc : {"idle", "layout", "compare", "exchange", "confirm"},
                at : Exchange!Table, seen : SUBSET Exchange!Table, exchange : BOOLEAN]

\* The variables by type, and the first table.
LEMMA ExchangeTypes ==
  /\ Exchange!TypeOK <=>
       /\ canonical \in [Exchange!Table -> BOOLEAN]
       /\ holds \in [Exchange!Table -> [Exchange!Names -> 0 .. MaxWrites]]
       /\ written \in [Exchange!Table -> 0 .. MaxWrites]
       /\ process \in [Scripts -> Exchanges]
       /\ exposed \in [Exchange!Table -> BOOLEAN]
  /\ Tables \in Nat \ {0} /\ MaxWrites \in Nat /\ 1 \in Exchange!Table
  /\ Exchange!Idle \in Exchanges /\ Exchange!Idle.pc = "idle"
<1>1. Tables \in Nat \ {0} /\ MaxWrites \in Nat
  BY CutoverAssumption DEF Exchange!TableAssumption
<1>2. 1 \in Exchange!Table
  BY <1>1 DEF Exchange!Table
<1> QED BY <1>1, <1>2 DEF Exchange!TypeOK, Exchanges, Exchange!Idle

\* Steps of an invocation that only move it, and compare nothing that differs.
LEMMA InvocationMoves ==
  ASSUME ExchangeInv, NEW o \in Scripts, NEW new \in Exchanges,
         process' = [process EXCEPT ![o] = new], UNCHANGED <<canonical, holds, written, exposed>>,
         \A t \in Exchange!Table :
           \/ new.pc = "compare" /\ t < new.at
           \/ new.pc = "exchange" /\ t >= new.at
           => exposed[t] \/ Exchange!ExactCopy(t)
  PROVE  ExchangeInv'
<1>1. process \in [Scripts -> Exchanges]
  BY ExchangeTypes DEF ExchangeInv
<1>2. process' \in [Scripts -> Exchanges] /\ process'[o] = new
      /\ \A p \in Scripts \ {o} : process'[p] = process[p]
  BY <1>1
<1>3. Exchange!TypeOK'
  BY <1>2 DEF ExchangeInv, Exchange!TypeOK, Exchanges
<1>4. Exchange!ExchangeHidesNothing'
  BY DEF ExchangeInv, Exchange!ExchangeHidesNothing
<1>5. ASSUME NEW p \in Scripts, NEW t \in Exchange!Table, Exchange!Compared(p, t)'
      PROVE  (exposed[t] \/ Exchange!ExactCopy(t))'
  <2>1. CASE p = o
    BY <1>2, <1>5, <2>1 DEF Exchange!Compared, Exchange!At, Exchange!ExactCopy
  <2>2. CASE p # o
    BY <1>2, <1>5, <2>2 DEF Exchange!Compared, Exchange!At, Exchange!ExactCopy, ExchangeInv
  <2> QED BY <2>1, <2>2
<1> QED BY <1>3, <1>4, <1>5 DEF ExchangeInv

\* Every step keeps what has been compared and not written equal.
LEMMA ExchangeStep == ExchangeInv /\ Exchange!Next => ExchangeInv'
<1> SUFFICES ASSUME ExchangeInv, Exchange!Next PROVE ExchangeInv'
  OBVIOUS
<1> USE DEF Exchange!At
<1>0. /\ canonical \in [Exchange!Table -> BOOLEAN]
      /\ holds \in [Exchange!Table -> [Exchange!Names -> 0 .. MaxWrites]]
      /\ written \in [Exchange!Table -> 0 .. MaxWrites]
      /\ process \in [Scripts -> Exchanges] /\ exposed \in [Exchange!Table -> BOOLEAN]
      /\ Exchange!Table = 1 .. Tables /\ "public" \in Exchange!Names /\ "replacement" \in Exchange!Names
      /\ Exchange!Names = {"public", "replacement"}
      /\ Tables \in Nat \ {0} /\ MaxWrites \in Nat
  BY ExchangeTypes DEF ExchangeInv, Exchange!Table, Exchange!Names
<1>1. \A o \in Scripts : /\ process[o].at \in Exchange!Table /\ process[o].seen \subseteq Exchange!Table
                         /\ process[o] \in Exchanges
  BY <1>0 DEF Exchanges
<1>2. ASSUME NEW o \in Scripts, Exchange!Invoke(o) PROVE ExchangeInv'
  <2>1. PICK exchange \in BOOLEAN :
          process' = [process EXCEPT ![o] = [Exchange!Idle EXCEPT !.pc = "layout", !.exchange = exchange]]
    BY <1>2 DEF Exchange!Invoke
  <2> DEFINE new == [Exchange!Idle EXCEPT !.pc = "layout", !.exchange = exchange]
  <2>2. new \in Exchanges /\ new.pc = "layout"
    BY ExchangeTypes DEF Exchange!Idle, Exchanges
  <2> HIDE DEF new
  <2> QED BY <1>2, <2>1, <2>2, InvocationMoves DEF Exchange!Invoke, new
<1>3. ASSUME NEW o \in Scripts, Exchange!ReadLayout(o) PROVE ExchangeInv'
  <2> DEFINE seen == process[o].seen \cup {t \in {process[o].at} : canonical[t]}
             further == [process[o] EXCEPT !.at = process[o].at + 1, !.seen = seen]
             comparing == [process[o] EXCEPT !.pc = "compare", !.at = 1]
  <2>1. /\ process[o].pc \in {"layout", "confirm"} /\ UNCHANGED <<canonical, holds, written, exposed>>
        /\ process' = [process EXCEPT ![o] =
             IF ~Exchange!Last(o) THEN further
             ELSE IF seen = {} /\ process[o].pc = "layout" THEN comparing ELSE Exchange!Idle]
    BY <1>3 DEF Exchange!ReadLayout
  <2>2. CASE ~Exchange!Last(o)
    <3>1. seen \subseteq Exchange!Table /\ process[o].at + 1 \in Exchange!Table
      BY <1>0, <1>1, <2>2 DEF Exchange!Last
    <3> HIDE DEF seen
    <3>2. further \in Exchanges /\ further.pc \in {"layout", "confirm"}
      BY <1>1, <2>1, <3>1 DEF Exchanges
    <3>3. process' = [process EXCEPT ![o] = further]
      BY <2>1, <2>2
    <3> HIDE DEF further
    <3> QED BY <2>1, <3>2, <3>3, InvocationMoves
  <2>3. comparing \in Exchanges /\ comparing.pc = "compare" /\ comparing.at = 1
    BY <1>1, ExchangeTypes DEF Exchanges
  <2>4. \A t \in Exchange!Table : ~(t < 1)
    BY <1>0
  <2>5. CASE Exchange!Last(o) /\ seen = {} /\ process[o].pc = "layout"
    <3>1. process' = [process EXCEPT ![o] = comparing]
      BY <2>1, <2>5
    <3> HIDE DEF comparing
    <3> QED BY <2>1, <2>3, <2>4, <3>1, InvocationMoves
  <2>6. CASE Exchange!Last(o) /\ ~(seen = {} /\ process[o].pc = "layout")
    <3>1. process' = [process EXCEPT ![o] = Exchange!Idle]
      BY <2>1, <2>6
    <3> QED BY <2>1, <3>1, ExchangeTypes, InvocationMoves
  <2> QED BY <2>2, <2>5, <2>6
<1>4. ASSUME NEW o \in Scripts, Exchange!Compare(o) PROVE ExchangeInv'
  <2> DEFINE my == process[o]
             further == [my EXCEPT !.at = my.at + 1]
             exchanging == [my EXCEPT !.pc = "exchange", !.at = 1]
  <2>1. /\ my.pc = "compare" /\ UNCHANGED <<canonical, holds, written, exposed>>
        /\ process' = [process EXCEPT ![o] =
             IF ~Exchange!ExactCopy(my.at) THEN Exchange!Idle
             ELSE IF ~Exchange!Last(o) THEN further
             ELSE IF my.exchange THEN exchanging ELSE Exchange!Idle]
    BY <1>4 DEF Exchange!Compare
  <2>2. \A t \in Exchange!Table : t < my.at => exposed[t] \/ Exchange!ExactCopy(t)
    BY <2>1 DEF ExchangeInv, Exchange!Compared
  <2>3. CASE process' = [process EXCEPT ![o] = Exchange!Idle]
    BY <2>1, <2>3, ExchangeTypes, InvocationMoves
  <2>4. CASE Exchange!ExactCopy(my.at) /\ ~Exchange!Last(o)
    <3>0. my.at + 1 \in Exchange!Table
      BY <1>0, <1>1, <2>4, SMTT(30) DEF Exchange!Last
    <3>1. /\ further \in Exchanges /\ further.pc = "compare" /\ further.at = my.at + 1
      BY <1>1, <2>1, <3>0 DEF Exchanges
    <3>2. \A t \in Exchange!Table : t < further.at => t < my.at \/ t = my.at
      BY <1>0, <1>1, <3>1
    <3>3. process' = [process EXCEPT ![o] = further]
      BY <2>1, <2>4
    <3> HIDE DEF further
    <3> QED BY <2>1, <2>2, <2>4, <3>1, <3>2, <3>3, InvocationMoves
  <2>5. CASE Exchange!ExactCopy(my.at) /\ Exchange!Last(o) /\ my.exchange
    <3>1. exchanging \in Exchanges /\ exchanging.pc = "exchange" /\ exchanging.at = 1
      BY <1>1, ExchangeTypes DEF Exchanges
    <3>2. \A t \in Exchange!Table : t < my.at \/ t = my.at
      BY <1>0, <1>1, <2>5 DEF Exchange!Last
    <3>3. process' = [process EXCEPT ![o] = exchanging]
      BY <2>1, <2>5
    <3> HIDE DEF exchanging
    <3> QED BY <2>1, <2>2, <2>5, <3>1, <3>2, <3>3, InvocationMoves, ZenonT(40)
  <2> QED BY <2>1, <2>3, <2>4, <2>5
<1>5. ASSUME NEW o \in Scripts, Exchange!Exchange(o) PROVE ExchangeInv'
  <2> DEFINE at == process[o].at
             new == IF Exchange!Last(o) THEN [Exchange!Idle EXCEPT !.pc = "confirm"]
                    ELSE [process[o] EXCEPT !.at = process[o].at + 1]
  <2>1. /\ process[o].pc = "exchange" /\ UNCHANGED <<written, exposed>>
        /\ canonical' = [canonical EXCEPT ![at] = ~canonical[at]]
        /\ holds' = [holds EXCEPT ![at] = [public |-> holds[at]["replacement"],
                                           replacement |-> holds[at]["public"]]]
        /\ process' = [process EXCEPT ![o] = new]
    BY <1>5 DEF Exchange!Exchange
  <2>2. at \in Exchange!Table /\ (exposed[at] \/ holds[at]["public"] = holds[at]["replacement"])
    BY <1>0, <1>1, <2>1 DEF ExchangeInv, Exchange!Compared, Exchange!ExactCopy
  <2>3. /\ new \in Exchanges
        /\ new.pc = "confirm" \/ (new.pc = "exchange" /\ new.at = at + 1)
    <3>1. CASE Exchange!Last(o)
      <4>1. [Exchange!Idle EXCEPT !.pc = "confirm"] \in Exchanges
        BY ExchangeTypes DEF Exchange!Idle, Exchanges
      <4> QED BY <3>1, <4>1 DEF Exchange!Idle
    <3>2. CASE ~Exchange!Last(o)
      <4>1. at + 1 \in Exchange!Table
        BY <1>0, <1>1, <3>2, SMTT(30) DEF Exchange!Last
      <4> QED BY <1>1, <2>1, <3>2, <4>1 DEF Exchanges
    <3> QED BY <3>1, <3>2
  <2> HIDE DEF new
  <2>4. process' \in [Scripts -> Exchanges] /\ process'[o] = new
        /\ \A p \in Scripts \ {o} : process'[p] = process[p]
    BY <1>0, <2>1, <2>3
  <2>5. /\ holds' \in [Exchange!Table -> [Exchange!Names -> 0 .. MaxWrites]]
        /\ holds'[at]["public"] = holds[at]["replacement"]
        /\ holds'[at]["replacement"] = holds[at]["public"]
        /\ \A t \in Exchange!Table \ {at} : holds'[t] = holds[t]
    <3> DEFINE swapped == [public |-> holds[at]["replacement"], replacement |-> holds[at]["public"]]
    <3>1. /\ swapped \in [Exchange!Names -> 0 .. MaxWrites]
          /\ swapped["public"] = holds[at]["replacement"] /\ swapped["replacement"] = holds[at]["public"]
      BY <1>0, <2>2
    <3>2. holds' = [holds EXCEPT ![at] = swapped]
      BY <2>1
    <3> HIDE DEF swapped, at
    <3> QED BY <1>0, <2>2, <3>1, <3>2
  <2>6. canonical' \in [Exchange!Table -> BOOLEAN]
    BY <1>0, <2>1, <2>2
  <2>7. \A t \in Exchange!Table : Exchange!ExactCopy(t) => Exchange!ExactCopy(t)'
    BY <2>5 DEF Exchange!ExactCopy
  <2>8. Exchange!TypeOK'
    BY <1>0, <2>1, <2>4, <2>5, <2>6 DEF Exchange!TypeOK, Exchanges
  <2>9. Exchange!ExchangeHidesNothing'
    BY <2>1, <2>2, <2>5 DEF ExchangeInv, Exchange!ExchangeHidesNothing
  <2>10. ASSUME NEW p \in Scripts, NEW t \in Exchange!Table, Exchange!Compared(p, t)'
         PROVE  Exchange!Compared(p, t)
    <3>1. CASE p = o
      <4>1. new.pc = "exchange" /\ new.at = at + 1 /\ t >= new.at
        BY <2>3, <2>4, <2>10, <3>1 DEF Exchange!Compared
      <4>2. t >= at
        BY <1>0, <2>2, <4>1
      <4> QED BY <2>1, <3>1, <4>2 DEF Exchange!Compared
    <3>2. CASE p # o
      BY <2>4, <2>10, <3>2 DEF Exchange!Compared
    <3> QED BY <3>1, <3>2
  <2> QED BY <2>1, <2>7, <2>8, <2>9, <2>10 DEF ExchangeInv
<1>6. ASSUME NEW o \in Scripts, Exchange!Abort(o) PROVE ExchangeInv'
  BY <1>6, ExchangeTypes, InvocationMoves DEF Exchange!Abort
<1>7. ASSUME NEW t \in Exchange!Table, Exchange!Backfill(t) PROVE ExchangeInv'
  <2> DEFINE copy == IF holds[t]["replacement"] < holds[t]["public"] THEN holds[t]["public"]
                     ELSE holds[t]["replacement"]
  <2>1. /\ UNCHANGED <<canonical, written, process, exposed>>
        /\ holds' = [holds EXCEPT ![t]["replacement"] = copy]
    BY <1>7 DEF Exchange!Backfill
  <2>2. copy \in 0 .. MaxWrites
    BY <1>0
  <2>3. /\ holds' \in [Exchange!Table -> [Exchange!Names -> 0 .. MaxWrites]]
        /\ holds'[t]["public"] = holds[t]["public"] /\ holds'[t]["replacement"] = copy
        /\ \A u \in Exchange!Table \ {t} : holds'[u] = holds[u]
    <3> HIDE DEF copy
    <3> QED BY <1>0, <2>1, <2>2
  <2>4. \A u \in Exchange!Table : Exchange!ExactCopy(u) => Exchange!ExactCopy(u)'
    BY <1>0, <2>3 DEF Exchange!ExactCopy
  <2>5. Exchange!TypeOK'
    BY <1>0, <2>1, <2>3 DEF Exchange!TypeOK, Exchanges
  <2>6. Exchange!ExchangeHidesNothing'
    BY <2>1, <2>3 DEF ExchangeInv, Exchange!ExchangeHidesNothing
  <2> QED BY <2>1, <2>4, <2>5, <2>6 DEF ExchangeInv, Exchange!Compared
<1>8. ASSUME NEW t \in Exchange!Table, Exchange!Write(t) PROVE ExchangeInv'
  <2> DEFINE compared == \E o \in Scripts : Exchange!Compared(o, t)
  <2>1. /\ UNCHANGED <<canonical, process>> /\ written[t] < MaxWrites
        /\ written' = [written EXCEPT ![t] = written[t] + 1]
        /\ holds' = [holds EXCEPT ![t]["public"] = written[t] + 1]
        /\ exposed' = [exposed EXCEPT ![t] = exposed[t] \/ compared]
    BY <1>8 DEF Exchange!Write
  <2>2. /\ written' \in [Exchange!Table -> 0 .. MaxWrites] /\ written'[t] = written[t] + 1
        /\ \A u \in Exchange!Table \ {t} : written'[u] = written[u]
    BY <1>0, <2>1, SMTT(30)
  <2>3. /\ holds' \in [Exchange!Table -> [Exchange!Names -> 0 .. MaxWrites]]
        /\ holds'[t]["public"] = written[t] + 1
        /\ \A u \in Exchange!Table \ {t} : holds'[u] = holds[u]
    BY <1>0, <2>1
  <2>4. /\ exposed' \in [Exchange!Table -> BOOLEAN] /\ exposed'[t] = (exposed[t] \/ compared)
        /\ \A u \in Exchange!Table \ {t} : exposed'[u] = exposed[u]
    BY <1>0, <2>1
  <2>5. Exchange!TypeOK'
    BY <1>0, <2>1, <2>2, <2>3, <2>4 DEF Exchange!TypeOK, Exchanges
  <2>6. Exchange!ExchangeHidesNothing'
    BY <2>2, <2>3, <2>4 DEF ExchangeInv, Exchange!ExchangeHidesNothing
  <2>7. ASSUME NEW o \in Scripts, NEW u \in Exchange!Table, Exchange!Compared(o, u)'
        PROVE  (exposed[u] \/ Exchange!ExactCopy(u))'
    <3>1. Exchange!Compared(o, u)
      BY <2>1, <2>7 DEF Exchange!Compared
    <3>2. CASE u = t
      BY <2>4, <3>1, <3>2
    <3>3. CASE u # t
      BY <2>3, <2>4, <3>1, <3>3 DEF ExchangeInv, Exchange!ExactCopy
    <3> QED BY <3>2, <3>3
  <2> QED BY <2>5, <2>6, <2>7 DEF ExchangeInv
<1> QED BY <1>2, <1>3, <1>4, <1>5, <1>6, <1>7, <1>8 DEF Exchange!Next

-----------------------------------------------------------------------------
(* The review of corrections and the backfill. *)

\* A correction under review, with whatever number its approval bears.
Decision(c) == Corrections!Semantics(c)

\* Approved decisions on one row agree, unless one batch approved two that differ.
Uniform(k) ==
  \/ Corrections!Contradictory(k)
  \/ \A r, s \in Corrections!ApprovedOf(k) : Decision(review[<<k, r>>]) = Decision(review[<<k, s>>])

\* A loaded fact has the decision of an approved correction.
Decided(k) ==
  facts[k] # None =>
    \E r \in Corrections!ApprovedOf(k) : Decision(facts[k]) = Decision(review[<<k, r>>])

\* The row is loaded as it is now, by an approved correction.
Loaded(k) ==
  /\ Corrections!Approved(Corrections!Current(k))
  /\ facts[k] # None /\ facts[k].rev = rev[k]
  /\ Decision(facts[k]) = Decision(review[Corrections!Current(k)])

\* While nothing has been rewritten, what the validations found stays, and so does what the
\* statements have loaded.
ReviewInv ==
  /\ Corrections!TypeOK
  /\ \A k \in Corrections!Rows : Uniform(k) /\ Decided(k)
  /\ backfill \in {"passed", "filings", "trades"} /\ ~moved => Corrections!CurrentApproved
  /\ backfill = "trades" /\ ~moved => \A k \in Filings : Loaded(k)
  /\ complete => \A k \in Corrections!Rows : Loaded(k)

\* What the correction review assumes of the constants.
LEMMA ReviewAssumptions ==
  /\ MaxRev \in Nat \ {0} /\ None \notin Corrections!Corrections /\ None \notin Corrections!Facts
BY CutoverAssumption DEF Corrections!ReviewAssumption

Pairs == Corrections!Rows \X Corrections!Revs

\* Reviews only ever add decisions: what is approved is never changed.
Settled ==
  /\ review' \in [Pairs -> Corrections!Corrections \cup {None}]
  /\ \A kr \in Pairs : Corrections!Approved(kr) => review'[kr] = review[kr]

\* Canonical IDs, once approved, stay approved.
IdsStay ==
  \A kr \in Corrections!Ids \X Corrections!Revs :
    crosswalk[kr] = "approved" => crosswalk'[kr] = "approved"

\* The variables by type.
LEMMA ReviewTypes ==
  ASSUME Corrections!TypeOK
  PROVE  /\ rev \in [Corrections!Rows \cup Corrections!Ids -> Corrections!Revs]
         /\ review \in [Pairs -> Corrections!Corrections \cup {None}]
         /\ facts \in [Corrections!Rows -> Corrections!Facts \cup {None}]
         /\ crosswalk \in [Corrections!Ids \X Corrections!Revs -> {"absent", "staged", "approved"}]
         /\ \A k \in Corrections!Rows : rev[k] \in Corrections!Revs /\ Corrections!Current(k) \in Pairs
BY DEF Corrections!TypeOK, Pairs, Corrections!Current

\* What was approved is approved, and says what it said.
LEMMA ApprovedStays ==
  ASSUME Settled, NEW kr \in Pairs, Corrections!Approved(kr)
  PROVE  Corrections!Approved(kr)' /\ Decision(review[kr])' = Decision(review[kr])
BY DEF Settled, Corrections!Approved, Corrections!Exists, Decision, Corrections!Semantics

\* Two decisions of one batch that differ stay so.
LEMMA ContradictionStays ==
  ASSUME Settled, NEW k \in Corrections!Rows, Corrections!Contradictory(k)
  PROVE  Corrections!Contradictory(k)'
<1>1. PICK r, s \in Corrections!ApprovedOf(k) :
        /\ review[<<k, r>>].batch = review[<<k, s>>].batch
        /\ Decision(review[<<k, r>>]) # Decision(review[<<k, s>>])
  BY DEF Corrections!Contradictory, Decision
<1>2. r \in Corrections!Revs /\ s \in Corrections!Revs /\ <<k, r>> \in Pairs /\ <<k, s>> \in Pairs
      /\ Corrections!Approved(<<k, r>>) /\ Corrections!Approved(<<k, s>>)
  BY DEF Corrections!ApprovedOf, Pairs
<1>3. r \in Corrections!ApprovedOf(k)' /\ s \in Corrections!ApprovedOf(k)'
  BY <1>2, ApprovedStays DEF Corrections!ApprovedOf
<1>4. review'[<<k, r>>] = review[<<k, r>>] /\ review'[<<k, s>>] = review[<<k, s>>]
  BY <1>2 DEF Settled
<1> QED BY <1>1, <1>3, <1>4 DEF Corrections!Contradictory, Decision, Corrections!Semantics

\* A loaded row stays loaded while corrections are added.
LEMMA LoadedStays ==
  ASSUME Corrections!TypeOK, Settled, NEW k \in Corrections!Rows, Loaded(k), UNCHANGED rev,
         facts'[k] = facts[k]
  PROVE  Loaded(k)'
<1>1. Corrections!Current(k) \in Pairs /\ Corrections!Current(k)' = Corrections!Current(k)
  BY ReviewTypes DEF Corrections!Current
<1>2. Corrections!Approved(Corrections!Current(k))' /\ review'[Corrections!Current(k)] = review[Corrections!Current(k)]
  BY <1>1, ApprovedStays DEF Loaded, Settled
<1> QED BY <1>1, <1>2 DEF Loaded, Decision, Corrections!Semantics

\* A decided fact stays decided while corrections are added.
LEMMA DecidedStays ==
  ASSUME Settled, NEW k \in Corrections!Rows, Decided(k), facts'[k] = facts[k]
  PROVE  Decided(k)'
<1> SUFFICES ASSUME facts'[k] # None
             PROVE  \E r \in Corrections!ApprovedOf(k)' : Decision(facts'[k]) = Decision(review'[<<k, r>>])
  BY DEF Decided, Decision, Corrections!Semantics
<1>1. PICK r \in Corrections!ApprovedOf(k) : Decision(facts[k]) = Decision(review[<<k, r>>])
  BY DEF Decided
<1>2. <<k, r>> \in Pairs /\ Corrections!Approved(<<k, r>>) /\ r \in Corrections!Revs
  BY DEF Corrections!ApprovedOf, Pairs
<1>3. r \in Corrections!ApprovedOf(k)' /\ review'[<<k, r>>] = review[<<k, r>>]
  BY <1>2, ApprovedStays DEF Corrections!ApprovedOf, Settled
<1> QED BY <1>1, <1>3

\* The validated state stays while corrections and IDs are added.
LEMMA CurrentStays ==
  ASSUME Corrections!TypeOK, Settled, IdsStay, UNCHANGED rev, Corrections!CurrentApproved
  PROVE  Corrections!CurrentApproved'
<1>1. ASSUME NEW k \in Corrections!Rows PROVE Corrections!Approved(Corrections!Current(k))'
  <2>1. Corrections!Current(k) \in Pairs /\ Corrections!Current(k)' = Corrections!Current(k)
    BY ReviewTypes DEF Corrections!Current
  <2> QED BY <2>1, ApprovedStays DEF Corrections!CurrentApproved
<1>2. ASSUME NEW t \in Trades PROVE crosswalk'[Corrections!Current(t)'] = "approved"
  <2>1. Corrections!Current(t) \in Corrections!Ids \X Corrections!Revs /\ Corrections!Current(t)' = Corrections!Current(t)
    BY ReviewTypes DEF Corrections!Current, Corrections!Rows, Corrections!Ids
  <2> QED BY <2>1 DEF IdsStay, Corrections!CurrentApproved
<1> QED BY <1>1, <1>2 DEF Corrections!CurrentApproved

\* Steps of the review: corrections and IDs are added, and agree unless one batch contradicts
\* itself.
LEMMA ReviewMoves ==
  ASSUME ReviewInv, Settled, IdsStay,
         crosswalk' \in [Corrections!Ids \X Corrections!Revs -> {"absent", "staged", "approved"}],
         UNCHANGED <<rev, matched, sourced, facts, backfill, moved, complete>>,
         \A k \in Corrections!Rows : Uniform(k)'
  PROVE  ReviewInv'
<1>1. Corrections!TypeOK'
  BY DEF ReviewInv, Corrections!TypeOK, Settled, Pairs
<1>2. \A k \in Corrections!Rows : Decided(k)'
  BY DecidedStays DEF ReviewInv
<1>3. \A k \in Corrections!Rows : Loaded(k) => Loaded(k)'
  BY LoadedStays DEF ReviewInv
<1>4. Filings \subseteq Corrections!Rows
  BY DEF Corrections!Rows
<1>5. Corrections!CurrentApproved => Corrections!CurrentApproved'
  BY CurrentStays DEF ReviewInv
<1> QED BY <1>1, <1>2, <1>3, <1>4, <1>5 DEF ReviewInv

\* Where no approved correction is touched and none is approved, the decisions stay uniform.
LEMMA Unapproved ==
  ASSUME ReviewInv, review' \in [Pairs -> Corrections!Corrections \cup {None}],
         \A kr \in Pairs : \/ review'[kr] = review[kr]
                           \/ /\ ~Corrections!Approved(kr)
                              /\ review'[kr] \in Corrections!Corrections /\ review'[kr].batch = 0
  PROVE  Settled /\ \A k \in Corrections!Rows : Uniform(k)'
<1>1. Settled
  BY DEF Settled
<1>2. ASSUME NEW k \in Corrections!Rows, NEW r \in Corrections!ApprovedOf(k)'
      PROVE  r \in Corrections!ApprovedOf(k) /\ review'[<<k, r>>] = review[<<k, r>>]
  <2>1. r \in Corrections!Revs /\ <<k, r>> \in Pairs /\ Corrections!Approved(<<k, r>>)'
    BY <1>2 DEF Corrections!ApprovedOf, Pairs
  <2>2. review'[<<k, r>>].batch > 0
    BY <2>1 DEF Corrections!Approved
  <2>3. review'[<<k, r>>] = review[<<k, r>>]
    BY <2>1, <2>2
  <2> QED BY <2>1, <2>3 DEF Corrections!ApprovedOf, Corrections!Approved, Corrections!Exists
<1>3. ASSUME NEW k \in Corrections!Rows PROVE Uniform(k)'
  <2>1. CASE Corrections!Contradictory(k)
    BY <1>1, <2>1, ContradictionStays DEF Uniform
  <2>2. CASE ~Corrections!Contradictory(k)
    BY <1>2, <2>2 DEF ReviewInv, Uniform, Decision, Corrections!Semantics
  <2> QED BY <2>1, <2>2
<1> QED BY <1>1, <1>3

\* Rows of the crosswalk, staged where there were none or approved, keep the invariant.
LEMMA PutIdsKeeps ==
  ASSUME ReviewInv, NEW S \in SUBSET (Corrections!Ids \X Corrections!Revs),
         NEW status \in {"staged", "approved"}, Corrections!PutIds(S, status),
         status = "staged" => \A kr \in S : crosswalk[kr] = "absent"
  PROVE  ReviewInv'
<1>1. /\ UNCHANGED <<rev, matched, sourced, review, facts, backfill, moved, complete>>
      /\ crosswalk' = [kr \in Corrections!Ids \X Corrections!Revs |-> IF kr \in S THEN status ELSE crosswalk[kr]]
  BY DEF Corrections!PutIds, Corrections!legacy
<1>2. Corrections!TypeOK
  BY DEF ReviewInv
<1>3. Settled /\ \A k \in Corrections!Rows : Uniform(k)'
  BY <1>1, <1>2, ReviewTypes, Unapproved
<1>4. crosswalk' \in [Corrections!Ids \X Corrections!Revs -> {"absent", "staged", "approved"}]
  BY <1>1, <1>2, ReviewTypes
<1>5. IdsStay
  BY <1>1 DEF IdsStay
<1> QED BY <1>1, <1>3, <1>4, <1>5, ReviewMoves

\* Commands that put corrections leave the rest alone.
LEMMA PutKeeps ==
  ASSUME ReviewInv, NEW new, Corrections!Put(new),
         review' \in [Pairs -> Corrections!Corrections \cup {None}] => Settled /\ \A k \in Corrections!Rows : Uniform(k)',
         \A kr \in Pairs : kr \in DOMAIN new => new[kr] \in Corrections!Corrections
  PROVE  ReviewInv'
<1>1. /\ UNCHANGED <<rev, matched, sourced, crosswalk, facts, backfill, moved, complete>>
      /\ review' = [kr \in Pairs |-> IF kr \in DOMAIN new THEN new[kr] ELSE review[kr]]
  BY DEF Corrections!Put, Corrections!legacy, Pairs
<1>2. review' \in [Pairs -> Corrections!Corrections \cup {None}] /\ crosswalk' = crosswalk
  BY <1>1, ReviewTypes DEF ReviewInv
<1>3. crosswalk' \in [Corrections!Ids \X Corrections!Revs -> {"absent", "staged", "approved"}]
  BY <1>1, ReviewTypes DEF ReviewInv
<1> QED BY <1>1, <1>2, <1>3, ReviewMoves DEF IdsStay

\* Staging and enriching touch candidates only.
LEMMA StagingStep ==
  ASSUME ReviewInv, Corrections!StageCorrections \/ Corrections!StageListings
  PROVE  ReviewInv'
<1>0. Corrections!TypeOK /\ review \in [Pairs -> Corrections!Corrections \cup {None}]
  BY ReviewTypes DEF ReviewInv
<1>1. CASE Corrections!StageCorrections
  <2>1. PICK S \in SUBSET {Corrections!Current(k) : k \in Corrections!Stageable} :
          Corrections!Put([kr \in S |-> Corrections!Candidate])
    BY <1>1 DEF Corrections!StageCorrections, Corrections!Written
  <2>2. Corrections!Candidate \in Corrections!Corrections /\ Corrections!Candidate.batch = 0
    BY DEF Corrections!Candidate, Corrections!Who, Corrections!Corrections
  <2>3. \A kr \in S : ~Corrections!Approved(kr)
    <3> SUFFICES ASSUME NEW k \in Corrections!Stageable PROVE ~Corrections!Approved(Corrections!Current(k))
      OBVIOUS
    <3> QED BY DEF Corrections!Stageable, Corrections!Refreshable, Corrections!Pending, Corrections!Approved
  <2> DEFINE new == [kr \in S |-> Corrections!Candidate]
  <2>4. DOMAIN new = S /\ \A kr \in S : new[kr] = Corrections!Candidate
    OBVIOUS
  <2> HIDE DEF new
  <2>5. review' = [kr \in Pairs |-> IF kr \in S THEN new[kr] ELSE review[kr]]
    BY <2>1, <2>4 DEF Corrections!Put, Pairs, new
  <2>6. review' \in [Pairs -> Corrections!Corrections \cup {None}] => Settled /\ \A k \in Corrections!Rows : Uniform(k)'
    BY <2>2, <2>3, <2>4, <2>5, Unapproved
  <2> QED BY <2>1, <2>2, <2>4, <2>6, PutKeeps DEF new
<1>2. CASE Corrections!StageListings
  <2>1. PICK S \in SUBSET {Corrections!Current(t) : t \in Corrections!Listable} :
          Corrections!Put([kr \in S |-> [review[kr] EXCEPT !.listed = TRUE]])
    BY <1>2 DEF Corrections!StageListings
  <2>2. ASSUME NEW kr \in S
        PROVE  /\ ~Corrections!Approved(kr)
               /\ [review[kr] EXCEPT !.listed = TRUE] \in Corrections!Corrections
               /\ [review[kr] EXCEPT !.listed = TRUE].batch = 0
    <3>1. PICK t \in Corrections!Listable : kr = Corrections!Current(t)
      BY <2>2
    <3>2. Corrections!Pending(kr) /\ t \in Corrections!Rows
      BY <3>1 DEF Corrections!Listable, Corrections!Rows
    <3>3. kr \in Pairs
      BY <1>0, <3>1, <3>2, ReviewTypes
    <3>4. review[kr] \in Corrections!Corrections /\ review[kr].batch = 0
      BY <1>0, <3>2, <3>3 DEF Corrections!Pending, Corrections!Exists
    <3>5. ~Corrections!Approved(kr)
      BY <3>2 DEF Corrections!Pending, Corrections!Approved
    <3>6. /\ [review[kr] EXCEPT !.listed = TRUE] \in Corrections!Corrections
          /\ [review[kr] EXCEPT !.listed = TRUE].batch = 0
      BY <3>4 DEF Corrections!Corrections
    <3> QED BY <3>5, <3>6
  <2> DEFINE new == [kr \in S |-> [review[kr] EXCEPT !.listed = TRUE]]
  <2>4. DOMAIN new = S /\ \A kr \in S : new[kr] \in Corrections!Corrections /\ new[kr].batch = 0
    BY <2>2
  <2> HIDE DEF new
  <2>5. review' = [kr \in Pairs |-> IF kr \in S THEN new[kr] ELSE review[kr]]
    BY <2>1, <2>4 DEF Corrections!Put, Pairs, new
  <2>6. review' \in [Pairs -> Corrections!Corrections \cup {None}] => Settled /\ \A k \in Corrections!Rows : Uniform(k)'
    BY <2>2, <2>4, <2>5, Unapproved
  <2> QED BY <2>1, <2>4, <2>6, PutKeeps DEF new
<1> QED BY <1>1, <1>2

\* The next batch of a row has a number of its own, after all that it has.
LEMMA NextBatchIs ==
  ASSUME Corrections!TypeOK, NEW k \in Corrections!Rows, Corrections!Acceptable(k)
  PROVE  /\ Corrections!NextBatch(k) \in Nat /\ Corrections!NextBatch(k) > 0
         /\ Corrections!ApprovedOf(k) = {} => Corrections!NextBatch(k) = 1
<1>1. CASE Corrections!ApprovedOf(k) = {}
  BY <1>1 DEF Corrections!NextBatch
<1>2. CASE Corrections!ApprovedOf(k) # {}
  <2> DEFINE last == CHOOSE r \in Corrections!Newest(k) : TRUE
  <2>1. last \in Corrections!Newest(k)
    BY <1>2 DEF Corrections!Acceptable
  <2>2. last \in Corrections!ApprovedOf(k)
    BY <2>1 DEF Corrections!Newest
  <2>5. Corrections!NextBatch(k) = 1 + review[<<k, last>>].batch
    BY <1>2 DEF Corrections!NextBatch
  <2> HIDE DEF last
  <2>3. <<k, last>> \in Pairs /\ Corrections!Approved(<<k, last>>)
    BY <2>2 DEF Corrections!ApprovedOf, Pairs
  <2>4. review[<<k, last>>].batch \in Nat
    BY <2>3, ReviewTypes DEF Corrections!Approved, Corrections!Exists, Corrections!Corrections
  <2> QED BY <1>2, <2>4, <2>5
<1> QED BY <1>1, <1>2

\* A batch is approved that agrees with what is approved, or is the first.
LEMMA ApprovalStep ==
  ASSUME ReviewInv, Corrections!ApproveCorrections
  PROVE  ReviewInv'
<1>0. Corrections!TypeOK /\ review \in [Pairs -> Corrections!Corrections \cup {None}]
  BY ReviewTypes DEF ReviewInv
<1>1. PICK S \in SUBSET Corrections!AllPending :
        Corrections!Put([kr \in S |-> [review[kr] EXCEPT !.batch = Corrections!NextBatch(kr[1])]])
  BY DEF Corrections!ApproveCorrections, Corrections!Written
<1>2. \A k \in Corrections!Rows : Corrections!Acceptable(k)
  BY DEF Corrections!ApproveCorrections
<1> DEFINE new == [kr \in S |-> [review[kr] EXCEPT !.batch = Corrections!NextBatch(kr[1])]]
<1>3. ASSUME NEW kr \in S
      PROVE  /\ kr \in Pairs /\ Corrections!Pending(kr) /\ ~Corrections!Approved(kr)
             /\ new[kr] \in Corrections!Corrections /\ new[kr].batch = Corrections!NextBatch(kr[1])
             /\ new[kr].batch > 0 /\ Decision(new[kr]) = Decision(review[kr])
  <2>1. kr \in Pairs /\ Corrections!Pending(kr)
    BY <1>3 DEF Corrections!AllPending, Pairs
  <2>2. kr[1] \in Corrections!Rows
    BY <2>1 DEF Pairs
  <2>3. review[kr] \in Corrections!Corrections /\ review[kr].batch = 0
    BY <1>0, <2>1 DEF Corrections!Pending, Corrections!Exists
  <2>4. Corrections!NextBatch(kr[1]) \in Nat /\ Corrections!NextBatch(kr[1]) > 0
    BY <1>0, <1>2, <2>2, NextBatchIs
  <2>5. new[kr] = [review[kr] EXCEPT !.batch = Corrections!NextBatch(kr[1])]
    BY <1>3
  <2> QED BY <2>1, <2>3, <2>4, <2>5
          DEF Corrections!Corrections, Decision, Corrections!Semantics, Corrections!Approved
<1>4. DOMAIN new = S
  OBVIOUS
<1> HIDE DEF new
<1>5. review' = [kr \in Pairs |-> IF kr \in S THEN new[kr] ELSE review[kr]]
  BY <1>1, <1>4 DEF Corrections!Put, Pairs, new
<1>6. /\ \A kr \in S : review'[kr] = new[kr]
      /\ \A kr \in Pairs \ S : review'[kr] = review[kr]
      /\ review' \in [Pairs -> Corrections!Corrections \cup {None}]
  BY <1>0, <1>3, <1>5
<1>7. Settled
  BY <1>3, <1>6 DEF Settled
<1>8. ASSUME NEW k \in Corrections!Rows PROVE Uniform(k)'
  <2>1. CASE Corrections!Contradictory(k)
    BY <1>7, <2>1, ContradictionStays DEF Uniform
  <2>2. ASSUME NEW r \in Corrections!ApprovedOf(k)'
        PROVE  /\ r \in Corrections!Revs /\ Decision(review'[<<k, r>>]) = Decision(review[<<k, r>>])
               /\ \/ r \in Corrections!ApprovedOf(k)
                  \/ r \in Corrections!PendingOf(k) /\ review'[<<k, r>>].batch = Corrections!NextBatch(k)
    <3>1. r \in Corrections!Revs /\ <<k, r>> \in Pairs /\ Corrections!Approved(<<k, r>>)'
      BY <2>2 DEF Corrections!ApprovedOf, Pairs
    <3>2. CASE <<k, r>> \in S
      BY <1>3, <1>6, <3>1, <3>2 DEF Corrections!PendingOf
    <3>3. CASE <<k, r>> \notin S
      BY <1>6, <3>1, <3>3 DEF Corrections!ApprovedOf, Corrections!Approved, Corrections!Exists
    <3> QED BY <3>2, <3>3
  <2>3. CASE ~Corrections!Contradictory(k) /\ Corrections!ApprovedOf(k) # {}
    <3>1. PICK prior \in Corrections!Newest(k) : Corrections!UnchangedFrom(k, prior)
      BY <1>2, <2>3 DEF Corrections!Acceptable
    <3>2. prior \in Corrections!ApprovedOf(k)
      BY DEF Corrections!Newest
    <3>3. \A r \in Corrections!ApprovedOf(k) : Decision(review[<<k, r>>]) = Decision(review[<<k, prior>>])
      BY <2>3, <3>2 DEF ReviewInv, Uniform
    <3>4. \A r \in Corrections!PendingOf(k) : Decision(review[<<k, r>>]) = Decision(review[<<k, prior>>])
      BY <3>1 DEF Corrections!UnchangedFrom, Decision
    <3>5. \A r \in Corrections!ApprovedOf(k)' : Decision(review'[<<k, r>>]) = Decision(review[<<k, prior>>])
      BY <2>2, <3>3, <3>4
    <3> QED BY <3>5 DEF Uniform, Decision, Corrections!Semantics
  <2>4. CASE Corrections!ApprovedOf(k) = {}
    <3>1. \A r \in Corrections!ApprovedOf(k)' : review'[<<k, r>>].batch = Corrections!NextBatch(k)
      BY <2>2, <2>4
    <3> QED BY <3>1 DEF Uniform, Corrections!Contradictory, Decision, Corrections!Semantics
  <2> QED BY <2>1, <2>3, <2>4
<1>9. \A kr \in Pairs : kr \in DOMAIN new => new[kr] \in Corrections!Corrections
  BY <1>3, <1>4
<1> QED BY <1>1, <1>7, <1>8, <1>9, PutKeeps DEF new

\* The validations and failures of a backfill move nothing else; what they find stays found.
LEMMA BackfillMoves ==
  ASSUME ReviewInv, UNCHANGED <<rev, matched, sourced, crosswalk, review, facts, complete>>,
         backfill' \in {"none", "reviewed", "passed", "filings"}, moved' \in BOOLEAN,
         backfill' \in {"passed", "filings"} /\ ~moved' => Corrections!CurrentApproved
  PROVE  ReviewInv'
<1>1. Corrections!TypeOK'
  BY DEF ReviewInv, Corrections!TypeOK
<1>2. \A k \in Corrections!Rows : Uniform(k)' /\ Decided(k)'
  <2> SUFFICES ASSUME NEW k \in Corrections!Rows PROVE Uniform(k)' /\ Decided(k)'
    OBVIOUS
  <2>1. Corrections!ApprovedOf(k)' = Corrections!ApprovedOf(k)
    BY DEF Corrections!ApprovedOf, Corrections!Approved, Corrections!Exists
  <2>2. Corrections!Contradictory(k)' = Corrections!Contradictory(k)
    BY <2>1 DEF Corrections!Contradictory, Corrections!Semantics
  <2> QED BY <2>1, <2>2 DEF ReviewInv, Uniform, Decided, Decision, Corrections!Semantics
<1>3. \A k \in Corrections!Rows : Loaded(k)' = Loaded(k)
  BY DEF Loaded, Corrections!Approved, Corrections!Exists, Corrections!Current, Decision, Corrections!Semantics
<1>4. Corrections!CurrentApproved' = Corrections!CurrentApproved
  BY DEF Corrections!CurrentApproved, Corrections!Approved, Corrections!Exists, Corrections!Current
<1> QED BY <1>1, <1>2, <1>3, <1>4 DEF ReviewInv

\* A statement loads rows by the approved corrections of their current revisions.
LEMMA LoadKeeps ==
  ASSUME ReviewInv, NEW S \in SUBSET Corrections!Rows, Corrections!Load(S),
         UNCHANGED <<rev, crosswalk, review>>
  PROVE  /\ facts' \in [Corrections!Rows -> Corrections!Facts \cup {None}]
         /\ \A k \in Corrections!Rows : Decided(k)' /\ (Loaded(k) => Loaded(k)')
         /\ Corrections!CurrentApproved => \A k \in S : Loaded(k)'
<1> DEFINE fact(k) == [rev |-> rev[k], who |-> review[Corrections!Current(k)].who,
                       listed |-> review[Corrections!Current(k)].listed]
<1>0. Corrections!TypeOK
  BY DEF ReviewInv
<1>1. \A k \in Corrections!Rows :
        facts'[k] = IF k \in S /\ Corrections!Admitted(k) THEN fact(k) ELSE facts[k]
  BY DEF Corrections!Load
<1>2. ASSUME NEW k \in Corrections!Rows, Corrections!Approved(Corrections!Current(k))
      PROVE  fact(k) \in Corrections!Facts /\ fact(k) # None
  <2>1. review[Corrections!Current(k)] \in Corrections!Corrections
    BY <1>0, <1>2, ReviewTypes DEF Corrections!Approved, Corrections!Exists
  <2>2. fact(k) \in Corrections!Facts
    BY <1>0, <2>1, ReviewTypes DEF Corrections!Corrections, Corrections!Facts
  <2> HIDE DEF fact
  <2> QED BY <2>2, ReviewAssumptions
<1>3. ASSUME NEW k \in Corrections!Rows, Corrections!Approved(Corrections!Current(k)), facts'[k] = fact(k)
      PROVE  Loaded(k)' /\ Decided(k)'
  <2>1. /\ Corrections!Current(k)' = Corrections!Current(k)
        /\ Decision(fact(k)) = Decision(review[Corrections!Current(k)]) /\ fact(k).rev = rev[k]
    BY DEF Corrections!Current, Decision, Corrections!Semantics
  <2>2. facts'[k] # None
    BY <1>2, <1>3
  <2>3. rev[k] \in Corrections!ApprovedOf(k)
    BY <1>0, <1>3, ReviewTypes DEF Corrections!ApprovedOf, Corrections!Current
  <2>4. Corrections!ApprovedOf(k)' = Corrections!ApprovedOf(k)
    BY DEF Corrections!ApprovedOf, Corrections!Approved, Corrections!Exists
  <2> HIDE DEF fact
  <2>5. Loaded(k)'
    BY <1>3, <2>1, <2>2 DEF Loaded, Corrections!Approved, Corrections!Exists, Decision, Corrections!Semantics
  <2>6. Decided(k)'
    BY <1>3, <2>1, <2>3, <2>4 DEF Decided, Decision, Corrections!Semantics, Corrections!Current
  <2> QED BY <2>5, <2>6
<1>4. Settled
  BY <1>0, ReviewTypes DEF Settled
<1>5. facts' \in [Corrections!Rows -> Corrections!Facts \cup {None}]
  <2>1. \A k \in Corrections!Rows : facts'[k] \in Corrections!Facts \cup {None}
    BY <1>0, <1>1, <1>2, ReviewTypes DEF Corrections!Admitted
  <2> QED BY <2>1 DEF Corrections!Load
<1>6. ASSUME NEW k \in Corrections!Rows PROVE Decided(k)' /\ (Loaded(k) => Loaded(k)')
  <2>1. CASE k \in S /\ Corrections!Admitted(k)
    BY <1>1, <1>3, <2>1 DEF Corrections!Admitted
  <2>2. CASE ~(k \in S /\ Corrections!Admitted(k))
    <3>1. facts'[k] = facts[k]
      BY <1>1, <2>2
    <3> QED BY <1>0, <1>4, <3>1, DecidedStays, LoadedStays DEF ReviewInv
  <2> QED BY <2>1, <2>2
<1>7. ASSUME Corrections!CurrentApproved, NEW k \in S PROVE Loaded(k)'
  <2>1. k \in Corrections!Rows /\ Corrections!Admitted(k)
    BY <1>7 DEF Corrections!CurrentApproved, Corrections!Admitted
  <2> QED BY <1>1, <1>3, <2>1 DEF Corrections!Admitted
<1> QED BY <1>5, <1>6, <1>7

\* Every step of the review and of the backfill keeps the invariant.
LEMMA ReviewStep == ReviewInv /\ Corrections!Next => ReviewInv'
<1> SUFFICES ASSUME ReviewInv, Corrections!Next PROVE ReviewInv'
  OBVIOUS
<1> USE DEF Corrections!legacy, Corrections!tables, Corrections!Step
<1>0. /\ Corrections!TypeOK /\ backfill \in {"none", "reviewed", "passed", "filings", "trades"}
      /\ moved \in BOOLEAN /\ complete \in BOOLEAN
  BY DEF ReviewInv, Corrections!TypeOK
<1>1. CASE Corrections!StageIds
  <2>1. PICK S \in SUBSET Corrections!NewIds : Corrections!PutIds(S, "staged")
    BY <1>1 DEF Corrections!StageIds, Corrections!Written
  <2>2. /\ S \subseteq Corrections!Ids \X Corrections!Revs
        /\ \A kr \in S : crosswalk[kr] = "absent"
    BY DEF Corrections!NewIds
  <2> QED BY <2>1, <2>2, PutIdsKeeps
<1>2. CASE Corrections!ApproveIds
  <2>1. PICK S \in SUBSET Corrections!StagedIds : Corrections!PutIds(S, "approved")
    BY <1>2 DEF Corrections!ApproveIds, Corrections!Written
  <2>2. S \subseteq Corrections!Ids \X Corrections!Revs
    BY DEF Corrections!StagedIds
  <2> QED BY <2>1, <2>2, PutIdsKeeps
<1>3. CASE Corrections!ApproveRefused
  BY <1>0, <1>3, BackfillMoves DEF Corrections!ApproveRefused, Corrections!Free, Corrections!vars, ReviewInv
<1>4. CASE Corrections!ValidateReviewed \/ Corrections!BackfillFails
  <2>1. /\ UNCHANGED <<rev, matched, sourced, crosswalk, review, facts, complete>>
        /\ backfill' \in {"none", "reviewed"} /\ moved' \in BOOLEAN
    BY <1>0, <1>4 DEF Corrections!ValidateReviewed, Corrections!BackfillFails
  <2> QED BY <2>1, BackfillMoves
<1>5. CASE Corrections!ValidateCurrent
  <2>1. /\ UNCHANGED <<rev, matched, sourced, crosswalk, review, facts, complete>>
        /\ backfill' = IF Corrections!CurrentApproved THEN "passed" ELSE "none"
        /\ moved' = (moved /\ Corrections!CurrentApproved)
    BY <1>5 DEF Corrections!ValidateCurrent
  <2>2. moved' \in BOOLEAN
    BY <2>1
  <2> QED BY <2>1, <2>2, BackfillMoves
<1>6. CASE Corrections!LockBackfill
  <2>1. /\ UNCHANGED <<rev, matched, sourced, crosswalk, review, facts, complete, moved>>
        /\ backfill = "passed" /\ backfill' = "filings"
    BY <1>6 DEF Corrections!LockBackfill
  <2> QED BY <1>0, <2>1, BackfillMoves DEF ReviewInv
<1>7. CASE Corrections!LoadFilings \/ Corrections!LoadTrades
  <2> DEFINE S == IF Corrections!LoadFilings THEN Filings ELSE Trades
  <2>1. /\ S \subseteq Corrections!Rows /\ Corrections!Load(S)
        /\ UNCHANGED <<rev, matched, sourced, crosswalk, review>>
    BY <1>7 DEF Corrections!LoadFilings, Corrections!LoadTrades, Corrections!Rows
  <2>2. /\ facts' \in [Corrections!Rows -> Corrections!Facts \cup {None}]
        /\ \A k \in Corrections!Rows : Decided(k)' /\ (Loaded(k) => Loaded(k)')
        /\ Corrections!CurrentApproved => \A k \in S : Loaded(k)'
    <3> HIDE DEF S
    <3> QED BY <2>1, LoadKeeps
  <2>3. ASSUME NEW k \in Corrections!Rows PROVE Uniform(k)'
    <3>1. Corrections!ApprovedOf(k)' = Corrections!ApprovedOf(k)
      BY <2>1 DEF Corrections!ApprovedOf, Corrections!Approved, Corrections!Exists
    <3>2. Corrections!Contradictory(k)' = Corrections!Contradictory(k)
      BY <2>1, <3>1 DEF Corrections!Contradictory, Corrections!Semantics
    <3> QED BY <2>1, <3>1, <3>2 DEF ReviewInv, Uniform, Decision, Corrections!Semantics
  <2>4. Corrections!CurrentApproved' = Corrections!CurrentApproved
    BY <2>1 DEF Corrections!CurrentApproved, Corrections!Approved, Corrections!Exists, Corrections!Current
  <2>5. CASE Corrections!LoadFilings
    <3>1. backfill = "filings" /\ backfill' = "trades" /\ UNCHANGED <<moved, complete>> /\ S = Filings
      BY <2>5 DEF Corrections!LoadFilings
    <3>2. Corrections!TypeOK'
      BY <1>0, <2>1, <2>2, <3>1 DEF Corrections!TypeOK
    <3> QED BY <2>2, <2>3, <2>4, <3>1, <3>2 DEF ReviewInv
  <2>6. CASE Corrections!LoadTrades
    <3>1. /\ backfill = "trades" /\ backfill' = "none" /\ complete' = ~moved /\ moved' = FALSE
          /\ S = Trades
      BY <2>6 DEF Corrections!LoadTrades, Corrections!LoadFilings
    <3>2. complete' \in BOOLEAN
      BY <3>1
    <3>3. Corrections!TypeOK'
      BY <1>0, <2>1, <2>2, <3>1, <3>2 DEF Corrections!TypeOK
    <3>4. complete' => \A k \in Corrections!Rows : Loaded(k)'
      BY <2>2, <3>1 DEF ReviewInv, Corrections!Rows
    <3> QED BY <2>2, <2>3, <3>1, <3>3, <3>4 DEF ReviewInv
  <2> QED BY <1>7, <2>5, <2>6
<1>8. ASSUME NEW k \in Rewritten, Corrections!Rewrite(k) PROVE ReviewInv'
  <2>1. /\ rev' = [rev EXCEPT ![k] = rev[k] + 1] /\ rev[k] < MaxRev
        /\ matched' \in {matched \ {k}, matched \cup ({k} \cap Trades)}
        /\ moved' = (backfill # "none") /\ complete' = FALSE
        /\ UNCHANGED <<sourced, crosswalk, review, facts, backfill>>
    BY <1>8 DEF Corrections!Rewrite
  <2>2. rev' \in [Corrections!Rows \cup Corrections!Ids -> Corrections!Revs]
    <3>1. CASE k \in Corrections!Rows \cup Corrections!Ids
      <4>1. rev[k] \in 1 .. MaxRev
        BY <1>0, <3>1, ReviewTypes DEF Corrections!Revs
      <4>2. rev[k] + 1 \in Corrections!Revs
        BY <2>1, <4>1, ReviewAssumptions DEF Corrections!Revs
      <4> QED BY <1>0, <2>1, <4>2, ReviewTypes
    <3>2. CASE k \notin Corrections!Rows \cup Corrections!Ids
      <4>1. rev' = rev
        BY <1>0, <2>1, <3>2, ReviewTypes
      <4> QED BY <1>0, <4>1, ReviewTypes
    <3> QED BY <3>1, <3>2
  <2>3. matched' \subseteq Trades /\ moved' \in BOOLEAN
    BY <1>0, <2>1 DEF Corrections!TypeOK
  <2>4. Corrections!TypeOK'
    BY <1>0, <2>1, <2>2, <2>3 DEF Corrections!TypeOK
  <2>5. ASSUME NEW j \in Corrections!Rows PROVE Uniform(j)' /\ Decided(j)'
    <3>1. Corrections!ApprovedOf(j)' = Corrections!ApprovedOf(j)
      BY <2>1 DEF Corrections!ApprovedOf, Corrections!Approved, Corrections!Exists
    <3>2. Corrections!Contradictory(j)' = Corrections!Contradictory(j)
      BY <2>1, <3>1 DEF Corrections!Contradictory, Corrections!Semantics
    <3> QED BY <2>1, <3>1, <3>2 DEF ReviewInv, Uniform, Decided, Decision, Corrections!Semantics
  <2> QED BY <2>1, <2>4, <2>5 DEF ReviewInv
<1> QED
  BY <1>1, <1>2, <1>3, <1>4, <1>5, <1>6, <1>7, <1>8, StagingStep, ApprovalStep DEF Corrections!Next

\* A fact that is loaded again has the decision it had.
LEMMA FactStep ==
  ASSUME ReviewInv, Corrections!Next, NEW k \in Corrections!Rows, facts[k] # None, facts'[k] # facts[k]
  PROVE  Corrections!Semantics(facts'[k]) = Corrections!Semantics(facts[k]) \/ Corrections!Contradictory(k)
<1>1. CASE Corrections!LoadFilings \/ Corrections!LoadTrades
  <2> DEFINE S == IF Corrections!LoadFilings THEN Filings ELSE Trades
  <2>1. Corrections!Load(S)
    BY <1>1 DEF Corrections!LoadFilings, Corrections!LoadTrades
  <2>2. /\ Corrections!Approved(Corrections!Current(k))
        /\ facts'[k] = [rev |-> rev[k], who |-> review[Corrections!Current(k)].who,
                        listed |-> review[Corrections!Current(k)].listed]
    BY <2>1 DEF Corrections!Load, Corrections!Admitted
  <2>3. Decision(facts'[k]) = Decision(review[<<k, rev[k]>>])
    BY <2>2 DEF Decision, Corrections!Semantics, Corrections!Current
  <2>4. rev[k] \in Corrections!ApprovedOf(k)
    BY <2>2, ReviewTypes DEF ReviewInv, Corrections!ApprovedOf, Corrections!Current
  <2>5. PICK r \in Corrections!ApprovedOf(k) : Decision(facts[k]) = Decision(review[<<k, r>>])
    BY DEF ReviewInv, Decided
  <2>6. Corrections!Contradictory(k) \/ Decision(review[<<k, r>>]) = Decision(review[<<k, rev[k]>>])
    BY <2>4 DEF ReviewInv, Uniform
  <2> QED BY <2>3, <2>5, <2>6 DEF Decision
<1>2. CASE ~(Corrections!LoadFilings \/ Corrections!LoadTrades)
  <2>1. facts' = facts
    BY <1>2 DEF Corrections!Next, Corrections!StageIds, Corrections!ApproveIds, Corrections!PutIds,
       Corrections!StageCorrections, Corrections!StageListings, Corrections!ApproveCorrections,
       Corrections!Put, Corrections!ApproveRefused, Corrections!vars, Corrections!tables,
       Corrections!ValidateReviewed, Corrections!ValidateCurrent, Corrections!LockBackfill,
       Corrections!BackfillFails, Corrections!Step, Corrections!Rewrite
  <2> QED BY <2>1
<1> QED BY <1>1, <1>2

-----------------------------------------------------------------------------
(* The commands together. *)

\* Both components begin in their invariants.
LEMMA CutoverBegins == CutoverInit => ExchangeInv /\ ReviewInv
<1> SUFFICES ASSUME Corrections!Init, Exchange!Init PROVE ExchangeInv /\ ReviewInv
  BY DEF CutoverInit
<1>1. ExchangeInv
  <2>1. /\ canonical = [t \in Exchange!Table |-> FALSE]
        /\ holds = [t \in Exchange!Table |-> [n \in Exchange!Names |-> 0]]
        /\ written = [t \in Exchange!Table |-> 0]
        /\ process = [o \in Scripts |-> Exchange!Idle]
        /\ exposed = [t \in Exchange!Table |-> FALSE]
    BY DEF Exchange!Init
  <2>2. Exchange!TypeOK
    BY <2>1, ExchangeTypes
  <2> QED BY <2>1, <2>2 DEF ExchangeInv, Exchange!ExchangeHidesNothing, Exchange!ExactCopy, Exchange!Names
<1>2. ReviewInv
  <2>1. /\ rev = [k \in Corrections!Rows \cup Corrections!Ids |-> 1]
        /\ matched \subseteq Trades /\ sourced \in BOOLEAN
        /\ crosswalk = [kr \in Corrections!Ids \X Corrections!Revs |-> "absent"]
        /\ review = [kr \in Pairs |-> None]
        /\ facts = [k \in Corrections!Rows |-> None]
        /\ backfill = "none" /\ moved = FALSE /\ complete = FALSE
    BY DEF Corrections!Init, Pairs
  <2>2. 1 \in Corrections!Revs
    BY ReviewAssumptions DEF Corrections!Revs
  <2>3. Corrections!TypeOK
    BY <2>1, <2>2 DEF Corrections!TypeOK, Pairs
  <2>4. \A k \in Corrections!Rows : Corrections!ApprovedOf(k) = {}
    BY <2>1 DEF Corrections!ApprovedOf, Corrections!Approved, Corrections!Exists, Pairs
  <2> QED BY <2>1, <2>3, <2>4 DEF ReviewInv, Uniform, Decided
<1> QED BY <1>1, <1>2

\* Each command keeps its invariant and leaves the others' variables alone.
LEMMA CutoverStep == ExchangeInv /\ ReviewInv /\ [CutoverNext]_allVars => (ExchangeInv /\ ReviewInv)'
<1> SUFFICES ASSUME ExchangeInv, ReviewInv, [CutoverNext]_allVars PROVE (ExchangeInv /\ ReviewInv)'
  OBVIOUS
<1>1. UNCHANGED exchangeVars => ExchangeInv'
  <2> SUFFICES ASSUME UNCHANGED <<canonical, holds, written, process, exposed>> PROVE ExchangeInv'
    BY DEF exchangeVars
  <2> QED BY DEF ExchangeInv, Exchange!TypeOK, Exchange!ExchangeHidesNothing, Exchange!ExactCopy,
             Exchange!Compared, Exchange!At
<1>2. UNCHANGED reviewVars => ReviewInv'
  <2> SUFFICES ASSUME UNCHANGED <<rev, matched, sourced, crosswalk, review, facts, backfill, moved, complete>>
               PROVE  ReviewInv'
    BY DEF reviewVars
  <2>1. CASE backfill # "trades"
    <3>1. backfill \in {"none", "reviewed", "passed", "filings"} /\ moved \in BOOLEAN
      BY <2>1 DEF ReviewInv, Corrections!TypeOK
    <3> QED BY <3>1, BackfillMoves DEF ReviewInv
  <2>2. CASE backfill = "trades"
    <3>1. Settled /\ IdsStay /\ crosswalk \in [Corrections!Ids \X Corrections!Revs -> {"absent", "staged", "approved"}]
      BY ReviewTypes DEF ReviewInv, Settled, IdsStay
    <3>2. \A k \in Corrections!Rows : Uniform(k)'
      BY <3>1, Unapproved DEF Settled
    <3> QED BY <3>1, <3>2, ReviewMoves
  <2> QED BY <2>1, <2>2
<1>3. CASE Review(Corrections!Next)
  BY <1>1, <1>3, ReviewStep DEF Review
<1>4. CASE Swap(Exchange!Next)
  BY <1>2, <1>4, ExchangeStep DEF Swap
<1>5. CASE UNCHANGED <<reviewVars, exchangeVars>>
  BY <1>1, <1>2, <1>5
<1> QED BY <1>3, <1>4, <1>5 DEF CutoverNext, Activate, allVars

\* An exchange hides no row its comparison had seen, however many invocations overlap, die or
\* are repeated, over any number of tables.
THEOREM RowsStayVisible == CutoverSpec => []ExchangeHidesNothing
<1>1. ExchangeInv => ExchangeHidesNothing
  BY DEF ExchangeInv, ExchangeHidesNothing
<1> QED BY <1>1, CutoverBegins, CutoverStep, PTL DEF CutoverSpec

\* A backfill that succeeds has loaded every row by the approved correction of its current
\* revision, for any rows and revisions.
THEOREM BackfillLoads == CutoverSpec => []SuccessIsLoaded
<1>1. ReviewInv => SuccessIsLoaded
  BY DEF ReviewInv, Loaded, SuccessIsLoaded, Corrections!SuccessIsLoaded, Decision
<1> QED BY <1>1, CutoverBegins, CutoverStep, PTL DEF CutoverSpec

\* A loaded fact keeps its decision through every rewrite, restaging, enrichment and partial
\* approval, unless one batch contradicted itself.
THEOREM DecisionsStay == CutoverSpec => FactKept
<1> DEFINE Kept == \A k \in Corrections!Rows : facts[k] # None /\ facts'[k] # facts[k] =>
          Corrections!Semantics(facts'[k]) = Corrections!Semantics(facts[k]) \/ Corrections!Contradictory(k)
<1>1. ReviewInv /\ [CutoverNext]_allVars => [Kept]_(Corrections!vars)
  <2> SUFFICES ASSUME ReviewInv, CutoverNext, ~UNCHANGED Corrections!vars PROVE Kept
    BY DEF allVars, reviewVars, Corrections!vars, Corrections!legacy, Corrections!tables
  <2>1. Corrections!Next
    BY DEF CutoverNext, Review, Swap, Activate, reviewVars, Corrections!vars, Corrections!legacy,
           Corrections!tables
  <2> QED BY <2>1, FactStep
<1> HIDE DEF Kept
<1>2. CutoverSpec => [][Kept]_(Corrections!vars)
  BY <1>1, CutoverBegins, CutoverStep, PTL DEF CutoverSpec
<1> QED BY <1>2 DEF FactKept, Corrections!FactKept, Kept

\* Beside the other commands of the move a release keeps what it promises alone.
THEOREM ReleaseHolds ==
  CutoverSpec => [](NoLegacyWriter /\ CronAfterWrites /\ CurrentVerified /\ RestoredIsPrevious)
<1>1. CutoverInit => IInv
  BY InvInit DEF CutoverInit
<1>2. IInv /\ [CutoverNext]_allVars => IInv'
  <2>1. [CutoverNext]_allVars => [Next]_vars
    BY DEF CutoverNext, Review, Swap, Activate, allVars
  <2> QED BY <2>1, InvStep
<1>3. IInv => NoLegacyWriter /\ CronAfterWrites /\ CurrentVerified /\ RestoredIsPrevious
  <2>1. IInv => NoLegacyWriter /\ CronAfterWrites /\ CurrentVerified
    BY DEF IInv, HostSound
  <2>2. IInv => RestoredIsPrevious
    BY RestoringFacts DEF IInv, Sound, Restoring, RestoredIsPrevious, At
  <2> QED BY <2>1, <2>2
<1> QED BY <1>1, <1>2, <1>3, PTL DEF CutoverSpec

=============================================================================
