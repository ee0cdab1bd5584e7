------------------------------ MODULE RunLock ------------------------------
(* The lock file of the orchestrators (shared/runtime/lock.py).  A process tests the
   file, opens it, writes the time into it, does its work and unlinks it; nothing links
   the file to the process that wrote it.  What a process does while it is "in" is the
   business of the module that extends this one.  A unit of time is an hour. *)
EXTENDS Naturals

CONSTANTS
  Procs,   \* processes that may run an orchestrator
  Stale    \* stale_seconds: the age from which a lock counts as a remnant

ASSUME StaleAssumption == Stale \in Nat \ {0}

VARIABLES
  lockFile,   \* what is on disk: no file, an empty one, or the age of started_at
  stage,      \* how far each process is in acquire_lock
  inside,     \* history: hours since each process wrote the file
  raced,      \* history: two processes were between their test and their write
  overran     \* history: a run lasted until its lock was stale

lockVars == <<lockFile, stage, inside, raced, overran>>

Absent   == [is |-> "absent", age |-> 0]
Empty    == [is |-> "empty", age |-> 0]
Held(n)  == [is |-> "held", age |-> n]
Hour(n, cap) == IF n < cap THEN n + 1 ELSE cap

LockTypeOK ==
  /\ lockFile \in [is : {"absent", "empty", "held"}, age : 0 .. Stale]
  /\ stage \in [Procs -> {"out", "tested", "opened", "in"}]
  /\ inside \in [Procs -> 0 .. Stale]
  /\ raced \in BOOLEAN
  /\ overran \in BOOLEAN

LockInit ==
  /\ lockFile = Absent
  /\ stage = [p \in Procs |-> "out"]
  /\ inside = [p \in Procs |-> 0]
  /\ raced = FALSE
  /\ overran = FALSE

FreeEarly(file) == file.is # "held" \/ file.age + 1 >= Stale

\* The test at the top of acquire_lock: no file, a malformed one, or a stale one.  A
\* process that finds a fresh lock exits with EXIT_LOCK_HELD.
Free(file) ==
  \/ file.is \in {"absent", "empty"}
  \/ file.is = "held" /\ file.age >= Stale

\* The processes that have passed the test and not yet written the time.
Entering == {p \in Procs : stage[p] \in {"tested", "opened"}}

TestLock(p) ==
  /\ stage[p] = "out"
  /\ Free(lockFile)
  /\ stage' = [stage EXCEPT ![p] = "tested"]
  /\ raced' = (raced \/ Entering # {})
  /\ UNCHANGED <<lockFile, inside, overran>>

\* write_text truncates the file before it writes.
OpenLock(p) ==
  /\ stage[p] = "tested"
  /\ stage' = [stage EXCEPT ![p] = "opened"]
  /\ lockFile' = Empty
  /\ UNCHANGED <<inside, raced, overran>>

StampLock(p) ==
  /\ stage[p] = "opened"
  /\ stage' = [stage EXCEPT ![p] = "in"]
  /\ lockFile' = Held(0)
  /\ inside' = [inside EXCEPT ![p] = 0]
  /\ UNCHANGED <<raced, overran>>

\* The finally clause: whoever's file it is, it goes.
Unlink(p) ==
  /\ stage[p] = "in"
  /\ stage' = [stage EXCEPT ![p] = "out"]
  /\ lockFile' = Absent
  /\ inside' = [inside EXCEPT ![p] = 0]
  /\ UNCHANGED <<raced, overran>>

\* A killed process leaves the file as it is.
Die(p) ==
  /\ stage[p] # "out"
  /\ stage' = [stage EXCEPT ![p] = "out"]
  /\ inside' = [inside EXCEPT ![p] = 0]
  /\ UNCHANGED <<lockFile, raced, overran>>

\* Opening and writing the file takes no hour.
LockAges ==
  /\ Entering = {}
  /\ lockFile' = [lockFile EXCEPT !.age = IF lockFile.is = "held" THEN Hour(@, Stale) ELSE @]
  /\ inside' = [p \in Procs |-> IF stage[p] = "in" THEN Hour(inside[p], Stale) ELSE 0]
  /\ overran' = (overran \/ \E p \in Procs : stage[p] = "in" /\ inside[p] + 1 >= Stale)
  /\ UNCHANGED <<stage, raced>>

-----------------------------------------------------------------------------
\* lock.py:37 "Refuse to start if another orchestrator is running": at most one process
\* runs, unless two started at the same moment or one outlived the staleness threshold.
\* A crash, a torn lock file and the stealing of a remnant do not break it.
OneRun ==
  ~raced /\ ~overran => \A p, q \in Procs : stage[p] = "in" /\ stage[q] = "in" => p = q

=============================================================================
