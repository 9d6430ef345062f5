-------------------------- MODULE SandboxRun_proofs --------------------------
(***************************************************************************)
(* For any requests, hosts, scripts and descendants: a script runs on the  *)
(* host only when it was asked for (the runner is chosen once, and nothing *)
(* runs before it is); what is to be seen of it is in the result its run   *)
(* is given; and no run but the last leaves its workspace behind.  Inside  *)
(* bubblewrap no analysis is ever stuck, and each step that is not the     *)
(* script's brings its end nearer.                                         *)
(***************************************************************************)
EXTENDS SandboxRun, TLAPS

\* What a runner on the host presupposes.
HostRunIsAsked ==
    runner = "process" =>
        request.mode = "heuristic" /\ ~request.offline /\ ~request.blocked

\* Offline, heuristic analysis has been refused before a runner is chosen.
OfflineWasChecked ==
    stage = "select" => (request.offline => request.mode # "heuristic")

\* Without a runner the scan is before the choice or over, and nothing runs.
NothingRunsBefore ==
    /\ runner \in {"none", "process", "bubblewrap"}
    /\ stage \in {"start", "select", "refused"} => runner = "none"
    /\ runner = "none" => stage \in {"start", "select", "refused", "done", "killed"} /\ ~Running

IInv == HostRunIsAsked /\ OfflineWasChecked /\ NothingRunsBefore

\* The invariant holds when a package comes to its behaviour analysis (Init).
LEMMA InitIInv == Init => IInv
<1> SUFFICES ASSUME Init PROVE IInv
  OBVIOUS
<1>1. ~NoChild.alive
  BY DEF NoChild
<1>2. stage = "start" /\ runner = "none" /\ shell = "none" /\ kids = [k \in Children |-> NoChild]
  BY DEF Init
<1>3. ~Running
  BY <1>1, <1>2 DEF Running, Alive
<1> QED BY <1>2, <1>3 DEF IInv, HostRunIsAsked, OfflineWasChecked, NothingRunsBefore

\* Neither the request nor the runner changes but in SelectRunner: this is what
\* every other action needs to show.
LEMMA RunnerKept ==
  ASSUME IInv, UNCHANGED <<request, runner>>, stage' # "select" \/ stage = "select",
         runner = "none" =>
            /\ stage' \in {"start", "select", "refused", "done", "killed"}
            /\ shell' = shell /\ kids' = kids,
         stage' \in {"start", "select", "refused"} => runner = "none"
  PROVE  IInv'
  BY DEF IInv, HostRunIsAsked, OfflineWasChecked, NothingRunsBefore, Running, Alive

\* The steps of pkgsafe itself: the check of an offline request, the choice of
\* the runner, and what follows it (runner.go SelectRunner, RunLifecycleScript) until it is killed.
LEMMA PkgSafeKeeps == IInv /\ (PkgSafe \/ Crash) => IInv'
<1> SUFFICES ASSUME IInv, PkgSafe \/ Crash PROVE IInv'
  OBVIOUS
<1>1. CASE ValidateOffline
  BY <1>1 DEF ValidateOffline, OfflineAllows, IInv, HostRunIsAsked, OfflineWasChecked,
              NothingRunsBefore, Running, Alive, process
<1>2. CASE SelectRunner
  BY <1>2 DEF SelectRunner, RunnerFor, IInv, HostRunIsAsked, OfflineWasChecked,
              NothingRunsBefore, Running, Alive, process
<1>3. CASE NextScript
  BY <1>3, RunnerKept DEF NextScript, process, IInv, NothingRunsBefore
<1>4. CASE Prepare
  BY <1>4, RunnerKept DEF Prepare, RecordFailure, process, IInv, NothingRunsBefore
<1>5. CASE Start
  <2>1. runner # "none"
    BY <1>5 DEF Start, IInv, NothingRunsBefore
  <2>2. stage' \in {"watch", "observed"} /\ UNCHANGED <<request, runner>>
    BY <1>5 DEF Start
  <2> QED BY <2>1, <2>2, RunnerKept
<1>6. CASE ReceiveExit
  BY <1>6, RunnerKept DEF ReceiveExit, process, IInv, NothingRunsBefore
<1>7. CASE Kill
  <2>1. runner # "none"
    BY <1>7 DEF Kill, IInv, NothingRunsBefore
  <2>2. stage' = "await" /\ UNCHANGED <<request, runner>>
    BY <1>7 DEF Kill
  <2> QED BY <2>1, <2>2, RunnerKept
<1>8. CASE Await
  BY <1>8, RunnerKept DEF Await, process, IInv, NothingRunsBefore
<1>9. CASE Analyze
  BY <1>9, RunnerKept DEF Analyze, process, IInv, NothingRunsBefore
<1>10. CASE CleanUp
  BY <1>10, RunnerKept DEF CleanUp, process, IInv, NothingRunsBefore
<1>11. CASE Fill
  BY <1>11, RunnerKept DEF Fill, RecordFailure, process, IInv, NothingRunsBefore
<1>12. CASE UnlockLevel
  BY <1>12, RunnerKept DEF UnlockLevel, process, IInv, NothingRunsBefore
<1>13. CASE Crash
  <2>1. UNCHANGED <<request, runner, kids>> /\ stage' = "killed"
    BY <1>13 DEF Crash
  <2>2. runner = "none" => shell' = shell
    BY <1>13 DEF Crash, Isolated
  <2> QED BY <2>1, <2>2, RunnerKept
<1> QED BY <1>1, <1>2, <1>3, <1>4, <1>5, <1>6, <1>7, <1>8, <1>9, <1>10, <1>11, <1>12, <1>13
     DEF PkgSafe

\* The steps of a script, the clock and the kernel: all need something to run,
\* and so a runner (the shell and its descendants, process_runner_unix.go).
LEMMA ScriptKeeps == IInv /\ (Expire \/ Reap \/ Collapse \/ Script) => IInv'
<1> SUFFICES ASSUME IInv, Expire \/ Reap \/ Collapse \/ Script PROVE IInv'
  OBVIOUS
<1>1. CASE Expire
  BY <1>1, RunnerKept DEF Expire, process, IInv, NothingRunsBefore
<1>2. CASE Reap
  <2>1. UNCHANGED <<request, runner, stage, kids>> /\ shell' = "reaped" /\ shell = "zombie"
    BY <1>2 DEF Reap
  <2> QED BY <2>1 DEF IInv, HostRunIsAsked, OfflineWasChecked, NothingRunsBefore, Running, Alive
<1>3. CASE Collapse
  BY <1>3, RunnerKept DEF Collapse, Isolated, Unwatched, IInv, NothingRunsBefore
<1>4. CASE Script
  <2>1. CASE LockDirectory
    BY <2>1, RunnerKept DEF LockDirectory, Unwatched, process, IInv, NothingRunsBefore
  <2>2. CASE Exit
    BY <2>2, RunnerKept DEF Exit, Unwatched, IInv, NothingRunsBefore, Running
  <2>3. ASSUME NEW f \in Canaries \cup {"binary"}, Touch(f) \/ Hide(f) \/ Say(f) PROVE IInv'
    BY <2>3, RunnerKept DEF Touch, Hide, Say, Unwatched, process, IInv, NothingRunsBefore
  <2>4. ASSUME NEW k \in Children, Spawn(k) PROVE IInv'
    BY <2>4, RunnerKept DEF Spawn, Unwatched, IInv, NothingRunsBefore, Running
  <2>5. ASSUME NEW k \in Children, Drift(k) PROVE IInv'
    <3>1. runner # "none"
      BY <2>5 DEF Drift, IInv, NothingRunsBefore, Running
    <3>2. UNCHANGED <<request, runner, stage>>
      BY <2>5 DEF Drift, Unwatched
    <3> QED BY <3>1, <3>2, RunnerKept DEF IInv, NothingRunsBefore
  <2> QED BY <1>4, <2>1, <2>2, <2>3, <2>4, <2>5 DEF Script
<1> QED BY <1>1, <1>2, <1>3, <1>4

\* A script runs on the host itself only for a request that asks for heuristic
\* analysis, is not offline, and whose artifact does not block: however its
\* processes behave, and however the probes of bubblewrap turn out.
THEOREM HostRunsAreAskedTheorem == Spec => []HostRunsAreAsked
<1>1. Init => IInv
  BY InitIInv
<1>2. IInv /\ [Next]_vars => IInv'
  <2> SUFFICES ASSUME IInv, [Next]_vars PROVE IInv'
    OBVIOUS
  <2>1. CASE UNCHANGED vars
    BY <2>1 DEF vars, process, IInv, HostRunIsAsked, OfflineWasChecked, NothingRunsBefore,
                Running, Alive
  <2> QED BY <2>1, PkgSafeKeeps, ScriptKeeps DEF Next
<1>3. IInv => HostRunsAreAsked
  BY DEF IInv, HostRunIsAsked, NothingRunsBefore, HostRunsAreAsked, Isolated
<1> QED BY <1>1, <1>2, <1>3, PTL DEF Spec

----------------------------------------------------------------------------
(* What a run leaves: its result and its workspace.                         *)

Observations == [error : BOOLEAN, timedOut : BOOLEAN, findings : SUBSET EnabledRules]

\* One result is appended for each script, and directories are locked one by one.
TypeInv == locks \in Nat /\ passes \in 0..MaxPasses /\ results \in Seq(Observations)

LEMMA ObservationType == Observation \in Observations /\ Failure \in Observations
  BY DEF Observation, Failure, Observations

\* Only Analyze and a preparation that fails add a result.
LEMMA NewResult ==
  ASSUME TypeInv, [Next]_vars
  PROVE  \/ UNCHANGED results
         \/ stage \in {"prepare", "fill"} /\ results' = Append(results, Failure)
         \/ Analyze
  BY Zenon DEF Next, vars, PkgSafe, ValidateOffline, SelectRunner, NextScript, Prepare,
    RecordFailure, Start, ReceiveExit, Kill, Await, UnlockLevel, CleanUp, Expire, Reap, Collapse,
    Script, LockDirectory, Exit, Touch, Hide, Say, Spawn, Drift, Unwatched, Crash, Fill

\* Only preparing, locking a directory and unlocking a level change the locks.
LEMMA Locking ==
  ASSUME TypeInv, [Next]_vars
  PROVE  /\ locks' \in Nat /\ passes' \in 0..MaxPasses
         /\ UNCHANGED locks \/ LockDirectory \/ Prepare \/ UnlockLevel
<1>1. UNCHANGED locks \/ LockDirectory \/ Prepare \/ UnlockLevel
  BY Zenon DEF Next, vars, disk, files, PkgSafe, ValidateOffline, SelectRunner, NextScript,
    Start, ReceiveExit, Kill, Await, Analyze, CleanUp, Expire, Reap, Collapse, Fill, Crash,
    Script, Exit, Touch, Hide, Say, Spawn, Drift
<1>2. UNCHANGED passes \/ Prepare \/ UnlockLevel
  BY Zenon DEF Next, vars, disk, PkgSafe, ValidateOffline, SelectRunner, NextScript,
    Start, ReceiveExit, Kill, Await, Analyze, CleanUp, Expire, Reap, Collapse, Fill, Crash,
    Script, LockDirectory, Exit, Touch, Hide, Say, Spawn, Drift, Unwatched
<1>3. LockDirectory => locks' = locks + 1
  BY Zenon DEF LockDirectory
<1>4. Prepare => locks' = 0 /\ passes' = 0
  BY Zenon DEF Prepare
<1>5. UnlockLevel => /\ locks > 0 /\ locks' = locks - 1
                     /\ passes < MaxPasses /\ passes' = passes + 1
  BY Zenon DEF UnlockLevel, MorePasses
<1>6. locks' \in Nat
  BY <1>1, <1>3, <1>4, <1>5 DEF TypeInv
<1>7. passes' \in 0..MaxPasses
  BY <1>2, <1>4, <1>5, PassesAreNatural DEF TypeInv
<1> QED BY <1>1, <1>6, <1>7

LEMMA TypeCorrect == Spec => []TypeInv
<1>1. Init => TypeInv
  <2>1. Init => locks = 0 /\ passes = 0 /\ results = << >>
    BY Zenon DEF Init
  <2>2. << >> \in Seq(Observations)
    OBVIOUS
  <2> QED BY <2>1, <2>2, PassesAreNatural DEF TypeInv
<1>2. TypeInv /\ [Next]_vars => TypeInv'
  <2> SUFFICES ASSUME TypeInv, [Next]_vars PROVE TypeInv'
    OBVIOUS
  <2>1. locks' \in Nat /\ passes' \in 0..MaxPasses
    BY Locking
  <2>2. results' \in Seq(Observations)
    <3>1. results' = results \/ \E r \in Observations : results' = Append(results, r)
      BY NewResult, ObservationType, Zenon DEF Analyze
    <3>2. results \in Seq(Observations)
      BY DEF TypeInv
    <3> QED BY <3>1, <3>2
  <2> QED BY <2>1, <2>2 DEF TypeInv
<1> QED BY <1>1, <1>2, PTL DEF Spec

\* The result of a script holds what is to be seen of it when it is analysed, whether it
\* exited, timed out or left processes behind, and whatever rules the policy enables
\* (Observation, AnalyzeBehavior).
LEMMA ObservationReports == stage = "observed" => ReportsObserved(Observation)
<1> SUFFICES ASSUME stage = "observed" PROVE ReportsObserved(Observation)
  OBVIOUS
<1>1. CASE Isolated /\ code = 2 /\ outcome # "timeout"
  BY <1>1 DEF Observation, Failure, ReportsObserved
<1>2. CASE ~(Isolated /\ code = 2 /\ outcome # "timeout")
  <2>1. Observation.findings = BehaviorRules \cap EnabledRules
    BY <1>2 DEF Observation
  <2>2. InSight \subseteq Accessed
    BY DEF InSight, Accessed
  <2>3. \A c \in InSight : {"credential_canary_read", CanaryRule(c)} \subseteq BehaviorRules
    BY <2>2 DEF BehaviorRules
  <2>4. InSight # {} /\ Reaches => "credential_canary_exfiltration_attempt" \in BehaviorRules
    BY <2>2 DEF BehaviorRules
  <2>5. code # 0 => "lifecycle_script_nonzero_exit" \in BehaviorRules
    BY DEF BehaviorRules
  <2>6. outcome = "timeout" => Observation.timedOut
    BY <1>2 DEF Observation
  <2> QED BY <2>1, <2>3, <2>4, <2>5, <2>6 DEF ReportsObserved
<1> QED BY <1>1, <1>2

THEOREM ObservedIsReportedTheorem == Spec => ObservedIsReported
<1>1. TypeInv /\ [Next]_vars => [NewResultReports]_vars
  <2> SUFFICES ASSUME TypeInv, [Next]_vars, Len(results') > Len(results)
               PROVE  ReportsObserved(results'[Len(results')])
    BY DEF NewResultReports
  <2>1. ASSUME NEW r \in Observations, results' = Append(results, r)
        PROVE  results'[Len(results')] = r
    <3> HIDE DEF Observations
    <3> QED BY <2>1 DEF TypeInv
  <2>2. CASE stage \in {"prepare", "fill"} /\ results' = Append(results, Failure)
    BY <2>1, <2>2, ObservationType DEF ReportsObserved, Failure
  <2>3. CASE Analyze
    BY <2>1, <2>3, ObservationType, ObservationReports DEF Analyze
  <2>4. results' # results
    BY DEF TypeInv
  <2> QED BY <2>2, <2>3, <2>4, NewResult
<1> QED BY <1>1, TypeCorrect, PTL DEF Spec, ObservedIsReported

----------------------------------------------------------------------------
(* Progress.                                                                *)

\* The analysis is over, and no process of a script is left.
AtRest == stage \in {"done", "refused", "killed"} /\ ~Running

\* The guard of a step holds that is not the script's.
MayMove ==
    \/ stage \in {"start", "select", "script", "prepare", "fill", "launch", "observed",
                  "cleanup"}
    \/ stage = "watch" /\ timer \in {"armed", "expired"}
    \/ stage = "await" /\ Waited
    \/ shell = "zombie"
    \/ Isolated /\ shell # "running" /\ \E k \in Children : Alive(k)

\* On the host it may be stuck: Await waits for descendants that Kill no longer reaches.
NeverStuck == runner # "process" => AtRest \/ MayMove

\* How far an analysis is from its end: scripts to come, then the stage of this one,
\* then what the clock and the kernel still have to do.
ScriptsLeft == Len(request.scripts) - index
Stages == {"start", "select", "refused", "script", "prepare", "fill", "launch", "watch",
           "await", "observed", "cleanup", "done", "killed"}
StageRank ==
    [start |-> 10, select |-> 9, prepare |-> 8, fill |-> 7, launch |-> 6, watch |-> 5,
     await |-> 4, observed |-> 3, cleanup |-> 2, script |-> 1, done |-> 0, refused |-> 0,
     killed |-> 0]
Place == StageRank[stage]
Count(b) == IF b THEN 1 ELSE 0
Outstanding ==
    (MaxPasses - passes) + Count(timer = "armed") + Count(shell \in {"running", "zombie"})
        + Count(shell = "running") + Count(Running)

Nearer ==
    \/ ScriptsLeft' < ScriptsLeft
    \/ ScriptsLeft' = ScriptsLeft /\ Place' < Place
    \/ ScriptsLeft' = ScriptsLeft /\ Place' = Place /\ Outstanding' < Outstanding

\* The end is a finite number of steps away.
EndIsFinite == ScriptsLeft \in Nat /\ Place \in Nat /\ Outstanding \in Nat

\* Each step of pkgsafe, the clock or the kernel brings the end nearer, and nothing a
\* script does sets them back.
GoesOn ==
    \/ Nearer
    \/ Script /\ UNCHANGED <<request, index, stage>> /\ Outstanding' <= Outstanding
EachStepGoesOn == [][GoesOn]_vars

\* A script is watched under its deadline, and runs while it is watched only.
Watching ==
    /\ request \in Requests /\ index \in 0..Len(request.scripts)
    /\ stage \in Stages
    /\ stage = "watch" => timer \in {"armed", "expired"}
    /\ stage = "await" => shell \in {"zombie", "reaped"}
    /\ shell = "running" => stage = "watch" \/ (stage = "killed" /\ ~Isolated)

LEMMA ScriptsAreCounted ==
  ASSUME Watching
  PROVE  Len(request.scripts) \in Nat /\ index \in Nat /\ ScriptsLeft \in Nat
<1>1. Len(request.scripts) \in Nat
  <2>1. request.scripts \in Seq(SUBSET STRING)
    BY ScriptsAreLists DEF Watching
  <2> QED BY <2>1
<1> QED BY <1>1 DEF Watching, ScriptsLeft

\* The shell does not start in a step of its own, and something has to run for one.
LEMMA ScriptRuns ==
  ASSUME Script
  PROVE  /\ UNCHANGED <<request, runner, index, stage, timer, passes>> /\ Running
         /\ shell' = shell \/ (shell = "running" /\ shell' = "zombie")
<1>1. UNCHANGED Unwatched
  BY DEF Script, LockDirectory, Exit, Touch, Hide, Say, Spawn, Drift
<1>2. Exit \/ UNCHANGED shell
  BY Zenon DEF Script, LockDirectory, Touch, Hide, Say, Spawn, Drift, process
<1>3. Running
  BY DEF Script, LockDirectory, Exit, Touch, Hide, Say, Spawn, Drift, Running, Within
<1> QED BY <1>1, <1>2, <1>3 DEF Unwatched, Exit

LEMMA NextKeepsWatching == Watching /\ [Next]_vars => Watching'
<1> SUFFICES ASSUME Watching, [Next]_vars PROVE Watching'
  OBVIOUS
<1>1. CASE \/ ValidateOffline \/ SelectRunner \/ Prepare \/ Fill \/ Analyze
           \/ UnlockLevel \/ CleanUp
  BY <1>1 DEF ValidateOffline, SelectRunner, Prepare, Fill, RecordFailure, Analyze,
              UnlockLevel, CleanUp, process, Watching, Stages, Isolated
<1>2. CASE NextScript
  <2>1. Len(request.scripts) \in Nat /\ index \in 0..Len(request.scripts)
    BY ScriptsAreCounted DEF Watching
  <2>2. index' \in 0..Len(request.scripts)
    BY <1>2, <2>1 DEF NextScript
  <2>3. UNCHANGED <<request, shell>> /\ stage = "script" /\ stage' \in {"done", "prepare"}
    BY <1>2 DEF NextScript, process
  <2> QED BY <2>2, <2>3 DEF Watching, Stages
<1>3. CASE Start \/ ReceiveExit \/ Await
  BY <1>3 DEF Start, ReceiveExit, Await, Waited, process, Watching, Stages
<1>8. CASE Crash
  <2>1. UNCHANGED <<request, index, runner>> /\ stage' = "killed"
    BY <1>8 DEF Crash
  <2>2. shell' = "running" => ~Isolated
    BY <1>8 DEF Crash
  <2> QED BY <2>1, <2>2 DEF Watching, Stages, Isolated
<1>4. CASE Kill
  BY <1>4 DEF Kill, KillGroup, Watching, Stages
<1>5. CASE Expire \/ Reap \/ Collapse
  BY <1>5 DEF Expire, Reap, Collapse, Unwatched, process, Watching, Isolated
<1>6. CASE Script
  BY <1>6, ScriptRuns DEF Watching, Isolated
<1>7. CASE UNCHANGED vars
  BY <1>7 DEF vars, process, Watching, Isolated
<1> QED BY <1>1, <1>2, <1>3, <1>4, <1>5, <1>6, <1>7, <1>8 DEF Next, PkgSafe

LEMMA WatchingHolds == Spec => [](IInv /\ Watching)
<1>1. Init => IInv /\ Watching
  <2>1. ASSUME Init PROVE Watching
    <3>1. request \in Requests /\ index = 0 /\ stage = "start" /\ shell = "none"
      BY <2>1 DEF Init
    <3>2. request.scripts \in Seq(SUBSET STRING)
      BY <3>1, ScriptsAreLists
    <3> QED BY <3>1, <3>2 DEF Watching, Stages
  <2> QED BY <2>1, InitIInv
<1>2. IInv /\ Watching /\ [Next]_vars => (IInv /\ Watching)'
  <2> SUFFICES ASSUME IInv, Watching, [Next]_vars PROVE IInv' /\ Watching'
    OBVIOUS
  <2>1. CASE UNCHANGED vars
    BY <2>1, NextKeepsWatching
    DEF vars, process, IInv, HostRunIsAsked, OfflineWasChecked, NothingRunsBefore, Running, Alive
  <2> QED BY <2>1, PkgSafeKeeps, ScriptKeeps, NextKeepsWatching DEF Next
<1> QED BY <1>1, <1>2, PTL DEF Spec

\* pkgsafe stays in no stage, and returns to none but for the next script.
LEMMA StageFalls ==
  ASSUME Watching,
         \/ ValidateOffline \/ SelectRunner \/ Prepare \/ Fill \/ Start \/ ReceiveExit
         \/ Kill \/ Await \/ Analyze \/ CleanUp \/ Crash
  PROVE  Place' < Place
<1>1. \/ stage = "start" /\ stage' \in {"refused", "select"}
      \/ stage = "select" /\ stage' \in {"done", "script"}
      \/ stage = "prepare" /\ stage' \in {"fill", "script"}
      \/ stage = "fill" /\ stage' \in {"launch", "cleanup"}
      \/ stage = "launch" /\ stage' \in {"watch", "observed"}
      \/ stage = "watch" /\ stage' \in {"observed", "await"}
      \/ stage = "await" /\ stage' = "observed"
      \/ stage = "observed" /\ stage' = "cleanup"
      \/ stage = "cleanup" /\ stage' = "script"
      \/ stage \in Stages \ {"done", "refused", "killed"} /\ stage' = "killed"
  BY DEF ValidateOffline, SelectRunner, Prepare, Fill, RecordFailure, Start, ReceiveExit, Kill,
         Await, Analyze, CleanUp, Crash, Watching
<1> QED BY <1>1 DEF Place, StageRank, Stages

LEMMA EachStepIsNearer ==
  ASSUME TypeInv, Watching, [Next]_vars
  PROVE  [GoesOn]_vars
<1>0. Len(request.scripts) \in Nat /\ index \in Nat
  BY ScriptsAreCounted
<1>a. passes \in Nat /\ MaxPasses \in Nat /\ passes <= MaxPasses
  BY PassesAreNatural DEF TypeInv
<1>1. CASE \/ ValidateOffline \/ SelectRunner \/ Prepare \/ Fill \/ Start \/ ReceiveExit
           \/ Kill \/ Await \/ Analyze \/ CleanUp \/ Crash
  <2>1. UNCHANGED <<request, index>>
    BY <1>1 DEF ValidateOffline, SelectRunner, Prepare, Fill, Start, ReceiveExit, Kill, Await,
                Analyze, CleanUp, Crash
  <2>2. Place' < Place
    BY <1>1, StageFalls
  <2> QED BY <1>0, <2>1, <2>2 DEF GoesOn, Nearer, ScriptsLeft
<1>2. CASE NextScript
  <2>1. CASE index = Len(request.scripts)
    <3>1. UNCHANGED <<request, index>> /\ stage = "script" /\ stage' = "done"
      BY <1>2, <2>1 DEF NextScript
    <3>2. Place' < Place
      BY <3>1 DEF Place, StageRank
    <3> QED BY <1>0, <3>1, <3>2 DEF GoesOn, Nearer, ScriptsLeft
  <2>2. CASE index # Len(request.scripts)
    BY <1>0, <1>2, <2>2 DEF NextScript, GoesOn, Nearer, ScriptsLeft
  <2> QED BY <2>1, <2>2
<1>3. CASE Expire
  <2>1. UNCHANGED <<request, index, stage, shell, kids, passes>> /\ timer = "armed" /\ timer' = "expired"
    BY <1>3 DEF Expire, process, disk
  <2>2. Outstanding' < Outstanding
    BY <1>a, <2>1 DEF Outstanding, Count, Running, Alive
  <2> QED BY <1>0, <2>1, <2>2 DEF GoesOn, Nearer, ScriptsLeft, Place
<1>4. CASE Reap
  <2>1. UNCHANGED <<request, index, stage, timer, kids, passes>> /\ shell = "zombie" /\ shell' = "reaped"
    BY <1>4 DEF Reap, disk
  <2>2. Outstanding' < Outstanding
    BY <1>a, <2>1 DEF Outstanding, Count, Running, Alive
  <2> QED BY <1>0, <2>1, <2>2 DEF GoesOn, Nearer, ScriptsLeft, Place
<1>5. CASE Collapse
  <2>1. UNCHANGED <<request, index, stage, timer, shell, passes>> /\ shell # "running" /\ Running
    BY <1>5 DEF Collapse, Unwatched, Running
  <2>2. \A k \in Children : ~kids'[k].alive
    BY <1>5 DEF Collapse, Alive, Gone, NoChild
  <2>3. ~Running'
    BY <2>1, <2>2 DEF Running, Alive
  <2>4. Outstanding' < Outstanding
    BY <1>a, <2>1, <2>3 DEF Outstanding, Count
  <2> QED BY <1>0, <2>1, <2>4 DEF GoesOn, Nearer, ScriptsLeft, Place
<1>6. CASE Script
  <2>1. Outstanding' <= Outstanding
    BY <1>6, <1>a, ScriptRuns DEF Outstanding, Count
  <2> QED BY <1>6, <2>1, ScriptRuns DEF GoesOn
<1>7. CASE UnlockLevel
  <2>1. UNCHANGED <<request, index, stage, timer, shell, kids>> /\ passes' = passes + 1
    BY <1>7 DEF UnlockLevel, process
  <2>2. Outstanding' < Outstanding
    BY <1>a, <2>1 DEF Outstanding, Count, Running, Alive
  <2> QED BY <1>0, <2>1, <2>2 DEF GoesOn, Nearer, ScriptsLeft, Place
<1> QED BY <1>1, <1>2, <1>3, <1>4, <1>5, <1>6, <1>7 DEF Next, PkgSafe

\* Inside bubblewrap an analysis is stuck in no state, whatever its scripts do, and every
\* step of pkgsafe, the clock and the kernel brings its end nearer: what
\* IsolatedAnalysisEnds needs besides that they go on.
THEOREM ProgressTheorem == Spec => [](NeverStuck /\ EndIsFinite) /\ EachStepGoesOn
<1>1. IInv /\ Watching => NeverStuck
  <2> SUFFICES ASSUME IInv, Watching, runner # "process", ~MayMove PROVE AtRest
    BY DEF NeverStuck
  <2>1. CASE runner = "none"
    BY <2>1 DEF IInv, NothingRunsBefore, MayMove, AtRest
  <2>2. CASE runner = "bubblewrap"
    <3>1. stage # "watch" /\ shell # "running" /\ shell # "zombie"
      BY <2>2 DEF MayMove, Watching, Isolated
    <3>2. \A k \in Children : ~Alive(k)
      BY <2>2, <3>1 DEF MayMove, Isolated
    <3>3. stage # "await"
      BY <3>1, <3>2 DEF MayMove, Watching, Waited
    <3> QED BY <3>1, <3>2, <3>3 DEF Watching, Stages, MayMove, AtRest, Running
  <2> QED BY <2>1, <2>2 DEF IInv, NothingRunsBefore
<1>2. TypeInv /\ Watching => EndIsFinite
  <2>1. Watching => Place \in Nat
    BY DEF Watching, Stages, Place, StageRank
  <2>2. TypeInv => Outstanding \in Nat
    BY PassesAreNatural DEF TypeInv, Outstanding, Count
  <2> QED BY <2>1, <2>2, ScriptsAreCounted DEF EndIsFinite
<1>3. TypeInv /\ Watching /\ [Next]_vars => [GoesOn]_vars
  BY EachStepIsNearer
<1> QED BY <1>1, <1>2, <1>3, TypeCorrect, WatchingHolds, PTL DEF Spec, EachStepGoesOn

----------------------------------------------------------------------------
(* Workspaces.                                                              *)

\* A clean-up not excused meets no process of a script, and has passes left for what is
\* locked; before it, the workspace of the script is the only one that may go.
CleaningUp ==
    /\ WorkspacesGo
    /\ stage = "cleanup" => index \in excused \/ (~Running /\ locks <= MaxPasses - passes)
    /\ stage \in {"fill", "launch", "watch", "await", "observed"} => passes = 0

\* Where the workspaces, the script and the locks stay as they are, so does the invariant:
\* nothing but the shell starts a process.
LEMMA WorkspacesKept ==
  ASSUME CleaningUp, UNCHANGED <<request, index, workspaces, excused, passes>>,
         stage' = stage \/ (stage' # "cleanup" /\ Unfinished \subseteq Unfinished'),
         stage' = "cleanup" => UNCHANGED locks /\ (Running' => Running),
         stage' \in {"fill", "launch", "watch", "await", "observed"} => passes = 0
  PROVE  CleaningUp'
<1>1. Unfinished \subseteq Unfinished'
  BY DEF Unfinished
<1>2. WorkspacesGo'
  BY <1>1 DEF CleaningUp, WorkspacesGo
<1> QED BY <1>2 DEF CleaningUp

LEMMA NextKeepsWorkspaces ==
  ASSUME TypeInv, IInv, Watching, CleaningUp, [Next]_vars
  PROVE  CleaningUp'
<1>a. passes \in Nat /\ MaxPasses \in Nat /\ locks \in Nat /\ passes <= MaxPasses
  BY PassesAreNatural DEF TypeInv
<1>1. CASE ValidateOffline \/ SelectRunner \/ Start \/ ReceiveExit \/ Kill \/ Await \/ Crash
  <2>1. UNCHANGED <<request, index, workspaces, excused, passes>>
    BY <1>1 DEF ValidateOffline, SelectRunner, Start, ReceiveExit, Kill, Await, Crash, disk
  <2>2. /\ stage' # "cleanup" /\ Unfinished \subseteq Unfinished'
        /\ stage' \in {"fill", "launch", "watch", "await", "observed"} =>
               stage \in {"launch", "watch", "await"}
    BY <1>1, <2>1 DEF ValidateOffline, SelectRunner, Start, ReceiveExit, Kill, Await, Crash,
                      Unfinished
  <2> QED BY <2>1, <2>2, WorkspacesKept DEF CleaningUp
<1>2. CASE NextScript
  <2>1. /\ UNCHANGED <<request, workspaces, excused, passes>> /\ Unfinished = {}
        /\ stage' \in {"done", "prepare"}
    BY <1>2 DEF NextScript, disk, Unfinished
  <2> QED BY <2>1 DEF CleaningUp, WorkspacesGo
<1>3. CASE Prepare
  <2>1. /\ UNCHANGED <<request, index, excused>> /\ Unfinished = {} /\ passes' = 0
        /\ \/ stage' = "fill" /\ workspaces' = workspaces \cup {index}
           \/ stage' = "script" /\ UNCHANGED workspaces
    BY <1>3 DEF Prepare, Unfinished
  <2>2. stage' = "fill" => Unfinished' = {index}
    BY <2>1 DEF Unfinished
  <2>3. WorkspacesGo'
    BY <2>1, <2>2 DEF CleaningUp, WorkspacesGo
  <2> QED BY <2>1, <2>3 DEF CleaningUp
<1>4. CASE Fill \/ Analyze
  <2>1. /\ UNCHANGED <<request, index, workspaces, process, locks, passes>>
        /\ stage \in {"fill", "observed"} /\ stage' \in {"launch", "cleanup"}
        /\ stage' = "cleanup" => Excuse
        /\ stage' = "launch" => UNCHANGED excused
    BY <1>4 DEF Fill, Analyze, files
  <2>2. Unfinished = {index} /\ Unfinished' = {index}
    BY <2>1 DEF Unfinished
  <2>3. excused \subseteq excused'
    BY <2>1 DEF Excuse
  <2>4. WorkspacesGo'
    BY <2>1, <2>2, <2>3 DEF CleaningUp, WorkspacesGo
  <2>5. Running' = Running
    BY <2>1 DEF Running, Alive, process
  <2>6. ASSUME stage' = "cleanup"
        PROVE  index \in excused' \/ (~Running' /\ locks' <= MaxPasses - passes')
    <3>1. passes = 0
      BY <2>1 DEF CleaningUp
    <3>2. Running \/ locks > MaxPasses => index \in excused'
      BY <2>1, <2>6 DEF Excuse
    <3> QED BY <1>a, <2>1, <2>5, <3>1, <3>2
  <2>7. passes = 0
    BY <2>1 DEF CleaningUp
  <2> QED BY <2>1, <2>4, <2>6, <2>7 DEF CleaningUp
<1>5. CASE UnlockLevel
  <2>1. /\ UNCHANGED <<request, index, workspaces, excused, stage, process>>
        /\ locks' = locks - 1 /\ passes' = passes + 1 /\ stage = "cleanup"
    BY <1>5 DEF UnlockLevel
  <2>2. WorkspacesGo' /\ Running' = Running
    BY <2>1 DEF CleaningUp, WorkspacesGo, Unfinished, Running, Alive, process
  <2> QED BY <1>a, <2>1, <2>2 DEF CleaningUp
<1>6. CASE CleanUp
  <2>1. /\ UNCHANGED <<request, index, excused>> /\ stage = "cleanup" /\ stage' = "script"
        /\ workspaces' \subseteq workspaces
    BY <1>6 DEF CleanUp
  <2>2. Unfinished = {index} /\ Unfinished' = {}
    BY <2>1 DEF Unfinished
  <2>3. request.keep \/ index \notin workspaces' \/ Running \/ (locks > 0 /\ ~(passes < MaxPasses))
    BY <1>6 DEF CleanUp, MorePasses
  <2>4. request.keep \/ index \notin workspaces' \/ index \in excused
    BY <1>a, <2>1, <2>3 DEF CleaningUp
  <2>5. WorkspacesGo'
    BY <2>1, <2>2, <2>4 DEF CleaningUp, WorkspacesGo
  <2> QED BY <2>1, <2>5 DEF CleaningUp
<1>7. CASE Expire \/ Reap \/ Collapse
  <2>1. UNCHANGED <<request, index, stage, workspaces, excused, passes, locks>>
    BY <1>7 DEF Expire, Reap, Collapse, Unwatched, disk, files
  <2>2. Running' => Running
    BY <1>7 DEF Expire, Reap, Collapse, Running, Alive, process, Gone, NoChild
  <2> QED BY <2>1, <2>2, WorkspacesKept DEF CleaningUp
<1>8. CASE Script
  <2>1. UNCHANGED <<request, index, stage, workspaces, excused, passes>> /\ Running
    BY <1>8, ScriptRuns DEF Script, LockDirectory, Exit, Touch, Hide, Say, Spawn, Drift, Unwatched
  <2>2. stage = "cleanup" => index \in excused
    BY <2>1 DEF CleaningUp
  <2>3. WorkspacesGo'
    BY <2>1 DEF CleaningUp, WorkspacesGo, Unfinished
  <2> QED BY <2>1, <2>2, <2>3 DEF CleaningUp
<1>9. CASE UNCHANGED vars
  <2>1. UNCHANGED <<request, index, stage, workspaces, excused, passes, locks>> /\ Running' = Running
    BY <1>9 DEF vars, process, disk, files, Running, Alive
  <2> QED BY <2>1, WorkspacesKept DEF CleaningUp
<1> QED BY <1>1, <1>2, <1>3, <1>4, <1>5, <1>6, <1>7, <1>8, <1>9 DEF Next, PkgSafe

\* Of all the workspaces of an analysis only that of the script it is at, or was killed
\* at, is in place, besides those that are kept and those whose removal met a process of
\* the script or too many locked levels (prepareWorkspace, removeAllForce).
THEOREM WorkspacesGoTheorem == Spec => []WorkspacesGo
<1>1. Init => CleaningUp
  <2>1. Init => stage = "start" /\ workspaces = {}
    BY Zenon DEF Init
  <2> QED BY <2>1 DEF CleaningUp, WorkspacesGo
<1>2. TypeInv /\ IInv /\ Watching /\ CleaningUp /\ [Next]_vars => CleaningUp'
  BY NextKeepsWorkspaces
<1>3. CleaningUp => WorkspacesGo
  BY DEF CleaningUp
<1> QED BY <1>1, <1>2, <1>3, TypeCorrect, WatchingHolds, PTL DEF Spec
=============================================================================
