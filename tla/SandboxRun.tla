----------------------------- MODULE SandboxRun -----------------------------
(***************************************************************************)
(* Behaviour analysis (internal/sandbox and its callers in the scanners):  *)
(* the lifecycle scripts of a package are run one after the other, by a    *)
(* runner on the host ("heuristic") or inside bubblewrap's namespaces      *)
(* ("isolated"), watched until they end or time out, analysed, and their   *)
(* workspace is removed, unless pkgsafe is killed meanwhile.               *)
(*                                                                         *)
(* A script is a shell and the processes it leaves behind; its command is  *)
(* the set of words the analyser looks for.  bubblewrap and the kernel are *)
(* modelled from the flags namespaceArgs gives them.                       *)
(***************************************************************************)
EXTENDS Naturals, Sequences, FiniteSets, TLC

CONSTANTS Requests,    \* records [mode, offline, network, keep, blocked, scripts]
          Hosts,       \* records [unix, bwrap]: what the host can do
          Canaries,    \* kinds of the fake credentials: "aws", "ssh", ...
          EnabledRules,\* ids of the rules the policy enables
          Children,    \* processes a script may leave in the background
          MaxPasses    \* passes of removeAllForce

ASSUME PassesAreNatural == MaxPasses \in Nat

ASSUME ScriptsAreLists == \A r \in Requests : r.scripts \in Seq(SUBSET STRING)

VARIABLES request, host,   \* fixed
          stage,    \* where the scan stands
          runner,   \* "none", "process" or "bubblewrap"
          index,    \* the script being run
          shell,    \* "none", "running", "zombie" or "reaped"
          code,     \* the shell's exit code, 2 standing for a failed Wait
          kids,     \* per child: [alive, used, group, pipe], where group and pipe
                    \* say whether it is in the shell's group and holds its output
          timer,    \* "off", "armed" or "expired"
          outcome,  \* what the select of runCommand received: "", "exit", "timeout"
          workspaces, \* indexes of the scripts whose workspace is in place
          locks,    \* depth to which the script locked directories of its own
          passes,   \* passes removeAllForce has made over it
          touched,  \* canaries read and "binary" files written by the script
          visible,  \* those of them whose file is in reach and dated later
          printed,  \* canaries whose content came out
          results,  \* one per script: [error, timedOut, findings]
          excused   \* history: scripts whose workspace could not all be removed

vars == <<request, host, stage, runner, index, shell, code, kids, timer, outcome,
          workspaces, locks, passes, touched, visible, printed, results, excused>>
process == <<shell, code, kids>>
files == <<locks, touched, visible, printed>>
disk == <<workspaces, passes, files, excused>>

NoChild == [alive |-> FALSE, used |-> FALSE, group |-> FALSE, pipe |-> FALSE]
Gone == [NoChild EXCEPT !.used = TRUE]
Survivor == [Gone EXCEPT !.alive = TRUE]

Alive(k) == kids[k].alive
Running == shell = "running" \/ \E k \in Children : Alive(k)

-----------------------------------------------------------------------------
(* Choosing a runner.                                                      *)

\* The probe runs bubblewrap with a timeout of its own: it may fail anyway.
IsolationProbes == IF host.bwrap THEN {TRUE, FALSE} ELSE {FALSE}

Init ==
    /\ request \in Requests /\ host \in Hosts
    /\ stage = "start" /\ runner = "none" /\ index = 0
    /\ shell = "none" /\ code = 0 /\ kids = [k \in Children |-> NoChild]
    /\ timer = "off" /\ outcome = "" /\ workspaces = {} /\ locks = 0 /\ passes = 0
    /\ touched = {} /\ visible = {} /\ printed = {} /\ results = <<>> /\ excused = {}

\* ValidateOfflineBehavior: offline analysis must not reach the network.
OfflineAllows(probe) ==
    \/ request.mode = "disabled"
    \/ request.mode = "isolated" /\ request.network \in {"", "disabled"} /\ probe

ValidateOffline ==
    /\ stage = "start"
    /\ \E probe \in IsolationProbes :
         stage' = IF request.offline /\ ~OfflineAllows(probe) THEN "refused" ELSE "select"
    /\ UNCHANGED <<request, host, runner, index, process, timer, outcome, disk, results>>

RunnerFor_FallsBack(probe) ==
    IF request.mode = "isolated" /\ probe THEN "bubblewrap"
    ELSE IF request.mode # "disabled" /\ host.unix THEN "process" ELSE "none"

RunnerFor(probe) ==
    IF request.mode = "isolated" /\ probe THEN "bubblewrap"
    ELSE IF request.mode = "heuristic" /\ host.unix THEN "process" ELSE "none"

\* The artifact is analysed first; nothing of a package it blocks is run.
SelectRunner ==
    /\ stage = "select"
    /\ \E probe \in IsolationProbes :
         LET chosen == IF request.blocked THEN "none" ELSE RunnerFor(probe) IN
         /\ runner' = chosen
         /\ stage' = IF chosen = "none" THEN "done" ELSE "script"
    /\ UNCHANGED <<request, host, index, process, timer, outcome, disk, results>>

-----------------------------------------------------------------------------
(* Running a script.                                                       *)

Command == request.scripts[index]
Isolated == runner = "bubblewrap"

\* The next script in the order of the list, or the end of the scan.
NextScript ==
    /\ stage = "script"
    /\ IF index = Len(request.scripts) THEN stage' = "done" /\ UNCHANGED index
       ELSE stage' = "prepare" /\ index' = index + 1
    /\ UNCHANGED <<request, host, runner, process, timer, outcome, disk, results>>

Failure == [error |-> TRUE, timedOut |-> FALSE, findings |-> {}]
RecordFailure == results' = Append(results, Failure)

\* RunLifecycleScript up to the temporary directory; bubblewrap is probed once more.
Prepare ==
    /\ stage = "prepare"
    /\ locks' = 0 /\ passes' = 0 /\ touched' = {} /\ visible' = {} /\ printed' = {}
    /\ \/ /\ ~Isolated \/ TRUE \in IsolationProbes
          /\ workspaces' = workspaces \cup {index} /\ stage' = "fill"
          /\ UNCHANGED results
       \/ /\ UNCHANGED workspaces
          /\ RecordFailure /\ stage' = "script"
    /\ UNCHANGED <<request, host, runner, index, process, timer, outcome, excused>>

\* What the clean-up of a run cannot remove for certain: a process of the script is
\* there to write behind its back, or there is more to unlock than its passes reach.
Excuse == excused' = excused \cup (IF Running \/ locks > MaxPasses THEN {index} ELSE {})

\* CreateFakeHome and CopyDir; prepareWorkspace cleans up after their failure.
Fill ==
    /\ stage = "fill"
    /\ \/ stage' = "launch" /\ UNCHANGED <<results, excused>>
       \/ RecordFailure /\ Excuse /\ stage' = "cleanup"
    /\ UNCHANGED <<request, host, runner, index, process, timer, outcome, workspaces,
                   passes, files>>

\* cmd.Start, under the deadline of the context.
Start ==
    /\ stage = "launch"
    /\ timer' = "armed" /\ outcome' = ""
    /\ kids' = [k \in Children |-> IF Alive(k) THEN Survivor ELSE NoChild]
    /\ \/ /\ shell' = "running" /\ stage' = "watch" /\ UNCHANGED code
       \/ /\ shell' = "none" /\ code' = 2 /\ stage' = "observed"
    /\ UNCHANGED <<request, host, runner, index, disk, results>>

Expire ==
    /\ timer = "armed" /\ stage = "watch"
    /\ timer' = "expired"
    /\ UNCHANGED <<request, host, stage, runner, index, process, outcome, disk, results>>

\* cmd.Wait reaps the shell when it exits ...
Reap ==
    /\ shell = "zombie"
    /\ shell' = "reaped"
    /\ UNCHANGED <<request, host, stage, runner, index, code, kids, timer, outcome, disk, results>>

\* ... and returns once nobody holds the output any more.
Waited == shell = "reaped" /\ \A k \in Children : Alive(k) => ~kids[k].pipe

ReceiveExit ==
    /\ stage = "watch" /\ Waited
    /\ outcome' = "exit" /\ stage' = "observed"
    /\ UNCHANGED <<request, host, runner, index, process, timer, disk, results>>

KillGroup_Nobody == UNCHANGED <<shell, kids>>

\* The process group is looked up by the shell's pid: once the shell is reaped
\* there is none, and Process.Kill has nobody to kill.  bubblewrap starts a
\* session of its own, so that the group is bubblewrap alone.
KillGroup ==
    IF shell = "reaped" THEN UNCHANGED <<shell, kids>>
    ELSE /\ shell' = "zombie"
         /\ kids' = [k \in Children |->
                       IF ~Isolated /\ Alive(k) /\ kids[k].group THEN Gone ELSE kids[k]]

Kill ==
    /\ stage = "watch" /\ timer = "expired"
    /\ KillGroup
    /\ outcome' = "timeout" /\ code' = 2 /\ stage' = "await"
    /\ UNCHANGED <<request, host, runner, index, timer, disk, results>>

\* After the kill the runner waits for Wait to return, without a deadline.
Await ==
    /\ stage = "await" /\ Waited
    /\ stage' = "observed"
    /\ UNCHANGED <<request, host, runner, index, process, timer, outcome, disk, results>>

-----------------------------------------------------------------------------
(* Analysing what it did.                                                  *)

\* The contents that are looked for in the output; a private key is not.
Tokens == Canaries \ {"ssh"}

\* The canaries a script is seen to have read: their access time moved and they can
\* still be reached, a token of theirs came out, or the command names them.
Accessed == Canaries \cap (visible \cup (printed \cap Tokens) \cup Command)

CanaryRule(c) ==
    CASE c = "ssh" -> "ssh_key_access"
      [] c = "npmrc" -> "npm_token_access"
      [] c \in {"aws", "env"} -> "env_secret_access"
      [] OTHER -> "credential_canary_read"

WordRule ==
    ("metadata" :> "cloud_metadata_access") @@ ("encode" :> "encoded_payload_execution") @@
    ("spawn" :> "child_process_spawn") @@ ("list home" :> "home_directory_enumeration") @@
    ("printenv" :> "environment_variable_enumeration") @@ ("git" :> "git_config_access") @@
    ("config" :> "package_manager_config_access")

Reaches == Command \cap {"fetch", "connect", "host", "metadata"} # {}

\* The rules AnalyzeBehavior reports a script under.
BehaviorRules ==
    {CanaryRule(c) : c \in Accessed} \cup {WordRule[w] : w \in Command \cap DOMAIN WordRule}
    \cup {r \in {"credential_canary_read", "credential_canary_exfiltration_attempt",
                 "network_call_from_lifecycle", "shell_download_execute",
                 "unexpected_binary_write", "lifecycle_script_nonzero_exit"} :
            CASE r = "credential_canary_read" -> Accessed # {}
              [] r = "credential_canary_exfiltration_attempt" -> Accessed # {} /\ Reaches
              [] r = "network_call_from_lifecycle" -> Reaches
              [] r = "shell_download_execute" -> {"fetch", "pipe to shell"} \subseteq Command
              [] r = "unexpected_binary_write" -> "binary" \in visible
              [] r = "lifecycle_script_nonzero_exit" -> code # 0}

Observation_DropsTimeouts ==
    IF code = 2 THEN Failure
    ELSE [error |-> FALSE, timedOut |-> FALSE, findings |-> BehaviorRules \cap EnabledRules]

\* A command that could not be run is an error inside bubblewrap and an exit
\* code on the host; a timeout is an observation in both.
Observation ==
    IF Isolated /\ code = 2 /\ outcome # "timeout" THEN Failure
    ELSE [error |-> FALSE, timedOut |-> outcome = "timeout",
          findings |-> BehaviorRules \cap EnabledRules]

Analyze ==
    /\ stage = "observed"
    /\ results' = Append(results, Observation) /\ Excuse
    /\ stage' = "cleanup"
    /\ UNCHANGED <<request, host, runner, index, process, timer, outcome, workspaces,
                   passes, files>>

MorePasses_None == FALSE

MorePasses == passes < MaxPasses

\* removeAllForce: what is locked stops the removal, and each further pass unlocks one
\* level of directories.
UnlockLevel ==
    /\ stage = "cleanup" /\ ~request.keep
    /\ locks > 0 /\ MorePasses
    /\ locks' = locks - 1 /\ passes' = passes + 1
    /\ UNCHANGED <<request, host, stage, runner, index, process, timer, outcome, workspaces,
                   touched, visible, printed, results, excused>>

\* The deferred clean-up ends, on every way out of RunLifecycleScript: the workspace is
\* kept for inspection, or gone, or left behind with a warning.
CleanUp ==
    /\ stage = "cleanup"
    /\ \/ request.keep /\ UNCHANGED workspaces
       \/ ~request.keep /\ locks = 0 /\ workspaces' = workspaces \ {index}
       \/ /\ ~request.keep
          /\ Running \/ (locks > 0 /\ ~MorePasses)
          /\ UNCHANGED workspaces
    /\ timer' = "off" /\ stage' = "script"
    /\ UNCHANGED <<request, host, runner, index, process, outcome, passes, files, results,
                   excused>>

\* pkgsafe is killed.  --die-with-parent takes bubblewrap along; on the host the script
\* is in a group of its own and goes on.
Crash ==
    /\ stage \notin {"done", "refused", "killed"}
    /\ stage' = "killed"
    /\ shell' = IF Isolated /\ shell = "running" THEN "zombie" ELSE shell
    /\ UNCHANGED <<request, host, runner, index, code, kids, timer, outcome, disk, results>>

-----------------------------------------------------------------------------
(* What a script does meanwhile.                                           *)

Unwatched == <<request, host, stage, runner, index, timer, outcome, workspaces, passes,
               results, excused>>
Within == Running /\ index \in workspaces

\* A canary is read or a binary written.  The access time follows, but not on every
\* file system and not for every reading.
Touch(f) ==
    /\ Within
    /\ touched' = touched \cup {f}
    /\ \/ visible' = visible \cup {f}
       \/ f \in Canaries /\ UNCHANGED visible
    /\ UNCHANGED <<Unwatched, process, locks, printed>>

Say(f) ==
    /\ Within /\ f \in touched
    /\ printed' = printed \cup {f}
    /\ UNCHANGED <<Unwatched, process, locks, touched, visible>>

\* A file is deleted or moved ...
Hide(f) ==
    /\ Within /\ f \in visible
    /\ visible' = visible \ {f}
    /\ UNCHANGED <<Unwatched, process, locks, touched, printed>>

\* ... or the directory locked that it is in, perhaps with others.
LockDirectory ==
    /\ Within /\ locks <= MaxPasses
    /\ locks' = locks + 1
    /\ visible' \in SUBSET visible
    /\ UNCHANGED <<Unwatched, process, touched, printed>>

Child(k, state) == kids' = [kids EXCEPT ![k] = state]

Spawn(k) ==
    /\ shell = "running" /\ ~kids[k].used
    /\ Child(k, [Survivor EXCEPT !.group = TRUE, !.pipe = TRUE])
    /\ UNCHANGED <<Unwatched, shell, code, files>>

\* A child may leave the process group, let go of the output, or end.
Drift(k) ==
    /\ Alive(k)
    /\ \/ kids[k].group /\ Child(k, [kids[k] EXCEPT !.group = FALSE])
       \/ kids[k].pipe /\ Child(k, [kids[k] EXCEPT !.pipe = FALSE])
       \/ Child(k, Gone)
    /\ UNCHANGED <<Unwatched, shell, code, files>>

Exit ==
    /\ shell = "running"
    /\ shell' = "zombie" /\ code' \in {0, 1}
    /\ UNCHANGED <<Unwatched, kids, files>>

\* --unshare-pid and --die-with-parent: the processes of a namespace do not
\* outlive bubblewrap.
Collapse ==
    /\ Isolated /\ shell # "running" /\ \E k \in Children : Alive(k)
    /\ kids' = [k \in Children |-> IF Alive(k) THEN Gone ELSE kids[k]]
    /\ UNCHANGED <<Unwatched, shell, code, files>>

-----------------------------------------------------------------------------
(* The specification.                                                      *)

PkgSafe == \/ ValidateOffline \/ SelectRunner \/ NextScript \/ Prepare \/ Fill \/ Start
           \/ ReceiveExit \/ Kill \/ Await \/ Analyze \/ UnlockLevel \/ CleanUp
Script == \/ LockDirectory \/ Exit
          \/ \E f \in Canaries \cup {"binary"} : Touch(f) \/ Hide(f)
          \/ \E f \in Canaries : Say(f)
          \/ \E k \in Children : Spawn(k) \/ Drift(k)

Next == PkgSafe \/ Expire \/ Reap \/ Collapse \/ Script \/ Crash

Spec == Init /\ [][Next]_vars

\* The program, the kernel and the clock go on; a script need do nothing.
FairSpec == Spec /\ WF_vars(PkgSafe) /\ WF_vars(Expire) /\ WF_vars(Reap) /\ WF_vars(Collapse)

-----------------------------------------------------------------------------
(* Properties.                                                             *)

\* A script runs on the host itself only for a request that asks for heuristic
\* analysis, is not offline, and of a package its artifact does not already
\* block: an isolated runner that is missing is never replaced (SelectRunner,
\* ValidateOfflineBehavior).
HostRunsAreAsked ==
    Running /\ ~Isolated => request.mode = "heuristic" /\ ~request.offline /\ ~request.blocked

\* What is to be seen of the canaries read: those still in place with a later date,
\* and those whose token came out.
InSight == touched \cap Canaries \cap (visible \cup (printed \cap Tokens))

ReportsObserved(r) ==
    \/ r.error /\ (outcome = "timeout" => stage \in {"prepare", "fill"})
    \/ /\ \A c \in InSight :
            {"credential_canary_read", CanaryRule(c)} \cap EnabledRules \subseteq r.findings
       /\ InSight # {} /\ Reaches =>
            {"credential_canary_exfiltration_attempt"} \cap EnabledRules \subseteq r.findings
       /\ code # 0 => {"lifecycle_script_nonzero_exit"} \cap EnabledRules \subseteq r.findings
       /\ outcome = "timeout" => r.timedOut
NewResultReports == Len(results') > Len(results) => ReportsObserved(results'[Len(results')])

\* What is to be seen of a script when it is analysed is not lost to its timeout, its
\* exit or the order of its steps: one that read a canary which is still in place with
\* a later date, or whose token came out, or that did not end well, has the findings
\* the policy enables for it, unless its run is reported as failed.  A reading the disk
\* does not show is not seen (checkCanaryAccesses, runBubblewrapCommand).
ObservedIsReported == [][NewResultReports]_vars

\* The script whose run is not over: pkgsafe is at it, or was killed.
Unfinished ==
    IF stage \in {"fill", "launch", "watch", "await", "observed", "cleanup", "killed"}
    THEN {index} ELSE {}

\* Of all the workspaces an analysis makes, at most the one of the script it is at, or
\* was killed at, is in place, however preparations fail and scripts time out or lock
\* their directories: an earlier one stays only if it is to be kept, a process of the
\* script was still there, or its directories were locked deeper than the passes reach
\* (prepareWorkspace, removeAllForce).
WorkspacesGo == request.keep \/ workspaces \ excused \subseteq Unfinished

\* Inside bubblewrap every analysis ends, with no process of a script left, whatever
\* the scripts do, and when pkgsafe is killed too (namespaceArgs, runBubblewrapCommand).
IsolatedAnalysisEnds ==
    request.mode = "isolated" => <>[](stage \in {"done", "refused", "killed"} /\ ~Running)

\* What the documentation says of the heuristic mode too: a run ends by its
\* timeout.  It does not when a process of the script outlives the shell.
HeuristicAnalysisEnds ==
    request.mode = "heuristic" => <>(stage \in {"done", "refused", "killed"})
=============================================================================
