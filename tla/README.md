# Verification of PkgSafe

PkgSafe judges packages before they are installed: it analyses an artifact,
asks advisory databases, runs install scripts under observation, scores what it
found under a policy, and answers *allow*, *warn*, *block* (or *unknown*). It
does so from the command line, in CI, for agents over MCP, for programs over
HTTP, and in front of the package managers themselves.

This directory holds TLA+ models of PkgSafe, TLC runs over small instances, and
TLAPS proofs for instances of any size. `PROJECT.json` lists components, runs,
mutants, findings, hazards, theorems and, for every definition, the lines of the
source it stands for.

    tlc -workers 2 -config InstallGate.cfg MCInstallGate
    tlapm InstallGate_proofs.tla

## 1. Inventory

| Component (`internal/` unless said) | State it keeps | Operations | What is hard about it | What makes it correct |
|---|---|---|---|---|
| Risk decision: `risk`, look-ups of `policy` | none | `Evaluate`, `Decide`, `ApplyPolicyControls` | two stages decide one after the other; lists, rules, scopes, exceptions, registries and callers interact | security findings are final; an exception only softens |
| Policy configuration: `policy` | files | `Load`, `Validate`, `Merge`, `ApplyMode`, `ResolvePolicy` | validity is checked per file, not of the merge | a valid policy forces the security rules |
| Scanners: `scanner/{npm,pypi,golang,cargo}` | none of their own | `ScanPackage`, `ScanLocalPackage` | independent failures; on line and off; re-judging stored results | what was found is not lost |
| Result cache: `cache` | `~/.pkgsafe/cache.json`, all results | `Load`, `Get`, `Put`, `Save` | rewritten as a whole by several processes, no lock, no atomic rename; a result is kept under the name its artifact gives itself | what an artifact was found to hold outlives every rescan and rewrite |
| Advisory database: `db`, `intel`, `cli/update_db.go` | SQLite file, marks `last_update*` | `UpdateDB(Async)`, `SaveVulnerabilities`, queries | partial synchronisation, entries nobody can read, staleness, migration, version ranges | a mark means a completed synchronisation of what was delivered |
| Offline bundle: `dbbundle` | the database file, a ZIP | `Export`, `Verify`, `Import` | crash during import, imports side by side over one temporary file, alteration, expiry | what verifies was sealed together; import is atomic |
| Install interception: `intercept` | audit log, `PKGSAFE_INTERCEPT_ACTIVE` | `RunIntercept`, `Validate`, `CanProceed`, `LogAudit`, `delegate` | check-then-act against registry and files; overrides; failures after the decision; recursion | every risk is consented to before the package manager runs |
| CI scan: `ci` | none | `RunScan`, `parallelScan`, reports | a pool of workers, partial failure, exit code | every dependency is judged and the exit code tells |
| Project scans and inventories: `pkg/cli/main.go`, `deps`, `analyzer/npm` | none | one command each, parsers, `DiffInventories` | partial failure; order of maps; detection of the ecosystem against a timer | the exit code tells the worst |
| Registry clients: `registry` | none | `ResolveRegistry`, downloads | routing of private names | |
| Sandbox: `sandbox` | processes, a fake home | `RunLifecycleScript` of two runners | timeout against exit, surviving descendants, locked directories, a kill of pkgsafe | ends, reports, cleans up |
| MCP server: `mcp`, `agent` | audit log, log of agent decisions | one tool each | every tool decides and advises in its own way | a security finding stops the agent |
| HTTP API: `api` | token buckets | handlers, `rateLimit`, `Serve` | shared buckets, clock read before the lock | only authorized requests; the rate is bounded and fair |
| Reports, evidence: `report` | files | generators, seal and verify | integrity over a set of files | |
| Analysers, typosquatting: `analyzer`, `typosquat` | none | pure functions | pattern matching | |
| Audit reader, feedback, logging, output, validation | files | read, append, print | sequential | |

How they interact. A command resolves a policy, calls a scanner per package and
saves each result in the cache. A scanner resolves the registry of the name,
obtains findings (the artifact's, the sandbox's, the advisories'), calls
`Evaluate` and then `ApplyPolicyControls`. An offline scan starts from the cached
result instead. An online command starts a synchronisation of the advisory
database in the background. The interceptor calls the npm or PyPI scanner for
every package of a command, aggregates, asks the gate, appends to the audit log
and starts the real package manager. The MCP tools call scanners, judge the
result again for the agent and turn it into advice. All processes of a user
share the cache, the database, the bundle and the logs through the file system,
and nothing else.

The hazards, each at its line, are in `PROJECT.json`.

## 2. Modules

| Module | Models | Instance | Proofs |
|---|---|---|---|
| `RiskDecision` | the decision as operators on findings, policy, registry and caller | – | in `DecisionPipeline_proofs` |
| `PolicyResolution` | the policy that files and flags resolve to: operators | – | in `DecisionPipeline_proofs` |
| `DecisionPipeline` | one request under a resolved policy: evaluate, control, evaluate again, control again | `MCDecisionPipeline` | `DecisionPipeline_proofs` |
| `ScanLifecycle` | processes that scan and share cache and database | `MCScanLifecycle` | `ScanLifecycle_proofs` |
| `InstallContract` | what interception promises of one command, in seven actions | – | (abstract) |
| `InstallGate` | one intercepted command and the world around it | `MCInstallGate` | `InstallGate_proofs` |
| `CIGate` | `ci scan`, from its files to its exit code | `MCCIGate` | `CIGate_proofs` |
| `IntelStore` | synchronising, exporting and importing the advisory database | `MCIntelStore` | `IntelStore_proofs` |
| `AgentServer` | the MCP server and its tools | `MCAgentServer` | in `DecisionPipeline_proofs` |
| `ApiServer` | the REST server's middleware and handlers | `MCApiServer` | `ApiServer_proofs` |
| `SandboxRun` | behaviour analysis of lifecycle scripts | `MCSandboxRun` | `SandboxRun_proofs` |
| `NpmInventory` | npm inventory, difference, tree, integrity report: operators | – | in `ProjectScan_proofs` |
| `DependencyFiles` | dependency parsers, lockfile and `package.json` analysers: operators | – | – |
| `ProjectScan` | the scanning commands of the command line | `MCProjectScan` | `ProjectScan_proofs` |

What composes what. `PolicyResolution`, `ScanLifecycle`, `InstallGate`,
`AgentServer` and `NpmInventory` extend `RiskDecision`; `DecisionPipeline` extends
`PolicyResolution`, `DependencyFiles` extends `NpmInventory` and `ProjectScan`
extends `DependencyFiles`. `ScanLifecycle` calls the whole pipeline inside its
scans; `InstallGate` takes the outcome of a scan as the constant `Verdict`, of which
it assumes what theorem `SecurityReasonsBlock` proves; `CIGate` and `ProjectScan`
take it as any answer a scanner gives; `AgentServer` computes it, from the findings
of a world. `SandboxRun` stands alone: what it finds is among the findings of the
others. `IntelStore` is the writer of the database that `ScanLifecycle` and
`ProjectScan` read, there reduced to one step.

Definitions whose names end in an underscore and a word (`Excepted_SecurityToo`)
are the same operations with a plausible defect. No specification uses them:
they are there to see that each property notices its defect.

### RiskDecision

Operators named after the functions they translate. A reason is its rule and its
evidence, and the reasons of a result are a set: the code removes duplicates by
rule, evidence and description before a result leaves either function. It does so
after the score was summed: a finding reported twice (as two sandbox runs of a PyPI
package report it) counts twice, which `EvaluateRepeated` says with a second set,
the findings that are reported again. Name
patterns are the sets of names they match, ranges the sets of versions they
admit, and only rules and exceptions that have not expired are represented.
`ApplyPolicyControls` is one long function in the code; here its score, its
reasons and its decision are separate operators over the same inputs
(`ControlScore`, `ControlReasons`, `ControlDecision`), then the exceptions and
the scoped refusal (`Conclude`). `ValidPolicy` is what `policy.Validate`
guarantees, as far as decisions depend on it. Left out: severities, wording, the
`score_clamped` note, enforcement text and package profile, none of which is read
again by a decision.

### PolicyResolution and DecisionPipeline

A policy file is the record of the fields it states. `Overlay` lays it over the
built-in policy, as `Load` does by decoding into `Default()`; `Loads` says whether
`Load` returns without an error, `Validate` included; `MergedField` is `Merge`,
field by field; `ResolvePolicy` puts the built-in policy, the repository's file,
the file of the command line and the mode flag together. A file of the repository
that does not load is passed over; one that was asked for ends the request.

What the model shows of the merge: a loaded policy carries the built-in values for
all its file does not state, and in the merge these override as stated ones do. A
`--policy` file that says nothing of thresholds, rules, mode or agents therefore
takes the repository's back to the built-in ones; only lists it leaves empty
survive. Nothing validates the outcome: thresholds of one file may meet the rules
of the other. `ResolvedPolicyIsSound` proves that the security rules survive all
the same.

`DecisionPipeline` takes one request, under any policy the files resolve to, through
evaluation, controls, and both again on the stored result. Two things are lost on
the way to the second judgement, and both may weaken it: how often a finding was
reported, for the stored reasons are a set, and advisories, for the local database
need not know all that OSV told (an advisory that only lists the versions it
affects loses the list when it is saved, `vulnerability.go:18`). The rescan
therefore sees any subset (`known`) of what was reported on line.

### ScanLifecycle

State: the policy in force; what OSV has published (`osv`) and what the local
database holds (`db`); the cache file, both its condition (`ok`, `empty`,
`garbled`) and its contents; and for each process its step, its request, its
result and the store it has loaded.

A process starts a request (`Start` fixes the policy, as a command loads it
once), obtains a result by one of the scans, and saves it: `SaveLoad`,
`SaveTruncate`, `SaveWrite`, which are the separate system calls behind `Load`,
`Put` and `os.WriteFile`. Two processes may be anywhere in these steps. `Crash`
may strike at any of them. A write into a file another process has filled since
the truncation leaves a mixture that may not parse.

The scans: online npm and PyPI (OSV answers or not, the database opens or not,
behaviour analysis finds something or does not happen), offline npm and PyPI (the
cached result stripped, evaluated and controlled again), Go and Cargo (cache
first, never judged again; offline without findings), the interceptor's stub for
a listed package and CI's result for a direct URL. Errors end the request.

What a result is about is not what was asked for. An npm artifact states its own
name and version in its `package.json` and a PyPI release has those of the
registry's metadata (`Declared`): lists, look-ups and the key in the cache follow
that name, so that one package's result may replace another's. An entry therefore
remembers the artifacts to whose analysis it goes back (`analysed`), and
`FindingNeverLaundered` speaks of those, whatever name the entry is under.
`analysed` is a history field: the code has no such field, and no guard reads it.
An advisory has ranges or only lists versions (`ranged`); the second kind is known
on line and matches nothing in the local database.

Not represented: the sandbox's own failures beyond "no findings"; two versions of
the database file.

### InstallGate

State: the newest release of each package and the requirements file (the world);
the step the command is in, the command with its flags, policy and surroundings
(`job`); the packages still to scan, the results and the aggregated decision; the
gate's answer; the log entries; whether the package manager ran, what it
installed, and the exit code.

`Program` follows `RunIntercept` line by line: the recursion guard, the policy,
the bypass, the parsing, `Validate` (collect, then one package at a time), the
gate, the audit entry, the output, the dry run, `delegate`. `Publish` and
`EditManifest` may happen between any two of these, for nothing is locked.
`route` remembers on which of the three ways the package manager was reached:
bypassed, passed through, or screened. The user's answer at the prompt, an
unwritable log and a failing standard output are nondeterministic.
`review_required` is left out: no scanner produces it.

### InstallContract

The abstract specification: packages are considered and the risk only grows; the
command is accepted, if its risk is consented to, or refused; an accepted command
that is no dry run is handed over; one that interception does not apply to is
handed over at once; the package manager starts at most once; any command may end
early. It knows neither results, logs nor exit codes. `InstallGate` instantiates
it as `Contract`: `Stage` is read off `pc`, `proceed` and the recursion guard, the
risk is the aggregated decision. A nested call is a stutter. `Consented` is stated
independently of `CanProceed`, with a reason always required for a block, as
`policy.Validate` demands.

### CIGate

State: the invocation (`request`) and what the registries would answer
(`registry`), both fixed; where the main goroutine is; the dependencies, which of
them the pool scans and the state of each worker's slot; the answers, the
findings, the cache, the reports written and the exit code.

`RunScan` is followed in its order. The options may end the run (`Reject`, by the
first check that fails); the dependencies are selected from the lockfile, less those
of the baseline (`SelectNpm`), or from the Python files, merged entry by entry
(`Dedupe`: an entry stands at a place, its file and its line, and the first place of
a name and version stands for all of them; `SelectPython`, where URLs are set aside
and only the rest goes to the pool); `Dispatch` is the loop that waits for the
semaphore and starts a goroutine, `ScanEnds` and `WorkerDone` are the goroutine's
scan and its deferred release, `PoolEnds` is the wait for all. `Tally` then takes
one dependency after the other: it saves the result, unless the scan failed, and
adds the finding. The reports follow in the order of `cmdCIScan`, each of which may
fail, then `Finish`.

`Required` and `FromURL`, which the properties use, are read off the files
independently of `Dedupe` and `DiffLockfiles`. A scanner's answer is *allow*,
*warn*, *block* or an error, and what the scanned package calls itself: no scanner
produces *review_required*, and *unknown* is what the pool makes of an error. The
cache entry has the package's own name; so has the finding of a Python dependency,
while that of an npm dependency keeps the dependency's (`Named`).

### IntelStore

State: the clock; the databases that were ever at the path, the newest being the
one there (a process keeps the handle it opened); the bundle; the import's
temporary file; and each process's step.

A database has rows per bucket, the marks (`last_update` and one per bucket), and
the schema it was made under. The updater opens and migrates, fetches a bucket
(`FetchBulk`: what its archive delivers at that moment, which is all that is
published but the entries that are too large or malformed, `Unreadable`; those are
skipped and the bucket is marked all the same), saves it in batches
(`SaveVulnerabilities`), marks it (`MarkSynced`) and goes on after a failure
(`SyncFails`); the last step sets `last_update` whatever happened.
`UpdateDBAsync` is the background form, which starts only on a stale mark. The
exporter composes its manifest from the open database, then reads the file, then
truncates and writes the bundle. An importer verifies the bundle, opens it a
second time, looks at the payload's SQLite header, writes the temporary file and
renames it. Any number of importers run side by side and share that one temporary
file, so that one may rename what another is still writing. Every process may be
killed at any step. `BundleAltered` damages a field of the bundle, and
`BundleRewritten` replaces its contents and computes the sums again: the bundle has
no signature that would show it. `earned`, `whole` and `intact` are histories of the
database (what was synchronised when, whether a copy is complete, that no one rewrote
it inside a bundle and no two imports wrote it), `origin` one of the bundle (what was
sealed together), `alone` and `seen` of an import (that it had the temporary file to
itself; which database it verified, `None` once the bundle was replaced before the
import read it again, which `BundleReplaced` sees to). No guard reads them.

Not represented: the contents of an advisory; the expiry of a bundle; the network.

### AgentServer

State: the world (what a scan of each package finds), the policies of the
repository and of the server, the lines sent and the next to be read, the answers,
the audit logs, the agent's own log and whether the loop lives.

The loop is sequential, and each tool is one action, for nothing else runs inside
it: it scans (with `Evaluate` and `ApplyPolicyControls` of `RiskDecision`),
amplifies for an agent (`evaluatePackage`), takes the policy its code takes,
words its advice by its own table (`Guidance`, `ModeGuidance`, `ValidateAllowed`,
`DiffAdvice`), logs where it logs, and replies, unless the line was a
notification. Blank lines, garbage and lines longer than the buffer are lines as
well. The findings of a package include its advisories. The specification is
`AgentSpec`, with names of its own, because `DecisionPipeline_proofs` extends both
modules: what stops an agent rests on the lemmas about the decision.

### ApiServer

State: the configuration `Serve` was called with, the server, the clock, the
buckets, and for each connection its stage, request and the time it read.
`admitted` counts, for the properties, what the limiter let through up to each time.

A request passes the stages of `wrap`: `LocalhostOnly`, `ReadClock` and `Allow`
(two steps, since `allow` reads the clock before it locks), `TokenAuth`, then its
handler; `Tick` may happen anywhere. A scan is two steps, the checks of its body
and its end. The clock counts in the time that refills a token, so that tokens are
whole numbers.

Not represented: shutdown, header and body timeouts, the wording of answers.

### SandboxRun

State: the request and the host, both fixed; the stage of the scan, the runner,
the script; the shell and its children (whether each is alive, in the shell's
group and holding the output pipe); the timer, what `select` received, the
workspaces in place, what the script touched, and the results.

Of what a script touched, only a part can be seen afterwards: `checkCanaryAccesses`
passes over a canary whose `stat` fails, because the script deleted or moved it or
locked its directory, and compares access times, which need not move (`noatime`) and
can be set back. `visible` are the touched files that are still in reach with a later
date, `printed` the canaries whose content came out; `excused` is a history of the
workspaces whose removal could not succeed. `Crash` kills pkgsafe at any stage; the
processes it watched go on, except inside bubblewrap (`--die-with-parent`).

`ValidateOffline`, `SelectRunner` and `NextScript` are the scanner's; `Prepare`,
`Start`, `ReceiveExit`, `Kill`, `Await`, `Analyze` and `CleanUp` the runner's.
`Expire` is the clock, `Reap` and `Waited` what `cmd.Wait` waits for. A script may
touch canaries, lock directories, spawn children that leave the group or let go of
the pipe, and exit, in any order or never. `Collapse` is the kernel ending a PID
namespace with its first process; it exists only under bubblewrap, whose flags
(`namespaceArgs`) are the reason. bubblewrap itself is taken at its flags.

### NpmInventory and DependencyFiles

Operators on files whose entries are given: what each parser lists of a file,
which lines it drops, what includes and extras do (`DependencyFiles`), what the
lockfile and `package.json` analysers find, in any order of the maps where the
code iterates over one (`PinChoices`); the inventory's rows, its mismatches, the
difference of two inventories, the tree and the integrity report (`NpmInventory`).
Where the code's result depends on the order of a map, the operator is the set of
the results it may have. Reading the text itself, quotes and comments, is
abstracted, but not where it goes wrong: a key of `pnpm-lock.yaml` or `yarn.lock`
with a suffix (`suffixed`) is read as another name (`Misread`), and an npm alias is
listed under the path it has, not under the package it `installs`.

### ProjectScan

State: the command; where it is; the advisory database and whether the
synchronisation the command started is still under way; the files and the
dependencies still to do; the summary of the present file and the rows; all
verdicts and all that was passed over (`missed`, which no guard reads); what was
saved and logged; the probes of `explain`, which answers it has received and
whether its timer has fired; the ecosystem it settled on; the exit status.

A project scan reads its files in the order of `cmdScan`, each by the action of
its kind, or passes over it; a dependency is scanned or fails; `CloseDependencies`
and `Report` are the two aggregations. `tree`, `verify` and `inventory-diff` are
one step each. The two sides of `inventory-diff` are not found alike: the walk over
the disk passes over `dist/` and `build/` (`hidden`), git over names it quotes
(`quoted`), and git reads the files it listed from the root of the repository
(`top`), wherever the command was called; what it cannot read is skipped.

`explain` starts two probes; their answers are *sent* (`ProbeAnswers`,
`ProbeFails`) and *received* (`Receive`) in separate steps, the timer is a third,
and `Settle` is what `detectEcosystem` makes of what it has then. `ExplainPanics`
is the nil store of `main.go:884`.

## 3. Runs

### Passing

| Run | Instance and bounds | Properties |
|---|---|---|
| `DecisionPipeline` | the policies that 8 files of a repository (block list, 3 rule sets, one file passed over, none), 31 of the command line (trust list, 3 scope lists, 4 exception settings; 6 faulty or contradicting ones, none) and 3 mode flags resolve to; 6 sets of findings, one of which may be reported twice, 5 of advisories, of which any part is known off line, 4 registries, 3 environments, 2 requesters, an npm package and a Go module | `SecurityIsFinal`, `SecurityFindingBlocks`, `RescanWeakerOnlyByLoss`, `BlockedRuleHolds`, `ExceptionOnlySoftensBlock`, `AgentAtLeastAsStrict` |
| `ScanLifecycle` | 2 symmetric processes; an npm package, a PyPI package and a Go module, each in a harmless and a malicious version, and an npm package that declares itself to be the first; an advisory with ranges or without; 2 policies; `MaxRequests` = 2 | `SecurityNeverClean`, `FindingNeverLaundered`, `CachedVerdictIsRejudged`, `DamageIsPermanent` |
| `InstallGate` | 9 commands (every form), the combinations of flags, 5 policies, 3 packages with `MaxRelease` = 2, 2 requirements files, PATH with a real package manager, with wrappers only or with nothing | `EveryRiskIsAccepted`, `NeverForcedHolds`, `PinnedIsScanned`, `LogIsHonest`, `DryRunIsDry`, `SuccessIsReal`, `KeepsContract`, `CommandEnds` |
| `CIGate` | 21 invocations (npm and Python, full and changed-only, broken inputs), every answer for 3 dependencies, one of which may come as another, 2 workers, 2 caches, a cache file that works or does not | `GateIsComplete`, `ExitTellsWorst`, `FailedScanKeepsVerdict`, `RunEnds` |
| `IntelStore` | 1 updater, 1 exporter, 2 symmetric importers; 2 buckets, the first advisory of one unreadable; `BatchSize` = 1, `RefreshAfter` = 1, `MaxTime` = 2, `MaxFiles` = 2, `MaxCommands` = 3; an empty or a legacy database | `MarkIsEarned`, `VerifiedIsOneSealing`, `ImportInstallsPayload` |
| `AgentServer` | 3 packages, 3 worlds, 4 pairs of policies, every tool; `MaxLines` = 2 | `SecurityFindingStopsAgent`, `AdviceIsConsistent`, `EveryRequestAnswered` |
| `ApiServer` | 2 symmetric connections, a local and a remote client, 5 configurations, `Capacity` = 2, `MaxTime` = 2 | `OnlyAuthorized`, `RateIsBounded`, `RefusedOnlyWhenSpent` |
| `SandboxRun` | packages of up to 2 scripts, each with a background process, a canary with a token, every mode, hosts with and without bubblewrap, a kill at any stage, `MaxPasses` = 1 | `HostRunsAreAsked`, `ObservedIsReported`, `WorkspacesGo`, `IsolatedAnalysisEnds` |
| `ProjectScan` | every command, 7 projects, 4 inventory trees in every combination of base, current and repository, lockfiles of all formats, with suffixed keys and an alias, 3 policies, `LargeGraph` = 3, every answer of the scanners and the registries | `ExitMatchesVerdicts`, `MalwareStopsScan`, `EcosystemIsNotConfused`, `DiffTellsChanges` |

Why the bounds are enough. A decision depends on one package, one registry and
on which features of a policy match it, so a single matching rule, scope or
exception of each kind, and all their combinations, cover the pipeline; two
scopes in a row cover the order among scopes. The cache's steps involve at most
two writers at a time in any of the interferences the code can meet (lost update,
write over a write, crash inside a write), and with two requests each a result is
stored, overwritten or lost, and read again. Three packages with two releases are
enough for one package to hide another in a command and for a release to appear
after the scan. Three dependencies on two workers make the pool full, so that one
waits for a slot that another frees. Two buckets let one fail while the other is
marked; three commands let one process meet both others, or two imports meet. One
background process is enough to outlive its shell, hold its output or write behind a
clean-up; what a script does to a canary is decided per file. A session of two lines
lets one tool follow another on the same logs; the tools share nothing else. Two
handlers with a bucket of two fill, exhaust and refill it within two ticks, one of
them holding an older reading of the clock. The code removes a workspace in up to
256 passes; with `MaxPasses` = 1 a script can lock directories deeper than that.

`CHECK_DEADLOCK` is off wherever the system stops for good: a pipeline that has
finished, processes that have used up a bound, a command that has ended, a session
that is closed. `ProjectScan` has a step for that (`Done`) and is checked for
deadlock.

Symmetry is used over the processes of `ScanLifecycle`, the connections of
`ApiServer` and the importers of `IntelStore`: no definition names one, and the only
properties there beside invariants are action properties that quantify over all of
them.

Type correctness of `InstallGate` is proved (`TypeTheorem`). The other modules
state it in the comments of their variables only; a value of another kind stops
the evaluation of the guards and properties with an error.

### Fairness

* `InstallGate`: weak fairness of `Program`, the steps of the one sequential
  process. That is the operating system running a runnable process; it also says
  that a user who is asked answers (the prompt has no timeout) and that a package
  manager that was started returns (there is none for it either). Nothing is
  assumed of `Publish` and `EditManifest`. `CommandEnds` holds with a real package
  manager on PATH or none, and is stated for these; with only wrappers, each calls
  itself (`executor.go:122`), for ever.
* `CIGate`: weak fairness of the main goroutine and of the workers together, which
  is Go's scheduler; that a scan ends is the timeouts of the HTTP clients.
* `AgentServer`: weak fairness of `Handle`, the loop; nothing of the client.
* `SandboxRun`: weak fairness of the program, of the timer, of reaping (the Go
  runtime) and of the collapse of a namespace (the kernel). A script need do
  nothing at all.

`ScanLifecycle`, `IntelStore`, `ApiServer`, `ProjectScan` and `DecisionPipeline`
claim safety only and assume no fairness.

### Disagreements between documents and code

Each of these runs checks one sentence of the documents or comments and finds a
behaviour of the code that contradicts it. Quotations and lines are in
`PROJECT.json`.

| Run | What the code does |
|---|---|
| `AgentMalware` | known malware is no more than suspicious when an agent asks |
| `HeuristicOutlives` | a process that leaves its group and keeps its output holds a scan past its timeout |
| `UnscannedPasses` | `ci scan` weighs a dependency that was not scanned as nothing at all, and passes |

The models contain more behaviour of this kind, or of a kind that may surprise,
for which no run is kept:

Decision and cache
* trust takes a critical vulnerability, an explicit policy block, to a warning
  (`policy_controls.go:142`; `security-enforcement.md` says it may not), a
  negative scoped delta takes a package of the block list there, and in block mode
  missing vulnerability data only warns: `Evaluate` forces a block for reasons that
  `ApplyPolicyControls`, deciding again from score and security reasons alone,
  does not know of. What does survive both stages, security reasons and
  blocked-package rules, is what the invariants and theorems state;
* an npm artifact is judged, looked up and stored under the name its `package.json`
  states, and may replace the stored result of the package of that name
  (`npm/scanner.go:298`);
* an advisory that lists versions without ranges is known on line only
  (`vulnerability.go:18`), and a finding reported twice counts twice, but once in a
  rescan (`risk.go:32`);
* an unscanned direct URL becomes *allow* in the next offline scan
  (`pypi/scanner.go:337`), a Go or Cargo package nothing is known about is allowed
  off line (`golang/scanner.go:88`), and a new block rule does not reach cached Go
  and Cargo verdicts, which are never judged again;
* `review_required` is produced by no code; `ResolvePolicy` ignores a repository
  policy that is invalid, and `Merge` lets defaults override its settings.

Interception
* a command that is passed through, and every command while interception is off,
  loses its `--dry-run` on the way and installs (`run.go:56`, `run.go:68`;
  `docs/install-interception.md:49` says "Scan only; do not install");
* one credential rule is missing from the list of what may never be forced
  (`enforcement.go:13`); a forced installation proceeds when the log cannot be
  written (`run.go:98`); an agent can force a block, and forcing a warning needs no
  reason;
* a package on the block list is blocked without a scan, so that listed malware
  carries no reason the gate refuses to force;
* ranges and unversioned names are resolved again when they are installed; URLs,
  paths and tarballs are passed through unscanned;
* `npm install` and `npm ci` in a project always end in a usage error, and
  `python -m pip install` is delegated without `-m pip`.

CI and the command line
* a project scan passes over a file it cannot read, a dependency whose scan fails
  and a name it cannot look up, and exits 0 (`main.go:2131`; `main.go:2404` calls it
  a fail-closed gate): `missed` in `ProjectScan`;
* a pnpm or yarn key with a suffix, an alias, or a lockfile of yarn 2 hides the
  package it lists from `scan-lockfile` (`deps/npm/lockfiles.go:97`; the comments at
  `lockfile.go:255` and `:272` name these formats as supported);
* `inventory-diff` tells changes between equal trees when called in a subdirectory,
  where `git show` looks for the listed paths elsewhere (`diff.go:63`), or when there
  are files in directories the walk passes over and git does not (`inventory.go:115`);
* `explain` panics on a damaged cache (`main.go:884`), exits 0 on a failed scan
  with a cached verdict, and its 1.5 s timer ends nothing (the `break` leaves the
  `select`);
* a lockfile with two versions of a name has one of them checked, in the order of
  a map; nested packages of format 1 are not read; an npm alias is looked up under
  its own name and not the one of the package that it installs (`lockfile.go:58`);
* `verify` counts a package in two statuses, passes an empty lockfile, and with
  `--json` exits 0 whatever it found (`main.go:3455`);
  `inventory-diff` reports changes of names locked twice that did not change, and
  misses changes that a later section or bundling masks;
* `scan-python-deps` scans local and URL entries against `parser.go:23-34`, and an
  extra in `pyproject.toml` truncates its array; `scan-*-deps` stop at the first
  failure with earlier results saved and nothing printed; an invalid `--fail-on` is
  noticed after the scan, or not at all without results;
* `npm-install` installs a package that warns in block mode; `scan-lockfile`
  ignores `--offline`, and `scan-local-npm` synchronises even off line; scoped
  names are logged empty in the audit of a lockfile.

Agents, HTTP, database, sandbox
* of the tools: `review_dependency_diff` passes over failed scans and takes a
  failing git for a clean diff; `score_lockfile` allows everything without a
  database; `validate_install_command` scans Go and Cargo packages as npm's and
  ignores who asks; `get_recent_package_decisions` reads the default log wherever
  entries are written; `record_agent_decision` answers *recorded* when the write
  failed; an overlong line ends the server;
* of the API: a request may set `offline` off on a server started off line and
  `sandbox` takes an isolated analysis to a heuristic one; all clients of one host
  share a bucket, buckets are never evicted, an old reading of the clock can refuse
  a client that has budget, and the write timeout loses the answer of a long scan;
* `last_update` is set though every synchronisation failed (`update_db.go:96`), so
  that status calls an empty database fresh; per-ecosystem marks are written under
  other keys than status looks up; an entry of the archive that cannot be read is
  skipped and the bucket marked all the same (`bulk.go:130`); an import verifies the
  bundle, opens its path again and installs what is there then (`bundle.go:242`);
  concurrent imports share a temporary file, so that one may install the other's half-written payload;
  the migration of a legacy database empties it and keeps its mark;
* npm scripts run before the advisory look-up, so that known malware is executed;
  a runner that fails adds no finding; a canary that was read and then deleted,
  hidden in a locked directory or read on a `noatime` mount is not reported as read
  (`behavior_analyzer.go:38`); removal gives up after 256 passes.

## 4. Proofs

TLC checks the instances above; the theorems hold for all constants that satisfy
the named assumptions, which TLC evaluates in the runs:

* `PoliciesAreValid` (`ScanLifecycle`), `GatePoliciesAreValid` (`InstallGate`),
  `CommandPoliciesAreValid` (`ProjectScan`): what `ResolvedPolicyIsSound` proves of
  every policy a command resolves, so this is no assumption about the files;
* `NoVersionIsNoVersion`, `VersionsResolve`, `DeclaredIsOfItsKind` (`ScanLifecycle`):
  "" is no version, a registry's newest version is a version, and the name an
  artifact gives itself is one of its own ecosystem;
* `CommandsAreParsed`, `VerdictsAreScans` (`InstallGate`): what the parsers return
  and what `SecurityReasonsBlock` proves of a scan;
* `EcosystemsAreKnown`, `AdvisoriesNameVersions`, `TreesAreNested`, `NamesTellKinds`
  (`ProjectScan`): there are two ecosystems, advisories list versions (not the
  absence of one), a lockfile's packages nest by name, and what is a `package.json`,
  a `package-lock.json` or a source file is so by its name, hence in every revision
  and in every directory of the repository;
* `DatabaseAssumption` (`IntelStore`): the database a user has already is one of the
  earlier releases': its marks are earned, and one of the older schema has no
  marks per ecosystem. The migration drops that one's rows and keeps its marks: with
  such a mark the theorem would be false;
* `CIAssumption`, `RequestAssumption`, `CacheAssumption` (`CIGate`): there is a
  worker, files are finite, the registry answers for what they list (with an error,
  where it knows nothing), and entries of the cache without an ecosystem were
  stored for failed scans;
* `LinesHaveIds` (`AgentServer`), `ScriptsAreLists` (`SandboxRun`): a line of a
  session has a field for its id, and a package lists its scripts;
* `PassesAreNatural` (`SandboxRun`), `ClientsAreKnown`, `ConnectionsAreFinite`,
  `BoundsAreNatural` (`ApiServer`), `IntelAssumption` (`IntelStore`): types of
  bounds.

The results, by module:

* `DecisionPipeline_proofs`. `ResolvedPolicyIsSound`: the built-in policy keeps its
  required security rules enabled and worth a block; a file that loads does, for
  `Validate` looked at the whole; and a merge does although no one validates it,
  since each rule and the lowest blocking score come as they are from one of the
  two, the thresholds together, and the required rules score 100 in both.
  `SecurityReasonsBlock`: a result of `ApplyPolicyControls` that carries a security
  reason is a block. The reasons added after the decision are not security
  reasons; any other one was there when security reasons were looked for, so the
  decision was forced and no exception applied. `ExceptionNeverAllows` and
  `BlockedRuleNeverAllows` follow the same stages. On these rest the invariants
  `SecurityIsFinal`, `SecurityFindingBlocks`, `BlockedRuleHolds` and the action
  properties `ExceptionOnlySoftensBlock`, `AgentAtLeastAsStrict`, for every policy
  the files can make and every package, finding and caller. The inductive invariant
  `IInv` says that a finished result is the controls' of something that still
  *carries* the findings, so that the rescan has them again, whatever part of the
  advisories it gets. The last part is about
  `AgentServer`: `SecurityFindingStopsAgent` and `AdviceIsConsistent`, for any
  sessions, worlds and policies. A package with such a finding is a block in every
  scan of the server (`ScanGuards`), and again after the amplifier, which drops
  only what it may find again (`AmplifiedGuards`); the worst of several packages is
  then a block (`WorstBlocks`), which each of the server's four ways to word
  advice turns into a stop (`GuidanceIsSound`, `WordingIsSound`,
  `InstructionIsSound`). `AgentInv` says of every answer given so far that it is
  proper; it is inductive because neither world nor policies change in a session.
  That the policies are valid (`AgentPoliciesAreValid`) is not needed.
  `AnswersTheorem` is about the loop: each handler takes one *turn* of it
  (`HandleIsTurn`), which answers the line that was read, skips what asks for no
  answer, or ends the loop; so the answers are those to the requests that were read,
  each once and in their order (`OrderInv`).
* `ScanLifecycle_proofs`. `SecurityNeverClean` and `FindingNeverLaundered` are
  invariants, for any number of processes. Neither is inductive: the second needs
  that an entry still carries the lasting findings (so that the next judgement sees
  them), and both must hold of results in memory and of loaded stores too, since a
  save writes those back. `IInv` says this of the store, of `out` and of `snap`; the
  scans preserve it by the lemmas on `Judge` and on stripping, the saves because
  they only move good entries. Nothing in it depends on the name that an entry is
  under, which is the artifact's word. `CachedVerdictIsRejudged` needs `JInv`, that
  whatever a process holds ready to save *stands* under the policy of its request:
  every way to obtain an npm or PyPI result, the cache included, ends in the
  controls or in a stub. `DamageIsPermanent` is an action property that follows from
  `IInv`: only a process whose load succeeded gets to truncate and write.
* `InstallGate_proofs`. `NeverForcedHolds` and `EveryRiskIsAccepted` are
  invariants. The inductive invariant `IInv` adds that the aggregated decision is
  the worst of the results so far, that no result changes after the gate has
  answered (`Answered`), and that the screened way was taken only on a positive
  answer. A forced release with a reason that may never be forced would be a
  block (`VerdictsAreScans`), so the aggregate is a block, so `CanProceed` looked
  at it. `TypeOK`, `LogIsHonest` and `DryRunIsDry` need a second invariant on top
  of it, `Course`: the entry in the log is the one the gate's answer calls for.
  It is inductive because nothing is logged before the gate is asked, and the
  gate is not asked again afterwards. `DryRunIsDry` says that a dry run reaches the
  package manager by one of two ways only, bypassed or passed through, which `Ways`
  ties to the settings and to the command's form; on these two the
  flag is gone and the package manager installs (section 3 lists it). `PinnedIsScanned` rests on a third,
  `Progress`: every package given by its release is either still to be scanned or
  among the results, under that release. `SuccessIsReal` adds what the package
  manager leaves behind. `GateKeepsContract`: the gate implements the contract,
  step by step; its `Inv` adds that only a command that interception applies to is
  being screened. `GoesOnTheorem`: a command goes from place to place towards its
  end, never back, but where PkgSafe starts its own wrapper.
* `CIGate_proofs`. `GateIsComplete`, `ExitTellsWorst` and `FailedScanKeepsVerdict`,
  for any lockfiles and Python files, any answers, any number of workers and any
  interleaving of them. The hard part is that nothing is lost on the way from the
  files to the findings. A place is the first of its name and version for exactly
  one of them (`FirstPlace`, `KeptAreRequired`, a bijection, hence the count);
  the sequence chosen enumerates what is kept (`EnumerationIsOnto`); the pool's
  positions enumerate what has no URL; a slot that is done holds the answer for its
  own dependency (`PoolAnswers`), which no other worker writes; and the tally takes
  one after the other (`FindingsFit`). `CInv` is the conjunction of these. That
  failed scans keep verdicts rests on `StandInsAreUnknown`: what is stored without an
  ecosystem is a stand-in, so a stand-in replaces nothing else. `ProgressTheorem`:
  whatever the workers do, a scan has a next step until it is done (`NeverStuck`,
  from what `PoolShape` says of slots and workers), and each step ends one or more
  of its tasks (a slot to hand out, to scan, to tell, a finding to count, a report
  to write) and begins none; there are finitely many (`TasksAreFinite`).
* `IntelStore_proofs`. `VerifiedIsOneSealing` for any number of processes: a
  bundle's checksums are those of what was sealed (`BundleInv`), which an alteration
  of other fields leaves true and a rewriting makes true of the new contents; so a
  bundle they match is, database and manifest, of one sealing. It does not say by
  whom. `MarkIsEarned`: `StoreInv` says of every copy of the database, in the file,
  in an open handle, on its way through export, bundle and import, that its marks are
  earned unless it was rewritten or written by two, and of an updater what part of
  what it was delivered is already saved. `ImportInstallsPayload` (only an import replaces the
  database, by exactly what it read, and that is what it verified unless the bundle
  was replaced in between, `SeenInv`) holds for any number of imports: `AloneInv` says of an import that still has the temporary file
  to itself that it is the only writer, and that the file is complete and holds its
  payload when it is renamed (`ImportKeeps`). Of the others it says nothing: they
  may install each other's half (`bundle.go:253`).
* `ProjectScan_proofs`. `EcosystemIsNotConfused` for any commands, registries and
  orders of answers: an answer that was received is the registry's
  (`AnswersAreTrue`, `ProbesAreTrue`), and no command but `explain` settles on an
  ecosystem, which it does once. `ExitMatchesVerdicts`: the upper-case decisions of
  the rows and of the summary under way tell a threshold exactly if a verdict
  reached it (`NothingForgotten`, for *warn* and *block* each). `MalwareStopsScan`:
  a plain key is read as it stands, whatever other keys are taken for
  (`InstalledIsListed`), and a row of a lockfile with known malware is a block or the
  look-up was missed
  (`RowsTellMalware`), whichever pin of a name the map's order keeps
  (`OnlyVersionIsKept`, `LockMalwareBlocks`), and a tree shows every listed node
  whose chain is short enough (`MalwareIsShown`). `DiffTellsChanges`: the invariant
  (`DInv`) is short, the work is in the lemmas on inventories. Under a key, file and
  name, a map keeps one of the rows that no other comes after
  (`MapKeepsContenders`); the rows of a key all come from the one file
  (`RowsComeFromFiles`), and if neither of two comes after the other they tell the
  same (`LastRowsAgree`), so that nothing changes between equal trees. A name with
  one entry in a `package.json` has that entry's row under its key, and no other
  entry gives the same row (`EntryIsReported`). All this is said of the two parts of
  the trees that the walk and git read (`PartIs`, `PartHasRanges`): at the root of
  the repository they are the whole trees but for what either passes over.
* `SandboxRun_proofs`. `HostRunsAreAsked` for any requests, hosts and scripts: the
  runner is chosen once, after the offline check, and nothing runs before
  (`NothingRunsBefore`); the kernel's and the script's own steps change neither
  runner nor request. `ObservedIsReported` is an action property: the only steps that
  add a result are `Analyze` and a failed preparation. `WorkspacesGo` needs
  `CleaningUp`: a clean-up that is not excused meets no process of the script and
  has passes left for every locked level, and only a shell that runs begins a process,
  so that it stays so until the workspace is gone. `ProgressTheorem`: a script is
  watched under an armed or expired timer only, and awaited only once it has exited
  or was killed (`Watching`); inside bubblewrap the kernel then takes what is left of
  it (`Collapse`), so that no state is stuck, and scripts, stages and what is
  outstanding, in this order, only go down. On the host the second half holds and
  the first does not: that is the finding of run `HeuristicOutlives`.
* `ApiServer_proofs`. `OnlyAuthorized` for any clients, connections and
  configurations. It speaks of requests past the middleware only; the
  inductive form says of every stage what a connection has shown by then (`Shown`):
  past the guard its address, past the token check its token. That a server that
  is up was allowed to listen gives the rest. `RateIsBounded` and
  `RefusedOnlyWhenSpent` rest on the *level* of a bucket, its tokens less the time of
  its last use. A request that is let through lowers it by one, or brings it to
  what a full bucket has left; a refused one leaves it. Nothing raises it, whatever
  reading of the clock a request comes with. So what was let through since a time
  shows in the level (`LevelShows`), but for the requests with an older reading, of
  which each connection brings one at most; and the level cannot be as low as a
  refusal needs unless that much was let through (`LevelIsSpent`). `RInv` counts
  the connections that are still late: without them it would not be inductive.

Only model-checked:

* liveness (`CommandEnds`, `RunEnds`, `EveryRequestAnswered`, `IsolatedAnalysisEnds`):
  that what may be done is done in the end, for which the prover has no rules. What
  these properties need besides is proved (`ProgressTheorem` twice, `GoesOnTheorem`,
  `AnswersTheorem`): that nothing is stuck, passed over or done for ever;
* `RescanWeakerOnlyByLoss`: no theorem, for it does not hold for all policies. A valid
  policy may score `http_registry_warning` at -100, which the controls add once
  more each time; TLC checks it where rules keep the sign of their built-in score.

## 5. Plan

Done: the decision and the policies it is taken under, its life in the cache, the
gate and its contract, CI, the advisory database and its bundle, the two servers,
the sandbox, the command line's scans; the safety properties of all of them,
proved, except `RescanWeakerOnlyByLoss`. What would come next:

1. `VersionRange`: a pure module checked against a reference definition.
2. The evidence pack: its seal and what `evidence verify` notices.

## 6. Not modelled, and why

* Reports and evidence packs render results already decided, by one process;
  `evidence verify` recomputes hashes and nothing else reads them.
* The audit reader, feedback, logging and output read or append sequentially. What
  is written to the audit log, and when, is in `InstallGate`, `AgentServer` and
  `ProjectScan`.
* The validation harness runs the program and compares files; it is no part of what
  users run.
* The text of a policy file and the settings no decision of a scan depends on;
  `PolicyResolution` starts from the fields a file states.
* `doctor`, `history`, `policy`, `sandbox profile` and `init-shell` read or write
  one file at the user's hand.
* The PyPI, Go and Cargo analysers and the typosquatting distance match patterns in
  contents; their outcome is a constant of the models. Downloads and extraction are
  their findings or a failure.
