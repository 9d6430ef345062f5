------------------------------- MODULE CIGate -------------------------------
(***************************************************************************)
(* pkgsafe ci scan: from the dependency files of a repository to the exit  *)
(* code that fails, or does not fail, the workflow.  The main goroutine    *)
(* selects the dependencies, at most Workers goroutines scan them, and the *)
(* main goroutine then saves, counts and reports the results in order.     *)
(*                                                                         *)
(* A request is what one invocation finds: its options, the files on disk  *)
(* and the baseline.  What the scanner answers for a dependency is part of *)
(* the environment (DecisionPipeline and ScanLifecycle model it).          *)
(***************************************************************************)
EXTENDS Integers, Sequences, FiniteSets, SequencesExt

CONSTANTS
  Requests,       \* the invocations considered
  Registries,     \* the answers considered: functions of <<name, version>> to AnswerType
  Workers,        \* defaultScanConcurrency
  Caches,         \* what the result cache may hold before the run
  Absent,         \* no such file, directory or git reference
  Unreadable,     \* it exists and cannot be read
  Malformed,      \* it can be read and not parsed
  None            \* no result yet

FailOns   == {"none", "warn", "block"}
LockfileName == "package-lock.json"
PythonFiles == <<"requirements.txt", "pyproject.toml", "poetry.lock", "uv.lock", "Pipfile",
                 "Pipfile.lock">>

(* A scan answers a verdict or an error, and the name and version it gives *)
(* the package, which an npm artifact states and a Python index resolves.  *)
(* Reasons and vulnerabilities are what the SARIF report lists: an         *)
(* identifier and a severity.                                              *)
AnswerType == [decision : {"allow", "warn", "block", "error"},
               pkg : [name : STRING, version : STRING],
               reasons : SUBSET [id : STRING, severity : STRING],
               vulnerabilities : SUBSET [id : STRING, severity : STRING]]

ASSUME CIAssumption ==
  /\ Workers \in Nat \ {0}
  /\ \A g \in Registries : \A k \in DOMAIN g : g[k] \in AnswerType

----------------------------------------------------------------------------
(* Dependencies of an npm lockfile: the packages installed under           *)
(* node_modules, by the last segment of their path, and the top level of   *)
(* the older "dependencies" table.                                         *)

ModuleName(path) == IF path = <<>> THEN "" ELSE Last(path)

ParseLockfile(content) ==
  LET listed == {<<ModuleName(p.path), p.version>> : p \in content.packages}
                  \cup {<<d.name, d.version>> : d \in content.dependencies}
  IN {d \in listed : d[1] # "" /\ d[2] # ""}

Parsed(content) == content \notin {Absent, Unreadable, Malformed}

\* Mutant: only new names count as changed, not new versions.
DiffLockfiles_ByName(current, baseline) ==
  {d \in ParseLockfile(current) : \A b \in ParseLockfile(baseline) : b[1] # d[1]}

DiffLockfiles(current, baseline) ==
  {d \in ParseLockfile(current) : d \notin ParseLockfile(baseline)}

\* The baseline a changed-only scan compares with: a readable file, else the
\* lockfile of a git reference; a file that is there and unusable ends the search.
BaselineContent(r) ==
  IF r.baselineFile # Absent THEN r.baselineFile ELSE r.baselineRef

\* --full and --changed-only override the policy.
ChangedOnly(r) ==
  IF r.full THEN FALSE ELSE IF r.changedOnlyFlag THEN TRUE ELSE r.policyChangedOnly

NpmLock(r) == r.disk[IF r.lockfile = "" THEN LockfileName ELSE r.lockfile]

IsDiff(r) == ChangedOnly(r) /\ Parsed(NpmLock(r)) /\ Parsed(BaselineContent(r))

NpmDependencies(r) ==
  IF IsDiff(r) THEN DiffLockfiles(NpmLock(r), BaselineContent(r))
               ELSE ParseLockfile(NpmLock(r))

----------------------------------------------------------------------------
(* Dependencies of Python manifests and lockfiles.  An entry has a name, a *)
(* version ("" when it is not pinned), the URL it names instead of the     *)
(* index ("" for none), and whether it comes from a lockfile or is local.  *)

\* By the order in which they are read.
PythonDependencyFiles(r) ==
  IF r.dependencyFile # "" THEN <<r.dependencyFile>>
  ELSE IF r.lockfile \notin {"", LockfileName} THEN <<r.lockfile>>
  ELSE [i \in {j \in DOMAIN PythonFiles : r.disk[PythonFiles[j]] # Absent} |-> PythonFiles[i]]

\* The place of an entry: that of its file, and its own in the file.
Places(r) ==
  LET files == PythonDependencyFiles(r)
  IN  UNION {{i} \X DOMAIN r.disk[files[i]] : i \in DOMAIN files}

Before(p, q) == p[1] < q[1] \/ (p[1] = q[1] /\ p[2] < q[2])

PythonEntries(r) ==
  LET files == PythonDependencyFiles(r)
  IN  [p \in Places(r) |-> r.disk[files[p[1]]][p[2]]]

SameKey(d, e) == d.name = e.name /\ d.version = e.version

FromIndex(d) == d.url = ""

\* One entry per name and version, where the key first appears: from a lockfile, or
\* local, only if all entries of the key are; the first URL that one of them names.
\* An entry without a version yields to the versioned ones of its name, which become
\* direct if it was in a manifest.
Same(entries, p) == {q \in DOMAIN entries : SameKey(entries[p], entries[q])}

Versioned(entries, name) ==
  \E q \in DOMAIN entries : entries[q].name = name /\ entries[q].version # ""

Collapsed(entries, p) == entries[p].version = "" /\ Versioned(entries, entries[p].name)

First(entries) ==
  {p \in DOMAIN entries : /\ ~Collapsed(entries, p)
                          /\ \A q \in Same(entries, p) : q = p \/ Before(p, q)}

URLOf(entries, p) ==
  LET named == {q \in Same(entries, p) : ~FromIndex(entries[q])}
  IN  IF named = {} THEN ""
      ELSE entries[CHOOSE q \in named : \A o \in named : o = q \/ Before(q, o)].url

Dedupe(entries) ==
  [p \in First(entries) |->
     [entries[p] EXCEPT
        !.lock  = /\ \A q \in Same(entries, p) : entries[q].lock
                  /\ ~\E q \in DOMAIN entries : /\ Collapsed(entries, q) /\ ~entries[q].lock
                                                /\ entries[q].name = entries[p].name,
        !.local = \A q \in Same(entries, p) : entries[q].local,
        !.url   = URLOf(entries, p)]]

InOrder(places) ==
  {o \in SetToSeqs(places) : \A j, k \in DOMAIN o : j < k => Before(o[j], o[k])}

\* What is not local, in order; there is one such sequence.
PythonDependencies(merged) ==
  {[k \in DOMAIN o |-> merged[o[k]]] : o \in InOrder({p \in DOMAIN merged : ~merged[p].local})}

----------------------------------------------------------------------------
(* The options decide the ecosystem and may end the run before any scan.   *)

DetectEcosystem(r) ==
  LET file == IF r.dependencyFile # "" THEN r.dependencyFile ELSE r.lockfile
      present == SelectSeq(<<LockfileName>> \o PythonFiles, LAMBDA f : r.disk[f] # Absent)
  IN IF file = LockfileName THEN "npm"
     ELSE IF file \in ToSet(PythonFiles) THEN "pypi"
     ELSE IF present # <<>> /\ Head(present) # LockfileName THEN "pypi" ELSE "npm"

Ecosystem(r) == IF r.ecosystem # "" THEN r.ecosystem ELSE DetectEcosystem(r)
FailOn(r)    == IF r.failOn # "" THEN r.failOn ELSE r.policyFailOn

Success == 0
FailThreshold == 1
UsageError == 2
InternalError == 3
PolicyError == 4
LockfileError == 5

PythonFilesUnusable(r) ==
  \/ DOMAIN PythonDependencyFiles(r) = {}
  \/ \E i \in DOMAIN PythonDependencyFiles(r) : ~Parsed(r.disk[PythonDependencyFiles(r)[i]])

\* The first check of RunScan that fails, in its order.
Rejection(r) ==
  IF ~r.policyLoads THEN PolicyError
  ELSE IF FailOn(r) \notin FailOns THEN UsageError
  ELSE IF Ecosystem(r) = "pypi"
       THEN IF PythonFilesUnusable(r) THEN LockfileError ELSE Success
  ELSE IF ~Parsed(NpmLock(r)) THEN LockfileError
  ELSE IF r.behavior \notin {"", "disabled", "heuristic", "isolated"} THEN UsageError
  ELSE Success

----------------------------------------------------------------------------
(* What a request's files require to be judged, read independently of the  *)
(* code's merging: every registry package of the lockfile that the         *)
(* baseline does not have, every Python entry that is not local.           *)

Entries(r) == {PythonEntries(r)[p] : p \in Places(r)}

Required(r) ==
  IF Ecosystem(r) = "pypi"
  THEN {<<e.name, e.version>> : e \in
          {e \in Entries(r) :
             /\ ~e.local
             /\ e.version = "" => ~\E f \in Entries(r) : f.name = e.name /\ f.version # ""}}
  ELSE {d \in ParseLockfile(NpmLock(r)) :
          ~(IsDiff(r) /\ d \in ParseLockfile(BaselineContent(r)))}

\* A URL anywhere among the entries of a name and version makes it unscannable.
FromURL(r, name, version) ==
  /\ Ecosystem(r) = "pypi"
  /\ \E e \in Entries(r) : e.name = name /\ e.version = version /\ ~FromIndex(e)

\* What a failed scan is stored under, for it leaves the field out.
NoEcosystem == ""

EntryType == [name : STRING, version : STRING, url : STRING, local : BOOLEAN, lock : BOOLEAN]

(* Files are finite, the registry answers for all they list (an error, if  *)
(* it does not know a package), and whatever an earlier run stored without *)
(* an ecosystem was the stand-in for a failed scan.                        *)
ASSUME RequestAssumption ==
  \A r \in Requests : Rejection(r) = Success =>
    /\ IF Ecosystem(r) = "pypi"
       THEN /\ IsFiniteSet(Places(r)) /\ Places(r) \subseteq Nat \X Nat
            /\ Entries(r) \subseteq EntryType
       ELSE IsFiniteSet(NpmDependencies(r))
    /\ \A g \in Registries : Required(r) \subseteq DOMAIN g
ASSUME CacheAssumption ==
  \A c \in Caches : \A k \in DOMAIN c : k[1] = NoEcosystem => c[k] = "unknown"

----------------------------------------------------------------------------
VARIABLES
  request, registry,
  pc,           \* where the main goroutine is
  deps,         \* the dependencies to scan, in order
  toScan,       \* registryIdx: the indexes of deps the pool scans
  next,         \* the next position of toScan to hand to a worker
  worker,       \* per position of toScan: "waiting", "scanning", "released" or "done"
  out,          \* what the workers answered, per position of toScan
  findings,     \* the findings so far, one per dependency
  cache,        \* the result cache, by <<ecosystem, name, version>>
  cacheWorks,   \* whether the cache file can be loaded and written
  reports,      \* the reports written
  exitCode

vars == <<request, registry, pc, deps, toScan, next, worker, out, findings,
          cache, cacheWorks, reports, exitCode>>

Init ==
  /\ request \in Requests
  /\ registry \in Registries
  /\ cache \in Caches
  /\ cacheWorks \in BOOLEAN
  /\ pc = "start"
  /\ deps = <<>> /\ toScan = <<>> /\ next = 1 /\ worker = <<>> /\ out = <<>>
  /\ findings = <<>> /\ reports = {} /\ exitCode = None

Exit(code) == pc' = "done" /\ exitCode' = code

\* RunScan returns a ScanError before it has scanned anything.
Reject ==
  /\ pc = "start" /\ Rejection(request) # Success
  /\ Exit(Rejection(request))
  /\ UNCHANGED <<request, registry, deps, toScan, next, worker, out, findings,
                 cache, cacheWorks, reports>>

NpmDependency(d) == [name |-> d[1], version |-> d[2], url |-> "", local |-> FALSE,
                     lock |-> d[1] \notin request.packageJSON]

\* registryIdx: what does not come from a URL, in order.
StartPool(chosen) ==
  /\ deps' = chosen
  /\ \E order \in SetToSeqs({i \in DOMAIN chosen : FromIndex(chosen[i])}) :
       /\ \A j, k \in DOMAIN order : j < k => order[j] < order[k]
       /\ toScan' = order
       /\ worker' = [j \in DOMAIN order |-> "waiting"]
       /\ out' = [j \in DOMAIN order |-> None]
  /\ next' = 1
  /\ pc' = "scan"

\* The npm dependencies come out of Go maps, in any order; a dependency that is
\* not in package.json counts as transitive.
SelectNpm ==
  /\ pc = "start" /\ Rejection(request) = Success /\ Ecosystem(request) # "pypi"
  /\ \E order \in SetToSeqs(NpmDependencies(request)) :
       StartPool([i \in DOMAIN order |-> NpmDependency(order[i])])
  /\ UNCHANGED <<request, registry, findings, cache, cacheWorks, reports, exitCode>>

SelectPython ==
  /\ pc = "start" /\ Rejection(request) = Success /\ Ecosystem(request) = "pypi"
  /\ \E entries \in {PythonEntries(request)} :
     \E merged \in {Dedupe(entries)} :
     \E chosen \in PythonDependencies(merged) : StartPool(chosen)
  /\ UNCHANGED <<request, registry, findings, cache, cacheWorks, reports, exitCode>>

----------------------------------------------------------------------------
(* The worker pool.  The channel sem holds one slot per running worker; a  *)
(* worker gives its slot back before it tells the wait group.              *)

Scanning == {j \in DOMAIN worker : worker[j] = "scanning"}

Dispatch ==
  /\ pc = "scan" /\ next <= Len(toScan)
  /\ Cardinality(Scanning) < Workers
  /\ worker' = [worker EXCEPT ![next] = "scanning"]
  /\ next' = next + 1
  /\ UNCHANGED <<request, registry, pc, deps, toScan, out, findings, cache,
                 cacheWorks, reports, exitCode>>

Result(ecosystem, pkg, decision, reasons, vulnerabilities) ==
  [ecosystem |-> ecosystem, name |-> pkg.name, version |-> pkg.version,
   decision |-> decision, reasons |-> reasons, vulnerabilities |-> vulnerabilities]

\* Mutant: the stand-in for a failed scan carries the ecosystem.
UnknownScanResult_Named(dep) ==
  Result(Ecosystem(request), dep, "unknown",
         {[id |-> "package_not_scanned", severity |-> "medium"]}, {})

UnknownScanResult(dep) ==
  Result(NoEcosystem, dep, "unknown", {[id |-> "package_not_scanned", severity |-> "medium"]}, {})

DirectURLScanResult(dep) ==
  Result("pypi", dep, "unknown",
         {[id |-> "direct_url_dependency_not_scanned", severity |-> "medium"]}, {})

AnswerFor(dep) == registry[<<dep.name, dep.version>>]

ScanResultOf(dep) ==
  IF AnswerFor(dep).decision = "error" THEN UnknownScanResult(dep)
  ELSE Result(Ecosystem(request), AnswerFor(dep).pkg, AnswerFor(dep).decision,
              AnswerFor(dep).reasons, AnswerFor(dep).vulnerabilities)

\* Mutant: a failed scan returns before it frees its slot.
ScanEnds_SlotKept(j) ==
  /\ worker[j] = "scanning" /\ AnswerFor(deps[toScan[j]]).decision # "error"
  /\ out' = [out EXCEPT ![j] = ScanResultOf(deps[toScan[j]])]
  /\ worker' = [worker EXCEPT ![j] = "released"]
  /\ UNCHANGED <<request, registry, pc, deps, toScan, next, findings, cache,
                 cacheWorks, reports, exitCode>>

\* The scan ends, with a verdict or an error; its result is stored, its slot freed.
ScanEnds(j) ==
  /\ worker[j] = "scanning"
  /\ out' = [out EXCEPT ![j] = ScanResultOf(deps[toScan[j]])]
  /\ worker' = [worker EXCEPT ![j] = "released"]
  /\ UNCHANGED <<request, registry, pc, deps, toScan, next, findings, cache,
                 cacheWorks, reports, exitCode>>

WorkerDone(j) ==
  /\ worker[j] = "released"
  /\ worker' = [worker EXCEPT ![j] = "done"]
  /\ UNCHANGED <<request, registry, pc, deps, toScan, next, out, findings, cache,
                 cacheWorks, reports, exitCode>>

PoolEnds ==
  /\ pc = "scan" /\ next > Len(toScan)
  /\ \A j \in DOMAIN worker : worker[j] = "done"
  /\ pc' = "tally"
  /\ UNCHANGED <<request, registry, deps, toScan, next, worker, out, findings, cache,
                 cacheWorks, reports, exitCode>>

----------------------------------------------------------------------------
(* The results, one by one.                                                *)

\* scanned[registryIdx[j]] = res: the pool's answers back at their dependencies.
Scanned(i) ==
  IF ~FromIndex(deps[i]) THEN DirectURLScanResult(deps[i])
  ELSE out[CHOOSE j \in DOMAIN toScan : toScan[j] = i]

\* saveResult: the cache file is loaded and written again; an error is ignored.
SaveResult(res) ==
  cache' = IF cacheWorks
           THEN [k \in DOMAIN cache \cup {<<res.ecosystem, res.name, res.version>>} |->
                   IF k = <<res.ecosystem, res.name, res.version>> THEN res.decision
                                                                   ELSE cache[k]]
           ELSE cache

\* An npm finding is named after the dependency, a Python one after the result.
Named(dep, res) == IF Ecosystem(request) = "pypi" THEN res ELSE dep

Tally ==
  LET i == Len(findings) + 1
  IN /\ pc = "tally" /\ i <= Len(deps)
     /\ SaveResult(Scanned(i))
     /\ findings' = Append(findings,
          [name |-> Named(deps[i], Scanned(i)).name,
           version |-> Named(deps[i], Scanned(i)).version,
           decision |-> Scanned(i).decision, direct |-> ~deps[i].lock,
           reasons |-> Scanned(i).reasons,
           vulnerabilities |-> Scanned(i).vulnerabilities])
     /\ UNCHANGED <<request, registry, pc, deps, toScan, next, worker, out, cacheWorks,
                    reports, exitCode>>

Count(decision) == Cardinality({i \in DOMAIN findings : findings[i].decision = decision})

\* Unknown results are counted and do not weigh.
OverallDecision ==
  IF Count("block") > 0 THEN "block"
  ELSE IF Count("review_required") > 0 THEN "review_required"
  ELSE IF Count("warn") > 0 THEN "warn" ELSE "allow"

ScanCoverage ==
  IF Ecosystem(request) = "pypi" \/ ~IsDiff(request) THEN "full"
  ELSE IF deps = <<>> THEN "changed_only_empty" ELSE "changed_only"

----------------------------------------------------------------------------
(* The reports, in the order they are written; the first that fails ends   *)
(* the command with an internal error.                                     *)

\* Warnings, reviews and blocks; an unknown dependency is not among them.
TopFindings == {i \in DOMAIN findings :
                  findings[i].decision \in {"block", "warn", "review_required"}}

RecommendedAction ==
  CASE OverallDecision = "block" -> "remove or replace"
    [] OverallDecision = "review_required" -> "request review"
    [] OverallDecision = "warn" -> "review warnings"
    [] OverallDecision = "allow" /\ ScanCoverage = "changed_only_empty" -> "nothing to gate"
    [] OTHER -> "no action"

SarifLevel(severity) ==
  CASE severity \in {"critical", "high"} -> "error"
    [] severity = "medium" -> "warning"
    [] OTHER -> "note"

\* One row per reason and per advisory of every finding.
SarifRows ==
  UNION {{[rule |-> x.id, level |-> SarifLevel(x.severity),
           package |-> findings[i].name, version |-> findings[i].version] :
            x \in findings[i].reasons \cup findings[i].vulnerabilities} :
         i \in DOMAIN findings}

WorkflowResult ==
  CASE FailOn(request) = "warn" /\ OverallDecision \in {"warn", "block", "review_required"}
         -> "fails"
    [] FailOn(request) = "block" /\ OverallDecision \in {"block", "review_required"}
         -> "fails"
    [] FailOn(request) = "none" -> "reports only"
    [] OTHER -> "passes"

ReportOrder == <<"human", "json", "sarif", "markdown">>
Wanted(kind) == kind = "human" \/ kind \in request.outputs

\* The reports that come before kind and were asked for are written.
Due(kind) ==
  /\ pc = "tally" /\ Len(findings) = Len(deps)
  /\ Wanted(kind) /\ kind \notin reports
  /\ \A i, j \in DOMAIN ReportOrder :
        (ReportOrder[j] = kind /\ i < j /\ Wanted(ReportOrder[i]))
           => ReportOrder[i] \in reports

WriteReport(kind) ==
  /\ Due(kind)
  /\ reports' = reports \cup {kind}
  /\ UNCHANGED <<request, registry, pc, deps, toScan, next, worker, out, findings,
                 cache, cacheWorks, exitCode>>

ReportFails(kind) ==
  /\ Due(kind) /\ kind # "human"
  /\ Exit(InternalError)
  /\ UNCHANGED <<request, registry, deps, toScan, next, worker, out, findings,
                 cache, cacheWorks, reports>>

\* Mutant: warnings never fail the workflow.
ThresholdReached_BlockOnly ==
  FailOn(request) \in {"block", "warn"} /\ OverallDecision = "block"

ThresholdReached ==
  \/ FailOn(request) = "block" /\ OverallDecision = "block"
  \/ FailOn(request) = "warn" /\ OverallDecision \in {"block", "warn"}

Finish ==
  /\ pc = "tally" /\ Len(findings) = Len(deps)
  /\ \A kind \in ToSet(ReportOrder) : Wanted(kind) => kind \in reports
  /\ Exit(IF ThresholdReached THEN FailThreshold ELSE Success)
  /\ UNCHANGED <<request, registry, deps, toScan, next, worker, out, findings,
                 cache, cacheWorks, reports>>

----------------------------------------------------------------------------
Main == \/ Reject \/ SelectNpm \/ SelectPython \/ Dispatch \/ PoolEnds \/ Tally
        \/ (\E kind \in ToSet(ReportOrder) : WriteReport(kind) \/ ReportFails(kind))
        \/ Finish

Next == Main \/ (\E j \in DOMAIN worker : ScanEnds(j) \/ WorkerDone(j))

(* The goroutines run until they end (Go's scheduler is fair), and a scan  *)
(* ends: every registry and advisory client has a timeout.                 *)
Spec == Init /\ [][Next]_vars
FairSpec == Spec /\ WF_vars(Main)
                 /\ WF_vars(\E j \in DOMAIN worker : ScanEnds(j) \/ WorkerDone(j))

----------------------------------------------------------------------------
Judged == pc = "done" /\ exitCode \in {Success, FailThreshold}

\* What a run has to tell of a dependency: the verdict of the registry on that very
\* package, or that it is unknown.  A Python package that was scanned goes by the name
\* and the version the index has for it.
ToTell(name, version) ==
  LET answer  == registry[<<name, version>>]
      scanned == ~FromURL(request, name, version) /\ answer.decision # "error"
      indexed == scanned /\ Ecosystem(request) = "pypi"
  IN [name     |-> IF indexed THEN answer.pkg.name ELSE name,
      version  |-> IF indexed THEN answer.pkg.version ELSE version,
      decision |-> IF scanned THEN answer.decision ELSE "unknown"]

\* A run that passes judgement has selected each required dependency once, and its
\* findings tell of them what is to be told, one of each in their order, however the
\* workers interleave (ci/concurrency.go parallelScan, ci/scan.go runPyPIScan and its
\* registryIdx).
GateIsComplete ==
  Judged =>
    /\ {<<deps[i].name, deps[i].version>> : i \in DOMAIN deps} = Required(request)
    /\ Len(deps) = Cardinality(Required(request)) /\ Len(findings) = Len(deps)
    /\ \A i \in DOMAIN findings :
         [name |-> findings[i].name, version |-> findings[i].version,
          decision |-> findings[i].decision] = ToTell(deps[i].name, deps[i].version)

\* The exit code, the SARIF rows and the Markdown's workflow line tell the same story:
\* a finding at or above the threshold fails the workflow and heads the human summary,
\* nothing else fails it, and every dependency that was not scanned has its row (pkg/cli
\* cmdCIScan, ci/summary.go).  That a dependency which could not be scanned is among
\* the "nothing else" is what UnscannedFailsClosed says against.
ExitTellsWorst ==
  Judged =>
    /\ (exitCode = FailThreshold)
         <=> \E i \in DOMAIN findings :
               \/ findings[i].decision = "block" /\ FailOn(request) # "none"
               \/ findings[i].decision = "warn" /\ FailOn(request) = "warn"
    /\ (exitCode = FailThreshold) <=> (WorkflowResult = "fails")
    /\ exitCode = FailThreshold =>
         TopFindings # {} /\ RecommendedAction \notin {"no action", "nothing to gate"}
    /\ \A i \in DOMAIN findings : findings[i].decision = "unknown" =>
         \E row \in SarifRows : row.package = findings[i].name /\ row.level = "warning"

\* A dependency whose scan failed leaves the verdict an earlier run cached for it as it
\* was, so that a later explanation or offline scan still finds it; a URL dependency
\* is the exception (ci/scan.go saveResult, unknownScanResult).
KeepsVerdicts ==
  \A k \in DOMAIN cache :
     cache[k] # "unknown" => cache'[k] # "unknown" \/ FromURL(request, k[2], k[3])

FailedScanKeepsVerdict ==
  [][KeepsVerdicts]_cache

\* Every run ends with an exit code: the pool frees its slots whatever the scans answer.
RunEnds == <>(exitCode # None)

-----------------------------------------------------------------------------
(* What the documents say and the code does not do.                        *)

\* ci/concurrency.go: a failed scan "can't be mistaken for a clean ALLOW"; CHANGELOG.md:
\* a URL dependency is "UNKNOWN (fail closed)".  A gate that is to fail on something
\* does not pass a run in which a dependency was not scanned, nor call it allowed.
UnscannedFailsClosed ==
  Judged /\ FailOn(request) # "none" =>
    \A i \in DOMAIN findings :
       findings[i].decision = "unknown" => exitCode # Success /\ OverallDecision # "allow"
=============================================================================
