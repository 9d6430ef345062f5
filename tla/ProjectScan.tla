---------------------------- MODULE ProjectScan ----------------------------
(***************************************************************************)
(* The scanning commands of pkg/cli/main.go: scan (a whole project),       *)
(* scan-lockfile, scan-python-deps / scan-go-deps / scan-cargo-deps, the   *)
(* commands for one package (scan-npm-package, scan-pypi-package,          *)
(* scan-local-npm, npm-install), those that look at a project's npm files  *)
(* (tree, verify, inventory-diff), and explain, which finds out first      *)
(* which ecosystem a name belongs to.  One command runs, from its          *)
(* arguments to its exit status, beside the synchronisation of the         *)
(* advisory database it may have started and explain's registry probes.    *)
(*                                                                         *)
(* The verdict of a scanner on one package is any decision or a failure:   *)
(* ScanLifecycle says which.  Lockfiles and package.json are judged here,  *)
(* by DependencyFiles.                                                     *)
(***************************************************************************)
EXTENDS DependencyFiles

CONSTANTS
    Commands,    \* the command lines, with the world they meet; see below
    Known,       \* the advisories of the local database at the start
    Published    \* those a synchronisation adds

(* A command is [op, pol, failOn, offline] and, by op:                     *)
(*   scan           project, [path -> file], and json                      *)
(*   scan-lockfile, scan-deps    project and target, a path of it          *)
(*   package        (nothing more)                                         *)
(*   npm-install    (nothing more)                                         *)
(*   tree, verify   project and target; for tree onlyRisky and depth, for  *)
(*                  verify json                                            *)
(*   inventory-diff base and current, project trees of NpmInventory, and   *)
(*                  top, the tree of the whole repository at the base      *)
(*   explain        prefix, the ecosystem the name states, or None;        *)
(*                  hosts, the registries that have the name;              *)
(*                  cached, the ecosystems with a stored verdict for it;   *)
(*                  terminal, whether there is somebody to ask             *)
CONSTANT None

Ecosystems == {"npm", "pypi"}

ASSUME CommandPoliciesAreValid == \A c \in Commands : SoundPolicy(c.pol)
ASSUME EcosystemsAreKnown ==
    /\ None \notin Ecosystems
    /\ \A c \in Commands : c.op = "explain" =>
          c.cached \subseteq Ecosystems /\ c.prefix \in Ecosystems \cup {None}
\* An advisory is about versions, and a lockfile nests by name.
ASSUME AdvisoriesNameVersions == \A a \in Known : NoVersion \notin a.versions
ASSUME TreesAreNested ==
    \A c \in Commands : c.op = "tree" =>
        /\ c.depth \in Nat
        /\ Readable(c.project[c.target]) /\ c.project[c.target].form = "package-lock" =>
              \A p \in c.project[c.target].lock.packages :
                  p.name \in STRING /\ p.within \in Seq(STRING)
\* What a file is shows in its name.
ASSUME NamesTellKinds ==
    \A c \in Commands : c.op = "inventory-diff" =>
        \A tree, other \in {c.base, c.top, c.current} : OneKind(tree, other)

VARIABLES
    cmd,       \* the command
    pc,        \* "start", "files", "deps", "inventory", "detect", "probing",
               \* "package", "done"
    db,        \* the local advisory database
    syncing,   \* the synchronisation the command started is under way
    todo,      \* the files still to be read, in order
    deps,      \* the dependencies of the head of todo still to be scanned
    summary,   \* its decision so far, in upper case
    rows,      \* the files reported, [file, decision]
    verdicts,  \* everything judged, [subject, decision]
    missed,    \* what was there to be judged and was not
    saved,     \* the dependencies stored in the result cache
    audit,     \* the audit log, [subject, lines]
    probes,    \* [{"npm", "pypi"} -> state of the registry probe]
    heard,     \* the probes whose answer has been received
    timedOut,  \* the 1.5 s timer has fired
    eco,       \* the ecosystem explain settled on
    asked,     \* the user chose it
    installed, \* npm install ran
    exit       \* "none", "ok", "failed", "usage", "error", "panic"

fileVars  == <<todo, deps, summary, rows, missed>>
probeVars == <<probes, heard, timedOut, eco, asked>>
vars == <<cmd, pc, db, syncing, fileVars, verdicts, saved, audit, probeVars, installed, exit>>

\* The order in which a project is read; package.json only without a lockfile.
ProjectFiles == <<"package-lock.json", "package.json", "yarn.lock", "pnpm-lock.yaml",
                  "Cargo.lock", "go.mod", "requirements.txt">>

LockForms == {"package-lock", "yarn", "berry", "pnpm"}

Present(project, path) ==
    /\ path \in DOMAIN project /\ project[path] # Absent
    /\ path = "package.json" =>
          "package-lock.json" \notin DOMAIN project \/ project["package-lock.json"] = Absent

Init ==
    /\ cmd \in Commands
    /\ pc = "start" /\ db = Known /\ syncing = FALSE
    /\ todo = <<>> /\ deps = <<>> /\ summary = "ALLOW" /\ rows = <<>> /\ missed = {}
    /\ verdicts = {} /\ saved = {} /\ audit = <<>>
    /\ probes = [e \in Ecosystems |-> "none"] /\ heard = {}
    /\ timedOut = FALSE /\ eco = None /\ asked = FALSE
    /\ installed = FALSE /\ exit = "none"

-----------------------------------------------------------------------------
(* The exit status.                                                        *)

\* resolveScanFailOn; a project scan fails on a block whatever the mode.
Threshold(c) ==
    IF c.failOn # ""          THEN c.failOn
    ELSE IF c.op = "scan"     THEN "block"
    ELSE IF c.pol.mode = "block" THEN "block" ELSE "none"

ValidFailOn(c) == c.failOn \in {"", "none", "warn", "block"}

Reaches(decision, threshold) ==
    \/ decision = "block" /\ threshold \in {"block", "warn"}
    \/ decision = "warn" /\ threshold = "warn"

ExitIfScanFails(decision, c) ==
    IF ~ValidFailOn(c) THEN "usage"
    ELSE IF Reaches(decision, Threshold(c)) THEN "failed" ELSE "ok"

Rank == [unknown |-> 0, allow |-> 1, warn |-> 2, block |-> 4]

WorstDecision(decisions) ==
    CHOOSE d \in decisions \cup {"allow"} :
        \A other \in decisions \cup {"allow"} : Rank[other] <= Rank[d]

Lower == [ALLOW |-> "allow", WARN |-> "warn", BLOCK |-> "block"]

Summarize_LastCounts(current, decision) ==
    IF decision = "block" THEN "BLOCK" ELSE IF decision = "warn" THEN "WARN" ELSE current

\* aggregateSummaryDecision: in upper case, and what is neither is left out.
Summarize(current, decision) ==
    IF decision = "block" THEN "BLOCK"
    ELSE IF decision = "warn" /\ current # "BLOCK" THEN "WARN"
    ELSE current

Exit(status) == pc' = "done" /\ exit' = status

Verdict(subject, decision) == verdicts' = verdicts \cup {[subject |-> subject, decision |-> decision]}

Log(subject, lines) == audit' = Append(audit, [subject |-> subject, lines |-> lines])

-----------------------------------------------------------------------------
(* Starting a command, and the synchronisation beside it.                  *)

\* Who calls UpdateDBAsync: not scan-python-deps, scan-lockfile, npm-install
\* or explain.
Synchronises(c) ==
    /\ ~c.offline
    /\ \/ c.op \in {"scan", "package"}
       \/ c.op = "scan-deps" /\ c.target \in {"go.mod", "Cargo.lock"}

Begin(c) == IF c.op = "explain" THEN "detect"
            ELSE IF c.op \in {"package", "npm-install"} THEN "package"
            ELSE IF c.op = "inventory-diff" THEN "inventory" ELSE "files"

FilesOf(c) == CASE c.op = "scan" -> SelectSeq(ProjectFiles, LAMBDA f : Present(c.project, f))
                [] c.op \in {"scan-lockfile", "scan-deps", "tree", "verify"} -> <<c.target>>
                [] OTHER -> <<>>

\* The policy is loaded; whether the database is stale depends on its age.
Start ==
    /\ pc = "start"
    /\ syncing' \in IF Synchronises(cmd) THEN BOOLEAN ELSE {FALSE}
    /\ todo' = FilesOf(cmd)
    /\ pc' = Begin(cmd)
    /\ UNCHANGED <<cmd, db, deps, summary, rows, missed, verdicts, saved, audit, probeVars,
                   installed, exit>>

\* The synchronisation replaces the advisories in one transaction, or fails.
\* It ends with the process if the command ends first.
Synchronise ==
    /\ syncing /\ pc # "done"
    /\ syncing' = FALSE
    /\ db' \in {db, db \cup Published}
    /\ UNCHANGED <<cmd, pc, fileVars, verdicts, saved, audit, probeVars, installed, exit>>

-----------------------------------------------------------------------------
(* The files of a project.                                                 *)

AtFile(form) == /\ pc = "files" /\ todo # <<>>
                /\ Readable(cmd.project[Head(todo)])
                /\ cmd.project[Head(todo)].form \in form

\* The database may fail to open, or fail for one name: the name is passed over.
ReadLockfile ==
    /\ AtFile(LockForms) /\ cmd.op \in {"scan", "scan-lockfile"}
    /\ \E pins \in PinChoices(cmd.project[Head(todo)]) :
       \E found \in SUBSET DOMAIN pins :
       \E result \in {AnalyzeLockfile(cmd.project[Head(todo)], pins, found, db, cmd.pol)} :
          /\ rows' = Append(rows, [file |-> Head(todo), decision |-> result.decision])
          /\ Verdict(<<Head(todo)>>, result.decision)
          /\ Log(Head(todo), LockAuditLines(result))
          /\ missed' = missed \cup {<<Head(todo), n>> : n \in DOMAIN pins \ found}
    /\ todo' = Tail(todo)
    /\ UNCHANGED <<cmd, pc, db, syncing, deps, summary, saved, probeVars, installed, exit>>

\* A project with a package.json and no lockfile is scanned as a package.
ReadPackageJSON ==
    /\ AtFile({"package.json"}) /\ cmd.op = "scan"
    /\ \E result \in {ScanLocalPackage(cmd.project[Head(todo)], cmd.pol)} :
          /\ rows' = Append(rows, [file |-> Head(todo), decision |-> result.decision])
          /\ Verdict(<<Head(todo)>>, result.decision)
          /\ saved' = saved \cup {<<Head(todo)>>}
          /\ Log(Head(todo), {[name |-> "project", decision |-> result.decision]})
    /\ todo' = Tail(todo)
    /\ UNCHANGED <<cmd, pc, db, syncing, deps, summary, missed, probeVars, installed, exit>>

\* A project scan passes over a file it cannot read; the other commands fail.
SkipFile ==
    /\ pc = "files" /\ todo # <<>>
    /\ Readable(cmd.project[Head(todo)]) => ~Parses(cmd.project, Head(todo))
    /\ IF cmd.op = "scan"
       THEN /\ missed' = missed \cup {<<Head(todo)>>}
            /\ todo' = Tail(todo)
            /\ UNCHANGED <<pc, exit>>
       ELSE Exit("error") /\ UNCHANGED <<todo, missed>>
    /\ UNCHANGED <<cmd, db, syncing, deps, summary, rows, verdicts, saved, audit, probeVars,
                   installed>>

OpenDependencies ==
    /\ AtFile({"go.mod", "Cargo.lock", "requirements", "pyproject", "poetry",
             "Pipfile", "python-lock"})
    /\ cmd.op \in {"scan", "scan-deps"} /\ Parses(cmd.project, Head(todo))
    /\ deps' = ParseDependencies(cmd.project, Head(todo))
    /\ summary' = "ALLOW"
    /\ pc' = "deps"
    /\ UNCHANGED <<cmd, db, syncing, todo, rows, missed, verdicts, saved, audit, probeVars,
                   installed, exit>>

Subject == <<Head(todo), Head(deps).name, Head(deps).version>>

ScanDependency ==
    /\ pc = "deps" /\ deps # <<>>
    /\ \E decision \in {"allow", "warn", "block"} :
          /\ Verdict(Subject, decision)
          /\ summary' = Summarize(summary, decision)
    /\ saved' = saved \cup {Subject}
    /\ deps' = Tail(deps)
    /\ UNCHANGED <<cmd, pc, db, syncing, todo, rows, missed, audit, probeVars, installed, exit>>

\* A project scan leaves out a dependency whose scan fails; scan-*-deps stop,
\* with the earlier verdicts stored and nothing printed.
DependencyFails ==
    /\ pc = "deps" /\ deps # <<>>
    /\ IF cmd.op = "scan"
       THEN /\ missed' = missed \cup {Subject}
            /\ deps' = Tail(deps)
            /\ UNCHANGED <<pc, exit>>
       ELSE Exit("error") /\ UNCHANGED <<missed, deps>>
    /\ UNCHANGED <<cmd, db, syncing, todo, summary, rows, verdicts, saved, audit, probeVars,
                   installed>>

VerdictsOn(file) == {v \in verdicts : v.subject[1] = file}

\* Only a project scan logs what it found.
CloseDependencies ==
    /\ pc = "deps" /\ deps = <<>>
    /\ rows' = Append(rows, [file |-> Head(todo), decision |-> Lower[summary]])
    /\ IF cmd.op = "scan"
       THEN Log(Head(todo), {[name |-> v.subject[2], decision |-> v.decision] :
                               v \in VerdictsOn(Head(todo))})
       ELSE UNCHANGED audit
    /\ todo' = Tail(todo)
    /\ pc' = "files"
    /\ UNCHANGED <<cmd, db, syncing, deps, summary, missed, verdicts, saved, probeVars,
                   installed, exit>>

\* A project without any file it supports, and a list without dependencies,
\* end well before the threshold is looked at.
Report ==
    /\ pc = "files" /\ todo = <<>>
    /\ Exit(IF \/ cmd.op = "scan" /\ rows = <<>> /\ ~cmd.json
               \/ cmd.op = "scan-deps" /\ verdicts = {}
            THEN "ok"
            ELSE ExitIfScanFails(
                    WorstDecision(IF cmd.op = "scan"
                                  THEN {rows[i].decision : i \in DOMAIN rows}
                                  ELSE {v.decision : v \in verdicts}), cmd))
    /\ UNCHANGED <<cmd, db, syncing, fileVars, verdicts, saved, audit, probeVars, installed>>

-----------------------------------------------------------------------------
(* Looking at a project's npm files.                                       *)

\* tree: a decision for every package of the lockfile, of which the risky ones
\* may be asked for.  Without the database, and where it fails, there are no
\* advisories.
ShowTree ==
    /\ AtFile({"package-lock"}) /\ cmd.op = "tree"
    /\ \E found \in SUBSET {p.name : p \in Visible(cmd.project[Head(todo)].lock)} :
       \E packages \in {Visible(cmd.project[Head(todo)].lock)} :
       \E decision \in {[p \in packages |->
                             NodeDecision(p, cmd.pol, Lookalikes,
                                {a.reason : a \in {b \in db : /\ b.name \in found \cap {p.name}
                                                             /\ p.version \in b.versions}})]} :
          /\ verdicts' = {[subject |-> <<Head(todo)>> \o Chain(p), decision |-> decision[p]] :
                            p \in Shown(packages, decision, cmd.onlyRisky, cmd.depth)}
          /\ missed' = {<<Head(todo), p.name>> : p \in {q \in packages : q.name \notin found}}
    /\ Exit("ok")
    /\ UNCHANGED <<cmd, db, syncing, todo, deps, summary, rows, saved, audit, probeVars, installed>>

\* verify: every package needs a strong hash and an encrypted source, which is
\* no matter with --json.
VerifyLockfile ==
    /\ AtFile({"package-lock"}) /\ cmd.op = "verify"
    /\ \E packages \in {Visible(cmd.project[Head(todo)].lock)} :
          /\ verdicts' = {[subject |-> <<Head(todo)>> \o Chain(p), decision |-> IntegrityStatus(p)] :
                            p \in packages}
          /\ Exit(IF \E p \in packages : IntegrityStatus(p) # "ok" /\ ~cmd.json THEN "error" ELSE "ok")
    /\ UNCHANGED <<cmd, db, syncing, fileVars, saved, audit, probeVars, installed>>

\* inventory-diff: the working tree against a branch.
DiffInventory ==
    /\ pc = "inventory"
    /\ \E base    \in MapsOf(Inventory(FromGit(cmd.base, cmd.top))),
          current \in MapsOf(Inventory(Walked(cmd.current))) :
          verdicts' = DiffInventories(base, current)
    /\ Exit("ok")
    /\ UNCHANGED <<cmd, db, syncing, fileVars, saved, audit, probeVars, installed>>

\* The working tree cannot be read, or git does not know the branch.
DiffFails ==
    /\ pc = "inventory"
    /\ Exit("error")
    /\ UNCHANGED <<cmd, db, syncing, fileVars, verdicts, saved, audit, probeVars, installed>>

-----------------------------------------------------------------------------
(* Which ecosystem a name belongs to.                                      *)

Settled(e) == eco' = e /\ pc' = "package"

\* A prefix of the name decides, then a verdict stored for one ecosystem only,
\* if the cache file can be read; offline it is npm.  Otherwise both registries
\* are asked at once.
Detect ==
    /\ pc = "detect"
    /\ \E readable \in BOOLEAN :
          IF cmd.prefix # None
          THEN Settled(cmd.prefix) /\ UNCHANGED probes
          ELSE IF readable /\ Cardinality(cmd.cached) = 1
          THEN Settled(CHOOSE e \in cmd.cached : TRUE) /\ UNCHANGED probes
          ELSE IF cmd.offline
          THEN Settled("npm") /\ UNCHANGED probes
          ELSE /\ probes' = [e \in Ecosystems |-> "flying"]
               /\ pc' = "probing"
               /\ UNCHANGED eco
    /\ UNCHANGED <<cmd, db, syncing, fileVars, verdicts, saved, audit, heard, timedOut, asked,
                   installed, exit>>

\* To the command a registry that cannot be reached does not have the package.
ProbeAnswers(e) ==
    /\ probes[e] = "flying"
    /\ probes' = [probes EXCEPT ![e] = IF e \in cmd.hosts THEN "found" ELSE "missing"]
    /\ UNCHANGED <<cmd, pc, db, syncing, fileVars, verdicts, saved, audit, heard, timedOut, eco,
                   asked, installed, exit>>

ProbeFails(e) ==
    /\ probes[e] = "flying"
    /\ probes' = [probes EXCEPT ![e] = "failed"]
    /\ UNCHANGED <<cmd, pc, db, syncing, fileVars, verdicts, saved, audit, heard, timedOut, eco,
                   asked, installed, exit>>

Receive(e) ==
    /\ pc = "probing" /\ e \notin heard
    /\ probes[e] \in {"found", "missing", "failed"}
    /\ heard' = heard \cup {e}
    /\ UNCHANGED <<cmd, pc, db, syncing, fileVars, verdicts, saved, audit, probes, timedOut, eco,
                   asked, installed, exit>>

\* The break leaves the select and not the loop around it: waiting goes on.
TimerFires ==
    /\ pc = "probing" /\ ~timedOut
    /\ timedOut' = TRUE
    /\ UNCHANGED <<cmd, pc, db, syncing, fileVars, verdicts, saved, audit, probes, heard, eco,
                   asked, installed, exit>>

Found(e) == e \in heard /\ probes[e] = "found"

Settle_OnTimeout ==
    /\ pc = "probing"
    /\ timedOut \/ heard = Ecosystems
    /\ Settled(IF Found("pypi") /\ ~Found("npm") THEN "pypi" ELSE "npm")
    /\ UNCHANGED <<cmd, db, syncing, fileVars, verdicts, saved, audit, probes, heard, timedOut,
                   asked, installed, exit>>

\* A name both registries have is put to the user, or is npm's.
Settle ==
    /\ pc = "probing" /\ heard = Ecosystems
    /\ IF Found("npm") /\ Found("pypi") /\ cmd.terminal
       THEN asked' = TRUE /\ \E choice \in Ecosystems : Settled(choice)
       ELSE /\ Settled(IF Found("pypi") /\ ~Found("npm") THEN "pypi" ELSE "npm")
            /\ UNCHANGED asked
    /\ UNCHANGED <<cmd, db, syncing, fileVars, verdicts, saved, audit, probes, heard, timedOut,
                   installed, exit>>

-----------------------------------------------------------------------------
(* One package.                                                            *)

AtPackage(ops) == pc = "package" /\ cmd.op \in ops

Package == <<"package">>

\* scan-npm-package, scan-pypi-package and scan-local-npm.
ScanPackage ==
    /\ AtPackage({"package"})
    /\ \E decision \in {"allow", "warn", "block"} :
          Verdict(Package, decision) /\ Exit(ExitIfScanFails(decision, cmd))
    /\ saved' = saved \cup {Package}
    /\ UNCHANGED <<cmd, db, syncing, fileVars, audit, probeVars, installed>>

\* npm-install runs npm for anything but a block, in block mode too, and
\* scans but never installs in audit mode.
NPMInstall ==
    /\ AtPackage({"npm-install"})
    /\ \E decision \in {"allow", "warn", "block"} :
          /\ Verdict(Package, decision)
          /\ installed' = (cmd.pol.mode # "audit" /\ decision # "block")
          /\ \E status \in IF cmd.pol.mode = "audit" THEN {"ok"}
                            ELSE IF decision = "block" THEN {"error"} ELSE {"ok", "error"} :
                Exit(status)
    /\ saved' = saved \cup {Package}
    /\ UNCHANGED <<cmd, db, syncing, fileVars, audit, probeVars>>

\* explain reports and never fails on a decision.
Explain ==
    /\ AtPackage({"explain"})
    /\ \E decision \in {"allow", "warn", "block"} :
          /\ Verdict(Package, decision)
          /\ Log(Package, {[name |-> "package", decision |-> decision]})
    /\ saved' = saved \cup {Package}
    /\ Exit("ok")
    /\ UNCHANGED <<cmd, db, syncing, fileVars, probeVars, installed>>

\* The scan fails.  explain then shows the stored verdict, if there is one.
PackageFails ==
    /\ pc = "package"
    /\ Exit(IF cmd.op = "explain" /\ eco \in cmd.cached THEN "ok" ELSE "error")
    /\ UNCHANGED <<cmd, db, syncing, fileVars, verdicts, saved, audit, probeVars, installed>>

\* explain uses the cache it loaded without a look at the error: a cache file
\* that is damaged, or being rewritten, is a nil pointer.
ExplainPanics ==
    /\ AtPackage({"explain"})
    /\ Exit("panic")
    /\ UNCHANGED <<cmd, db, syncing, fileVars, verdicts, saved, audit, probeVars, installed>>

-----------------------------------------------------------------------------
\* The process has ended.
Done == pc = "done" /\ UNCHANGED vars

Files == \/ ReadLockfile \/ ReadPackageJSON \/ SkipFile
         \/ OpenDependencies \/ ScanDependency \/ DependencyFails \/ CloseDependencies
         \/ Report \/ ShowTree \/ VerifyLockfile \/ DiffInventory \/ DiffFails

Probing == \/ Detect \/ TimerFires \/ Settle
           \/ \E e \in Ecosystems : ProbeAnswers(e) \/ ProbeFails(e) \/ Receive(e)

OnePackage == ScanPackage \/ NPMInstall \/ Explain \/ PackageFails \/ ExplainPanics

Next == Start \/ Synchronise \/ Files \/ Probing \/ OnePackage \/ Done

Spec == Init /\ [][Next]_vars

-----------------------------------------------------------------------------
Gates == {"scan", "scan-lockfile", "scan-deps", "package"}

\* The exit status of a gate command tells the worst of everything it judged,
\* dependency by dependency, through both aggregations, the upper-case one of
\* a file and the lower-case one of the project; and npm-install installs
\* nothing it found to be a block.
ExitMatchesVerdicts ==
    /\ pc = "done" /\ cmd.op \in Gates /\ exit \in {"ok", "failed"} /\ ValidFailOn(cmd) =>
          ((exit = "failed") <=> \E v \in verdicts : Reaches(v.decision, Threshold(cmd)))
    /\ installed => \A v \in verdicts : v.decision # "block"

\* The packages a lockfile installs; plain says that it lists them under their
\* own name and in a key the parser understands.
Installed(file) ==
    IF file.form = "package-lock"
    THEN {[name |-> p.installs, version |-> p.version, plain |-> p.installs = p.name] :
            p \in Visible(file.lock)}
    ELSE IF file.form = "berry" THEN {}
    ELSE {[name |-> e.name, version |-> e.version, plain |-> ~e.suffixed] :
            e \in ToSet(file.entries)}

\* Version v is the only one listed under the name, at any depth.
OnlyVersion(file, name, v) ==
    LET listed == IF file.form = "package-lock" THEN file.lock.packages ELSE ToSet(ParseLock(file))
    IN  \A e \in listed : e.name = name => e.version = v

KnownMalware(name, version) ==
    \E a \in Known : /\ a.reason.id = "known_malware_indicator"
                     /\ a.name = name /\ version \in a.versions

\* Malware the database knew before the command started stops a scan of the
\* lockfile that installs it, and is shown as a block wherever it is nested in
\* the tree, whatever else is synchronised meanwhile.  Unless the look-up
\* failed, the lockfile is one the parser does not understand or nests the
\* package in the first format, or nothing is to fail; or the lockfile puts it
\* under another name (an alias) or in a key with a suffix.  A scan may also
\* miss it if the lockfile lists another version under the name too.
MalwareStopsScan ==
    pc = "done" =>
      /\ cmd.op \in {"scan", "scan-lockfile"} /\ Threshold(cmd) # "none" =>
           \A i \in DOMAIN rows :
              LET file == cmd.project[rows[i].file]
              IN  file.form \in LockForms =>
                    \A e \in Installed(file) :
                       /\ KnownMalware(e.name, e.version) /\ e.plain
                       /\ OnlyVersion(file, e.name, e.version)
                       /\ <<rows[i].file, e.name>> \notin missed
                       => exit \in {"failed", "usage"}
      /\ cmd.op = "tree" /\ exit = "ok" =>
           \A p \in Visible(cmd.project[cmd.target].lock) :
              /\ KnownMalware(p.installs, p.version) /\ p.installs = p.name
              /\ <<cmd.target, p.name>> \notin missed
              /\ Len(p.within) < cmd.depth
              => [subject |-> <<cmd.target>> \o Chain(p), decision |-> "block"] \in verdicts

\* How explain may come to judge a package of ecosystem e although the other
\* registry has the name: the name says so, only a verdict for e is stored, or
\* the other registry could not be asked.
Founded(e, other) ==
    cmd.prefix = e \/ cmd.cached = {e} \/ probes[other] = "failed"

\* explain does not mistake a package for the one of the same name in the other
\* registry: a name npm has is PyPI's only if the user chose so, a name only
\* PyPI has is npm's only off line.  A slow answer is no reason for either.
EcosystemIsNotConfused ==
    /\ eco = "pypi" /\ "npm" \in cmd.hosts => asked \/ Founded("pypi", "npm")
    /\ eco = "npm" /\ cmd.hosts = {"pypi"} => cmd.offline \/ Founded("npm", "pypi")

Reported(file, name) == \E v \in verdicts : v.subject = <<file, name>>

\* The ranges a manifest gives a name, section by section.
Ranges(tree, file, name) ==
    IF file \notin DOMAIN tree.manifests THEN {}
    ELSE {<<s, tree.manifests[file].deps[s][name]>> :
            s \in {t \in ToSet(Sections) : Declares(tree.manifests[file], t, name)}}

\* No lockfile tells two things of one name: two versions of it or, where only
\* the entries at the top count as direct (format 1), one there and one below.
OneEntryEach(tree) ==
    \A f \in DOMAIN tree.locks : \A p, q \in tree.locks[f].packages :
        p.name = q.name => /\ p.version = q.version
                           /\ tree.locks[f].format = 1 => (p.within = <<>> <=> q.within = <<>>)

Unread(tree) == tree.hidden \cup tree.quoted

\* inventory-diff tells what has changed, when called at the root of the
\* repository: nothing between equal trees, though names stand in several
\* sections and files (but for files that only the walk or only git passes
\* over, and a lockfile with two entries of a name, of which either may be
\* kept), and every name whose entry in a package.json comes, goes, moves or
\* gets another range, if it has one entry there and no more.
DiffTellsChanges ==
    pc = "done" /\ cmd.op = "inventory-diff" /\ exit = "ok" /\ cmd.top = cmd.base =>
      /\ cmd.base = cmd.current /\ Unread(cmd.base) = {} /\ OneEntryEach(cmd.base) => verdicts = {}
      /\ \A f \in (DOMAIN cmd.base.manifests \cup DOMAIN cmd.current.manifests)
                   \ (Unread(cmd.base) \cup Unread(cmd.current)) :
           \A n \in NamesIn(Inventory(cmd.base) \cup Inventory(cmd.current), "manifest") :
              LET before == Ranges(cmd.base, f, n)
                  after  == Ranges(cmd.current, f, n)
              IN  /\ before # after /\ Cardinality(before) <= 1 /\ Cardinality(after) <= 1
                  /\ \A t \in {cmd.base, cmd.current} :
                        f \in DOMAIN t.manifests => n \notin t.manifests[f].bundled
                  => Reported(f, n)

=============================================================================
