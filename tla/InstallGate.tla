----------------------------- MODULE InstallGate -----------------------------
(***************************************************************************)
(* One command under install interception (internal/intercept): the        *)
(* command line is parsed, the packages it names are scanned, the gate     *)
(* decides, the attempt is logged, and the real package manager runs or    *)
(* does not.  Meanwhile the registry publishes releases and the project's  *)
(* requirements file is edited, for nothing is locked between the scan and *)
(* the installation.                                                       *)
(*                                                                         *)
(* Releases of a package are numbered.  What a scan of a release concludes *)
(* is a constant; the decision pipeline itself is module RiskDecision.     *)
(***************************************************************************)
EXTENDS RiskDecision

CONSTANTS
    Names,         \* packages
    MaxRelease,    \* bound on the releases a package has
    Verdict,       \* [Names \X 1..MaxRelease -> [decision, reasons]]
    Commands,      \* [manager, form, wants]: what may be typed, see below
    FlagSets,      \* the safety flags and the caller's circumstances
    GatePolicies,  \* the install_interception section of policies
    Paths,         \* what PATH holds: "real", "wrapper" or "none"
    Manifests      \* contents of the requirements file

\* What a command line turns out to be.
\*   "packages"      an installation of named packages
\*   "requirements"  pip install -r
\*   "project"       an npm installation from package.json or the lock file
\*   "advanced"      an installation of a URL, a path or a tarball
\*   "other"         no installation
\*   "malformed"     an installation the parser rejects
Form == {"packages", "requirements", "project", "advanced", "other", "malformed"}

\* What is asked for: "exact" and "caret" name a release, "any" does not.
Want == [name : Names, kind : {"exact", "caret"}, release : 1..MaxRelease]
          \cup [name : Names, kind : {"any"}, release : {0}]

ASSUME CommandsAreParsed ==
    /\ MaxRelease \in Nat \ {0}
    /\ \A c \in Commands : c.form \in Form /\ c.wants \in Seq(Want)
    /\ \A m \in Manifests : m \in Seq(Want)

\* The scanners' results obey theorem SecurityReasonsBlock.
ASSUME VerdictsAreScans ==
    \A k \in Names \X (1..MaxRelease) : LET v == Verdict[k] IN
        /\ v.decision \in {"allow", "warn", "block"}
        /\ v.reasons \cap SecurityBlockRuleIDs # {} => v.decision = "block"

\* policy.Validate, without which no policy file is loaded: a forced
\* installation must be given a reason, and two blocks are always on.
ASSUME GatePoliciesAreValid ==
    \A pol \in GatePolicies :
        /\ pol.allowForce => pol.reasonRequired
        /\ pol.malwareAlways /\ pol.credentialsAlways

Release == 1..MaxRelease

VARIABLES
    published,  \* [Names -> the newest release]
    manifest,   \* the requirements file, a sequence of wants
    pc,         \* where the command is
    job,        \* the command: cmd, flags, pol, path; filesRead and pmWorks say
                \* whether the files it names are in order and whether the package
                \* manager will succeed; guarded whether PKGSAFE_INTERCEPT_ACTIVE is set
    route,      \* how it came to the package manager, if it did
    todo,       \* wants not yet scanned
    results,    \* scan results so far, a sequence
    overall,    \* the aggregated decision
    proceed,    \* what the gate answered
    log,        \* audit entries of this command, a sequence
    ran,        \* whether the real package manager has been started
    installed,  \* the <<name, release>> it installed
    exit        \* exit code, or NoCode

vars == <<published, manifest, pc, job, route, todo, results, overall, proceed,
          log, ran, installed, exit>>
world == <<published, manifest>>
scanVars == <<todo, results, overall>>

NoCode == -1
ExitSuccess == 0
ExitBlocked == 1
ExitDeclined == 2
ExitInstallFailed == 3
ExitUsageError == 4
ExitInternalError == 5
ExitPolicyError == 6
ExitPackageManagerNotFound == 8

-----------------------------------------------------------------------------
\* The scanner is given the specifier without its operators, so that of a range
\* it scans the release the range starts at.
ScannedRelease_Newest(want) == published[want.name]

ScannedRelease(want) ==
    IF want.kind = "any" THEN published[want.name] ELSE want.release

\* The real package manager takes the newest release a want admits.
InstalledRelease(want) ==
    IF want.kind = "exact" THEN want.release ELSE published[want.name]

\* aggregateInterceptDecision
Rank(decision) == IF decision = "block" THEN 2 ELSE IF decision = "warn" THEN 1 ELSE 0

Aggregate_LastWins(current, next) == next

Aggregate(current, next) == IF Rank(next) > Rank(current) THEN next ELSE current

CredentialAccessRules ==
    {"credential_path_reference", "credential_canary_read",
     "credential_canary_exfiltration_attempt", "ssh_key_access",
     "npm_token_access", "env_secret_access", "pypi_setup_py_credential_access"}

\* The reasons under which not even a forced installation proceeds.
NeverForced(pol) ==
    (IF pol.malwareAlways THEN {"known_malware_indicator"} ELSE {})
      \cup (IF pol.credentialsAlways THEN CredentialAccessRules ELSE {})

ForceAccepted_AnyReason(flags, pol, res) ==
    /\ pol.allowForce
    /\ pol.reasonRequired => flags.reason

ForceAccepted(flags, pol, res) ==
    /\ pol.allowForce
    /\ pol.reasonRequired => flags.reason
    /\ \A i \in DOMAIN res :
          res[i].decision = "block" => res[i].reasons \cap NeverForced(pol) = {}

WarnGate_AgreementFirst(flags, pol, answer) ==
    IF flags.force \/ (flags.yes /\ pol.allowYes) THEN [ok |-> TRUE, code |-> ExitSuccess]
    ELSE IF flags.agent THEN [ok |-> FALSE, code |-> ExitBlocked]
    ELSE [ok |-> flags.tty /\ (pol.confirm => answer), code |-> ExitDeclined]

\* The gate on warnings: [ok, code].  "answer" is what the user replies, or
\* fails to, if asked.
WarnGate(flags, pol, answer) ==
    IF flags.force THEN [ok |-> TRUE, code |-> ExitSuccess]
    ELSE IF flags.agent THEN [ok |-> FALSE, code |-> ExitBlocked]
    ELSE IF flags.yes
         THEN [ok |-> pol.allowYes, code |-> IF pol.allowYes THEN ExitSuccess ELSE ExitDeclined]
    ELSE IF ~flags.tty \/ (pol.confirm /\ ~answer)
         THEN [ok |-> FALSE, code |-> ExitDeclined]
    ELSE [ok |-> TRUE, code |-> ExitSuccess]

CanProceed(res, decision, flags, pol, answer) ==
    IF decision = "block"
    THEN IF flags.force /\ ForceAccepted(flags, pol, res)
         THEN [ok |-> TRUE, code |-> ExitSuccess]
         ELSE [ok |-> FALSE, code |-> ExitBlocked]
    ELSE IF decision = "warn" THEN WarnGate(flags, pol, answer)
    ELSE [ok |-> TRUE, code |-> ExitSuccess]

-----------------------------------------------------------------------------
Init ==
    /\ published = [n \in Names |-> 1]
    /\ manifest \in Manifests
    /\ pc = "enter"
    /\ job \in [cmd : Commands, flags : FlagSets, pol : GatePolicies, path : Paths,
                filesRead : BOOLEAN, pmWorks : BOOLEAN, guarded : {FALSE}]
    /\ route = "none"
    /\ todo = <<>> /\ results = <<>> /\ overall = "allow"
    /\ proceed = [ok |-> FALSE, code |-> ExitBlocked]
    /\ log = <<>>
    /\ ran = FALSE /\ installed = {}
    /\ exit = NoCode

(* The world around the command. *)

Publish ==
    /\ \E n \in Names : /\ published[n] < MaxRelease
                        /\ published' = [published EXCEPT ![n] = @ + 1]
    /\ UNCHANGED <<manifest, pc, job, route, scanVars, proceed, log, ran, installed, exit>>

EditManifest ==
    /\ manifest' \in Manifests \ {manifest}
    /\ UNCHANGED <<published, pc, job, route, scanVars, proceed, log, ran, installed, exit>>

-----------------------------------------------------------------------------
(* RunIntercept. *)

End(code) ==
    /\ pc' = "done" /\ exit' = code
    /\ UNCHANGED <<world, job, route, scanVars, proceed, log, ran, installed>>

\* Hand the command over to the real package manager.
Delegate(how) ==
    /\ pc' = "resolve" /\ route' = how
    /\ UNCHANGED <<world, job, scanVars, proceed, log, ran, installed, exit>>

\* A nested PkgSafe does not look at the command.
EnterGuarded ==
    /\ pc = "enter" /\ job.guarded
    /\ Delegate(route)

\* policy.ResolvePolicy fails.
PolicyFails ==
    /\ pc = "enter" /\ ~job.guarded
    /\ End(ExitPolicyError)

Bypass ==
    /\ pc = "enter" /\ ~job.guarded /\ ~job.pol.enabled
    /\ Delegate("bypass")

Parsing(forms) == pc = "enter" /\ ~job.guarded /\ job.pol.enabled /\ job.cmd.form \in forms

ParseUnsupported ==
    /\ Parsing({"advanced", "other"})
    /\ Delegate("pass")

ParseFails ==
    /\ Parsing({"malformed"})
    /\ End(ExitUsageError)

\* Validate, first half: the packages to scan.  Every dependency file is given
\* to the Python parser, which knows neither package.json nor the lock file, so
\* that npm's project installations end here.
CollectFails ==
    /\ Parsing({"project", "requirements"})
    /\ job.cmd.form = "requirements" => ~job.filesRead
    /\ End(ExitUsageError)

Collect ==
    /\ Parsing({"packages", "requirements"})
    /\ job.cmd.form = "requirements" => job.filesRead
    /\ todo' = IF job.cmd.form = "packages" THEN job.cmd.wants ELSE manifest
    /\ pc' = "validate"
    /\ UNCHANGED <<world, job, route, results, overall, proceed, log, ran, installed, exit>>

\* Validate, second half: one package at a time.
Scanned(result) ==
    /\ results' = Append(results, result)
    /\ overall' = Aggregate(overall, result.decision)
    /\ todo' = Tail(todo)
    /\ UNCHANGED <<world, pc, job, route, proceed, log, ran, installed, exit>>

\* A package on the block list is blocked without a scan.
ScanListed ==
    /\ pc = "validate" /\ todo # <<>> /\ Head(todo).name \in job.pol.blocked
    /\ Scanned([name |-> Head(todo).name, release |-> Head(todo).release, scanned |-> FALSE,
                decision |-> "block", reasons |-> {"blocked_package"}])

ScanPackage ==
    /\ pc = "validate" /\ todo # <<>> /\ Head(todo).name \notin job.pol.blocked
    /\ LET name    == Head(todo).name
           release == ScannedRelease(Head(todo))
       IN  Scanned([name |-> name, release |-> release, scanned |-> TRUE,
                    decision |-> Verdict[<<name, release>>].decision,
                    reasons |-> Verdict[<<name, release>>].reasons])

\* One failed scan ends the command, whatever the others said; none is logged.
ScanFails ==
    /\ pc = "validate" /\ todo # <<>> /\ Head(todo).name \notin job.pol.blocked
    /\ End(ExitInternalError)

Gate ==
    /\ pc = "validate" /\ todo = <<>>
    /\ \E answer \in BOOLEAN :
          proceed' = CanProceed(results, overall, job.flags, job.pol, answer)
    /\ pc' = "log"
    /\ UNCHANGED <<world, job, route, scanVars, log, ran, installed, exit>>

Entry_BeforeTheFact == [executed |-> ran, override |-> job.flags.force /\ proceed.ok]

\* The audit entry is written before the package manager runs.
Entry == [executed |-> proceed.ok /\ ~job.flags.dryRun,
          override |-> job.flags.force /\ proceed.ok]

\* LogAudit's error is dropped.
LogAudit ==
    /\ pc = "log"
    /\ \E writable \in BOOLEAN :
          log' = IF writable /\ job.pol.auditLog THEN Append(log, Entry) ELSE log
    /\ pc' = "output"
    /\ UNCHANGED <<world, job, route, scanVars, proceed, ran, installed, exit>>

\* Standard output cannot be written: the JSON report fails.
OutputFails ==
    /\ pc = "output" /\ job.flags.json
    /\ End(ExitInternalError)

Refuse_Quietly ==
    /\ pc = "output" /\ ~proceed.ok
    /\ End(ExitSuccess)

Refuse ==
    /\ pc = "output" /\ ~proceed.ok
    /\ End(proceed.code)

EndDryRun ==
    /\ pc = "output" /\ proceed.ok /\ job.flags.dryRun
    /\ End(ExitSuccess)

Proceed_DryRunToo ==
    /\ pc = "output" /\ proceed.ok
    /\ Delegate("screened")

Proceed ==
    /\ pc = "output" /\ proceed.ok /\ ~job.flags.dryRun
    /\ Delegate("screened")

-----------------------------------------------------------------------------
(* delegate: Resolve and Execute.  A nested PkgSafe uses the default policy, *)
(* which configures no binary.                                               *)

RealBinary == IF job.guarded THEN "unset" ELSE job.pol.realBinary

ResolveFails_Configured ==
    /\ pc = "resolve" /\ RealBinary = "missing"
    /\ End(ExitPackageManagerNotFound)

ResolveFails ==
    /\ pc = "resolve"
    /\ \/ RealBinary = "missing"
       \/ RealBinary = "unset" /\ job.path = "none"
    /\ End(ExitPackageManagerNotFound)

\* Nothing on PATH but wrappers of PkgSafe itself: LookPathReal skips them, and
\* falls back to exec.LookPath, which finds the first of them.
ExecuteWrapper ==
    /\ pc = "resolve" /\ RealBinary = "unset" /\ job.path = "wrapper"
    /\ job' = [job EXCEPT !.guarded = TRUE]
    /\ pc' = "enter"
    /\ UNCHANGED <<world, route, scanVars, proceed, log, ran, installed, exit>>

Resolved ==
    /\ pc = "resolve"
    /\ \/ RealBinary = "file"
       \/ RealBinary = "unset" /\ job.path = "real"

\* What the command line asks for now.
Wanted ==
    CASE job.cmd.form \in {"packages", "advanced"}    -> job.cmd.wants
      [] job.cmd.form \in {"requirements", "project"} -> manifest
      [] job.cmd.form \in {"other", "malformed"}      -> <<>>

\* A screened "python -m pip install ..." is handed to python without "-m pip",
\* unless a pip binary is configured.
LostModule ==
    job.cmd.manager = "python-pip" /\ route = "screened" /\ RealBinary = "unset"

Start(code, got) ==
    /\ ran' = TRUE
    /\ installed' = {<<want.name, InstalledRelease(want)>> : want \in got}
    /\ pc' = "done" /\ exit' = code
    /\ UNCHANGED <<world, job, route, scanVars, proceed, log>>

Execute ==
    /\ Resolved /\ job.pmWorks /\ ~LostModule
    /\ Start(ExitSuccess, Range(Wanted))

\* The package manager cannot be started, or fails with a code of its own.
ExecuteFails ==
    /\ Resolved /\ (~job.pmWorks \/ LostModule)
    /\ \E code \in {1, 2, ExitInstallFailed} : Start(code, {})

\* The process is killed.
Crash ==
    /\ pc # "done"
    /\ End(NoCode)

-----------------------------------------------------------------------------
Validate == CollectFails \/ Collect \/ ScanListed \/ ScanPackage \/ ScanFails

Program ==
    \/ EnterGuarded \/ PolicyFails \/ Bypass \/ ParseUnsupported \/ ParseFails
    \/ Validate \/ Gate \/ LogAudit \/ OutputFails \/ Refuse \/ EndDryRun \/ Proceed
    \/ ResolveFails \/ ExecuteWrapper \/ Execute \/ ExecuteFails

Next == Publish \/ EditManifest \/ Program \/ Crash

Spec == Init /\ [][Next]_vars

\* The program takes its steps, a user who is asked answers, and the package
\* manager that is started returns.
FairSpec == Spec /\ WF_vars(Program)

-----------------------------------------------------------------------------
\* The type invariant.
TypeOK ==
    /\ published \in [Names -> Release] /\ manifest \in Manifests
    /\ pc \in {"enter", "validate", "log", "output", "resolve", "done"}
    /\ job.cmd \in Commands /\ job.flags \in FlagSets /\ job.pol \in GatePolicies
    /\ job.cmd.form \in Form /\ job.guarded \in BOOLEAN
    /\ route \in {"none", "bypass", "pass", "screened"}
    /\ overall \in {"allow", "warn", "block"}
    /\ Len(log) <= 1 /\ (ran => pc = "done")
    /\ exit \in NoCode..ExitPackageManagerNotFound

\* The real package manager was started for a command the gate looked at.
Screened == ran /\ route = "screened"

Worst(decision) ==
    /\ \E i \in DOMAIN results : results[i].decision = decision
    /\ \A i \in DOMAIN results : Rank(results[i].decision) <= Rank(decision)

\* Every package of a command counts: one blocked package among others stops
\* it unless that risk is accepted with a reason, one warning stops an agent
\* without an override and an unattended command without an agreement.
EveryRiskIsAccepted ==
    Screened =>
        /\ Worst("block") => job.flags.force /\ job.flags.reason /\ job.pol.allowForce
        /\ Worst("warn") /\ job.flags.agent => job.flags.force
        /\ Worst("warn") /\ ~job.flags.tty  =>
              job.flags.force \/ (job.flags.yes /\ job.pol.allowYes)

\* No override reaches a release whose scan found what the policy never lets
\* through (enforcement.go: "Block malware bypass and credential access bypass").
NeverForcedHolds ==
    Screened => \A i \in DOMAIN results :
                    results[i].scanned => results[i].reasons \cap NeverForced(job.pol) = {}

\* Of a package given by its exact release, what is installed is what was
\* scanned, whatever is published in the meantime.
PinnedIsScanned ==
    Screened /\ job.cmd.form = "packages" =>
        \A i \in DOMAIN job.cmd.wants :
            LET want == job.cmd.wants[i]
            IN  want.kind = "exact" /\ want.name \notin job.pol.blocked
                  => \E j \in DOMAIN results :
                        /\ results[j].scanned
                        /\ results[j].name = want.name /\ results[j].release = want.release

\* The audit log, if it has an entry, never denies what happened: a command it
\* calls not executed never reaches the package manager, and an accepted risk
\* is marked as one.
LogIsHonest ==
    Screened => \A i \in DOMAIN log :
                    log[i].executed /\ (job.flags.force => log[i].override)

\* A dry run does not log an execution, and starts no package manager for a command
\* interception applies to.  It does for one it is switched off for and for one it
\* passes through: --dry-run is taken out of the arguments first, and these two
\* ways never look at it (run.go RunIntercept).
DryRunIsDry ==
    /\ job.flags.dryRun /\ ran => ~job.pol.enabled \/ job.cmd.form \in {"advanced", "other"}
    /\ job.flags.dryRun => \A i \in DOMAIN log : ~log[i].executed

\* Exit code 0 of an installation that was screened means what it says.
SuccessIsReal ==
    exit = ExitSuccess /\ job.pol.enabled /\ job.cmd.form = "packages" =>
        \/ job.flags.dryRun /\ ~ran
        \/ \A i \in DOMAIN job.cmd.wants :
              \E release \in Release : <<job.cmd.wants[i].name, release>> \in installed

\* The command as the contract sees it.  A nested PkgSafe only hands it on.
Stage ==
    IF pc = "done" THEN "over"
    ELSE IF pc = "resolve" \/ job.guarded THEN "through"
    ELSE IF pc \in {"log", "output"} THEN (IF proceed.ok THEN "accepted" ELSE "refused")
    ELSE "open"

Contract ==
    INSTANCE InstallContract
    WITH Asks    <- [flags : FlagSets, rules : GatePolicies, form : Form],
         ask     <- [flags |-> job.flags, rules |-> job.pol, form |-> job.cmd.form],
         stage   <- Stage,
         risk    <- overall,
         started <- ran

\* Every behaviour of the gate keeps the promises of interception: nothing a
\* command does, and nothing done to the registry or the requirements file
\* meanwhile, starts a package manager the contract would not have started.
KeepsContract == Contract!Spec

\* Every command comes to an end, unless the first program of the package
\* manager's name on PATH is PkgSafe's own wrapper (getRealBinary).
CommandEnds == job.path # "wrapper" => <>(pc = "done")

=============================================================================
