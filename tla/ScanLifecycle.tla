---------------------------- MODULE ScanLifecycle ----------------------------
(***************************************************************************)
(* What happens to a verdict over time.  Several PkgSafe processes share   *)
(* one result cache (internal/cache, a JSON file rewritten as a whole) and *)
(* one advisory database, while policies are edited, advisories are        *)
(* published and synchronised, and processes die.  A process takes one     *)
(* request at a time: it obtains a result for it (the npm, PyPI, Go and    *)
(* Cargo scanners, the interceptor's block-list shortcut, the CI scan of a *)
(* direct URL) and then saves the result, Load - Put - Save, without a     *)
(* lock.                                                                   *)
(***************************************************************************)
EXTENDS RiskDecision

CONSTANTS
    Procs,             \* processes sharing the home directory
    Names,             \* package names
    Versions,          \* version strings, NoVersion not among them
    Ecosystem,         \* [Names -> {"npm", "pypi", "go", "cargo"}]
    Latest,            \* [Names -> Versions]: what "no version" resolves to
    StaticFindings,    \* [Artifacts -> set of reasons]: artifact analysis
    BehaviorFindings,  \* [Artifacts -> set of reasons]: sandbox runs
    Declared,          \* [Artifacts -> Artifacts]: whose it says it is
    Advisories,        \* [name, versions, reason, ranged]: what OSV may come to
                       \* know, as ranges or only as a list of versions
    Policies,          \* valid policies, with registryOf in [Names -> registry]
    MaxRequests,       \* bound on the requests taken
    NoEntry            \* the cache holds nothing under a key

\* An artifact, by the name and the version it is downloaded under.
Artifacts == Names \X Versions

ASSUME NoVersionIsNoVersion == NoVersion \notin Versions
ASSUME VersionsResolve == Latest \in [Names -> Versions]
ASSUME DeclaredIsOfItsKind ==
    \A a \in Artifacts : Declared[a] \in Artifacts /\ Ecosystem[Declared[a][1]] = Ecosystem[a[1]]
ASSUME PoliciesAreValid == \A pol \in Policies : SoundPolicy(pol)

Keys == Names \X (Versions \cup {NoVersion})

VARIABLES
    policy,    \* the policy configuration in force
    osv,       \* the advisories OSV has published
    db,        \* the advisories in the local database
    file,      \* the cache file: "ok", "empty" (truncated) or "garbled"
    store,     \* what an "ok" cache file holds, [Keys -> entry or NoEntry]
    pc,        \* [Procs -> step of the request]
    req,       \* [Procs -> the request: name, version, offline, policy]
    out,       \* [Procs -> the result obtained for the request, an entry]
    snap,      \* [Procs -> the store a save has loaded]
    requests   \* requests taken so far

vars == <<policy, osv, db, file, store, pc, req, out, snap, requests>>
envVars == <<policy, osv, db>>
fileVars == <<file, store>>

-----------------------------------------------------------------------------
\* An entry is a result; "analysed" holds the artifact to whose analysis the
\* result goes back, if to any (it is no field of the code).
Entry(result, analysed) == [result |-> result, analysed |-> analysed]

\* The identity a result carries.  That of a scanned npm artifact is the one its
\* package.json states, that of a PyPI artifact the one of the registry's metadata:
\* neither need be the one it was asked for by.
Pkg(name, version) == [eco |-> Ecosystem[name], name |-> name, version |-> version]

\* cache.Store.Get: the exact version, else the entry without a version.
Get(name, version) ==
    IF store[<<name, version>>] # NoEntry \/ version = NoVersion
    THEN store[<<name, version>>]
    ELSE store[<<name, NoVersion>>]

\* Advisories that affect a version.  No advisory affects the empty version.
Affecting(known, name, version) ==
    {a.reason : a \in {b \in known : b.name = name /\ version \in b.versions}}

Unavailable == Reason("vulnerability_data_unavailable", "")

\* A stored advisory keeps no list of versions: without ranges it matches none.
InDatabase(name, version) == Affecting({a \in db : a.ranged}, name, version)

\* The registry a request is resolved from: by the name that is asked for.
RegistryOf(request) == request.pol.registryOf[request.name]

\* The controls applied to the result of a request.
ControlFor(request, result) ==
    ApplyPolicyControls(result, request.pol, RegistryOf(request), "human", "developer")

\* The last two steps of every scan.
Judge(request, pkg, findings, repeats) ==
    ControlFor(request, EvaluateRepeated(pkg, findings, repeats, request.pol))

\* A disabled registry, or a private name that resolves to a public registry,
\* is an error before anything is scanned.
RegistryRefuses(pol, name) ==
    LET reg == pol.registryOf[name]
    IN  \/ ~reg.enabled /\ reg.type # "unknown"
        \/ /\ Ecosystem[name] \in {"npm", "pypi"}
           /\ reg.type = "public" /\ name \in reg.claims

Init ==
    /\ policy \in Policies
    /\ osv = {} /\ db = {}
    /\ file = "ok" /\ store = [k \in Keys |-> NoEntry]
    /\ pc = [p \in Procs |-> "idle"]
    /\ req = [p \in Procs |-> NoEntry]
    /\ out = [p \in Procs |-> NoEntry]
    /\ snap = [p \in Procs |-> NoEntry]
    /\ requests = 0

-----------------------------------------------------------------------------
(* The environment of the processes.                                       *)

EditPolicy ==
    /\ policy' \in Policies \ {policy}
    /\ UNCHANGED <<osv, db, fileVars, pc, req, out, snap, requests>>

\* OSV publishes an advisory, in one of its forms.
Publish ==
    /\ \E a \in {b \in Advisories : b.reason \notin {c.reason : c \in osv}} :
          osv' = osv \cup {a}
    /\ UNCHANGED <<policy, db, fileVars, pc, req, out, snap, requests>>

\* pkgsafe update-db, also started in the background by every online scan.
UpdateDB ==
    /\ ~(osv \subseteq db)
    /\ db' = db \cup osv
    /\ UNCHANGED <<policy, osv, fileVars, pc, req, out, snap, requests>>

-----------------------------------------------------------------------------
(* One request.                                                            *)

\* The command line is read and the policy is loaded, once for the request.
Start(p) ==
    /\ pc[p] = "idle" /\ requests < MaxRequests
    /\ \E name \in Names, version \in Versions \cup {NoVersion}, offline \in BOOLEAN :
          req' = [req EXCEPT ![p] = [name |-> name, version |-> version,
                                     offline |-> offline, pol |-> policy]]
    /\ pc' = [pc EXCEPT ![p] = "scan"]
    /\ requests' = requests + 1
    /\ UNCHANGED <<envVars, fileVars, out, snap>>

\* The request ends with a result, which the caller saves next.
Obtain(p, entry) ==
    /\ out' = [out EXCEPT ![p] = entry]
    /\ pc' = [pc EXCEPT ![p] = "save"]
    /\ UNCHANGED <<policy, osv, fileVars, req, snap, requests>>

\* The request is over and its process forgets it.
Finish(p) ==
    /\ pc' = [pc EXCEPT ![p] = "idle"]
    /\ req' = [req EXCEPT ![p] = NoEntry]
    /\ out' = [out EXCEPT ![p] = NoEntry]
    /\ snap' = [snap EXCEPT ![p] = NoEntry]
    /\ UNCHANGED <<envVars, requests>>

\* The request ends with an error; nothing is saved.
Fail(p) == Finish(p) /\ UNCHANGED fileVars

Scanning(p, ecosystems) ==
    /\ pc[p] = "scan"
    /\ Ecosystem[req[p].name] \in ecosystems
    /\ ~RegistryRefuses(req[p].pol, req[p].name)

\* The scan is refused, or the registry or the download fails.
ScanFails(p) ==
    /\ pc[p] = "scan"
    /\ RegistryRefuses(req[p].pol, req[p].name) \/ ~req[p].offline
    /\ Fail(p)

\* Behavior analysis is skipped when the analysis before it already blocks:
\* npm decides that on the artifact alone, PyPI on artifact and advisories.
BehaviorSkipped(a, pkg, vulns, pol) ==
    Evaluate(pkg, IF pkg.eco = "npm" THEN StaticFindings[a]
                  ELSE StripPolicyGeneratedReasons(StaticFindings[a]) \cup vulns,
             pol).decision = "block"

\* What behavior analysis adds: nothing when it is disabled or unavailable.
Observed(a, pkg, vulns, pol) ==
    IF BehaviorSkipped(a, pkg, vulns, pol) THEN {{}} ELSE {{}, BehaviorFindings[a]}

\* The OSV query of an online scan.  An answer is stored if the database can
\* be opened; a failed query becomes a finding of its own.
QueryOSV(name, version, answered, dbOpens) ==
    db' = IF answered /\ dbOpens
          THEN db \cup {a \in osv : a.name = name /\ version \in a.versions}
          ELSE db

OSVFindings(name, version, answered) ==
    IF answered THEN Affecting(osv, name, version) ELSE {Unavailable}

\* npm and PyPI, online: the artifact of the resolved version is analysed.  From
\* then on its identity is the one it declares, in the query of OSV and in the
\* result.  What two scripts of it do in the sandbox is reported twice.
ScanOnline(p) ==
    /\ Scanning(p, {"npm", "pypi"}) /\ ~req[p].offline
    /\ \E answered \in BOOLEAN, dbOpens \in BOOLEAN :
          LET name    == req[p].name
              version == IF req[p].version = NoVersion THEN Latest[name] ELSE req[p].version
              a       == <<name, version>>
              pkg     == Pkg(Declared[a][1], Declared[a][2])
              vulns   == OSVFindings(pkg.name, pkg.version, answered)
          IN  /\ QueryOSV(pkg.name, pkg.version, answered, dbOpens)
              /\ \E behavior \in Observed(a, pkg, vulns, req[p].pol) :
                 \E repeats \in SUBSET behavior :
                    Obtain(p, Entry(Judge(req[p], pkg,
                                          StripPolicyGeneratedReasons(StaticFindings[a]
                                                                        \cup behavior)
                                            \cup vulns,
                                          repeats), {a}))

ScanOffline_AsStored(p) ==
    /\ Scanning(p, {"npm", "pypi"}) /\ req[p].offline
    /\ file = "ok" /\ Get(req[p].name, req[p].version) # NoEntry
    /\ Obtain(p, Get(req[p].name, req[p].version))
    /\ UNCHANGED db

\* npm and PyPI, offline: the stored result, judged again under the current
\* policy and the local database.  Without the database only the controls are
\* applied again.
ScanOffline(p) ==
    /\ Scanning(p, {"npm", "pypi"}) /\ req[p].offline
    /\ file = "ok" /\ Get(req[p].name, req[p].version) # NoEntry
    /\ \E dbOpens \in BOOLEAN :
          LET hit    == Get(req[p].name, req[p].version)
              old    == hit.result
              result ==
                  IF dbOpens
                  THEN Judge(req[p], old.pkg,
                             StripPolicyGeneratedReasons(old.reasons)
                               \cup InDatabase(old.pkg.name, old.pkg.version), {})
                  ELSE ControlFor(req[p], old)
          IN  Obtain(p, Entry(result, hit.analysed))
    /\ UNCHANGED db

\* npm and PyPI, offline, nothing stored or the cache file unreadable.
ScanOfflineMiss(p) ==
    /\ Scanning(p, {"npm", "pypi"}) /\ req[p].offline
    /\ file # "ok" \/ Get(req[p].name, req[p].version) = NoEntry
    /\ Fail(p)

\* Go and Cargo ask the cache first, on line or off, and return what it holds.
CacheHit(p) ==
    /\ Scanning(p, {"go", "cargo"})
    /\ file = "ok" /\ Get(req[p].name, req[p].version) # NoEntry
    /\ Obtain(p, Get(req[p].name, req[p].version))
    /\ UNCHANGED db

CacheMiss(p) ==
    /\ Scanning(p, {"go", "cargo"})
    /\ file # "ok" \/ Get(req[p].name, req[p].version) = NoEntry

\* Go and Cargo, online: the analysis is left out if it fails.  No caller sets
\* the database path, so OSV's answer is not stored.
ScanModuleOnline(p) ==
    /\ CacheMiss(p) /\ ~req[p].offline /\ req[p].version # NoVersion
    /\ \E answered \in BOOLEAN, analysed \in BOOLEAN :
          LET pkg    == Pkg(req[p].name, req[p].version)
              from   == IF analysed THEN {<<pkg.name, pkg.version>>} ELSE {}
              static == UNION {StaticFindings[a] : a \in from}
          IN  Obtain(p, Entry(Judge(req[p], pkg,
                                    static \cup OSVFindings(pkg.name, pkg.version, answered),
                                    {}), from))
    /\ UNCHANGED db

\* Go and Cargo, offline, nothing stored: no findings at all are evaluated,
\* for want of a database path.
ScanModuleOffline(p) ==
    /\ CacheMiss(p) /\ req[p].offline
    /\ Obtain(p, Entry(Judge(req[p], Pkg(req[p].name, req[p].version), {}, {}), {}))
    /\ UNCHANGED db

\* The interceptor does not scan a package on the block list: it saves a stub
\* under the version specifier it was given.
InterceptListed(p) ==
    /\ pc[p] = "scan"
    /\ Listed(req[p].pol.blockedPackages, Pkg(req[p].name, req[p].version))
    /\ Obtain(p, Entry([pkg |-> Pkg(req[p].name, req[p].version), score |-> 100,
                        decision |-> "block",
                        reasons |-> {Reason("blocked_package", "stub")}], {}))
    /\ UNCHANGED db

\* The CI scan does not scan a PyPI dependency given as a URL, and saves that.
CIDirectURL(p) ==
    /\ pc[p] = "scan" /\ Ecosystem[req[p].name] = "pypi"
    /\ Obtain(p, Entry([pkg |-> Pkg(req[p].name, req[p].version), score |-> 0,
                        decision |-> "unknown",
                        reasons |-> {Reason("direct_url_dependency_not_scanned", "url")}], {}))
    /\ UNCHANGED db

-----------------------------------------------------------------------------
(* saveResult: cache.Load, Put, Save.  Its error is dropped by the callers. *)

SaveLoad_StartsOver(p) ==
    /\ pc[p] = "save"
    /\ snap' = [snap EXCEPT ![p] = IF file = "ok" THEN store ELSE [k \in Keys |-> NoEntry]]
    /\ pc' = [pc EXCEPT ![p] = "write"]
    /\ UNCHANGED <<envVars, fileVars, req, out, requests>>

SaveLoad(p) ==
    /\ pc[p] = "save"
    /\ file = "ok"
    /\ snap' = [snap EXCEPT ![p] = store]
    /\ pc' = [pc EXCEPT ![p] = "write"]
    /\ UNCHANGED <<envVars, fileVars, req, out, requests>>

\* An unreadable file is an error too: the result is not saved.
SaveRefused(p) ==
    /\ pc[p] = "save" /\ file # "ok"
    /\ Fail(p)

\* os.WriteFile truncates the file, then writes it.
SaveTruncate(p) ==
    /\ pc[p] = "write"
    /\ file' = "empty"
    /\ pc' = [pc EXCEPT ![p] = "fill"]
    /\ UNCHANGED <<envVars, store, req, out, snap, requests>>

\* Put sets the result's own key in the loaded store.  If another process has
\* filled the file since the truncation, the longer text shows through.
SaveWrite(p) ==
    LET result == out[p].result
    IN  /\ pc[p] = "fill"
        /\ file' \in IF file = "empty" THEN {"ok"} ELSE {"ok", "garbled"}
        /\ store' = [snap[p] EXCEPT ![<<result.pkg.name, result.pkg.version>>] = out[p]]
        /\ Finish(p)

\* A process is killed; in the middle of a write it leaves a part of it.
Crash(p) ==
    /\ pc[p] # "idle"
    /\ file' \in IF pc[p] = "fill" THEN {file, "garbled"} ELSE {file}
    /\ UNCHANGED store
    /\ Finish(p)

-----------------------------------------------------------------------------
Scan(p) ==
    \/ ScanFails(p) \/ ScanOnline(p) \/ ScanOffline(p) \/ ScanOfflineMiss(p)
    \/ CacheHit(p) \/ ScanModuleOnline(p) \/ ScanModuleOffline(p)
    \/ InterceptListed(p) \/ CIDirectURL(p)

Save(p) == SaveLoad(p) \/ SaveRefused(p) \/ SaveTruncate(p) \/ SaveWrite(p)

Process(p) == Start(p) \/ Scan(p) \/ Save(p) \/ Crash(p)

Next == EditPolicy \/ Publish \/ UpdateDB \/ \E p \in Procs : Process(p)

Spec == Init /\ [][Next]_vars

-----------------------------------------------------------------------------
\* Every entry some process or the file holds.
Held ==
    ({store[k] : k \in Keys} \cup {out[p] : p \in Procs}
       \cup UNION {{snap[p][k] : k \in Keys} : p \in {q \in Procs : pc[q] \in {"write", "fill"}}})
    \ {NoEntry}

SecurityReasons(e) == {r \in e.result.reasons : r.id \in SecurityBlockRuleIDs}

\* No result that names a security reason is ever anything but a block, however
\* often it is stored, lost, reloaded and judged under another policy
\* (security-enforcement.md: a security_block cannot be downgraded).
SecurityNeverClean == \A e \in Held : SecurityReasons(e) # {} => e.result.decision = "block"

\* Security findings every valid policy keeps and no scanner strips.
Lasting == RequiredSecurityBlockRuleIDs \ StrippedRuleIDs

\* A result that goes back to the analysis of an artifact blocks whatever that
\* analysis finds lasting, under whatever name the artifact was asked for, gave
\* itself and was stored: offline rescans under any sequence of valid policies,
\* lost updates and damaged files never launder it.  (That the cache answers a
\* request with the result of its own artifact is not claimed: an artifact that
\* names itself as another package takes that package's place.)
FindingNeverLaundered ==
    \A e \in Held :
        (\E a \in e.analysed : \E f \in StaticFindings[a] : f.id \in Lasting)
        => e.result.decision = "block"

RuleBlocks(p) == BlockedByRule(req[p].pol, out[p].result.pkg, RegistryOf(req[p]))

Excused(entry) == \E r \in entry.result.reasons : r.id = "active_exception"

\* npm and PyPI judge a cached result again before they return it: a blocked-
\* package rule of the policy a scan was started under, matching the package the
\* result names, decides that result, even when it is an old one from the cache or
\* a stub that never was a scan.  (Go and Cargo do not judge again.)
CachedVerdictIsRejudged ==
    \A p \in Procs :
        pc[p] = "save" /\ Ecosystem[req[p].name] \in {"npm", "pypi"} /\ RuleBlocks(p)
        => out[p].result.decision \in {"block", "unknown"} \/ Excused(out[p])

\* Nothing repairs a damaged cache file.  Once no process is past the load of
\* its save, none gets past it again: every load fails, and saving starts with
\* a load, so results are neither found nor kept from then on.
DamageIsPermanent ==
    [][file # "ok" /\ (\A p \in Procs : pc[p] \notin {"write", "fill"})
         => file' # "ok" /\ (\A p \in Procs : pc'[p] \notin {"write", "fill"})]_vars
=============================================================================
