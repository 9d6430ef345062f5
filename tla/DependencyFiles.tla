-------------------------- MODULE DependencyFiles --------------------------
(***************************************************************************)
(* What PkgSafe reads out of a project: the parsers of internal/deps, the  *)
(* lockfile and package.json analysers of internal/analyzer/npm and the    *)
(* npm inventory, as functions of the files' contents.                     *)
(*                                                                         *)
(* Data.  A file that lists dependencies is [form, entries, includes]; an  *)
(* entry is [name, op, version, extras], where op is the operator before   *)
(* the version, version is NoVersion if there is none, and extras says     *)
(* that the entry asks for optional parts ("requests[socks]").  In a       *)
(* lockfile of yarn or pnpm suffixed says that its key holds more than a   *)
(* name and a version: the peers of a pnpm package ("evil@1.0.0(react@18)" *)
(* or "evil/1.0.0_react@18"), the package behind a yarn alias.  A          *)
(* package-lock.json is [form, lock] and a package.json is                 *)
(* [form, scripts, marks, tree]: each script the set of its traits, marks  *)
(* the rules its name, repository and license violate, tree the project    *)
(* around it; see NpmInventory for lock and tree.  A file that cannot be   *)
(* read or parsed is Unreadable.                                           *)
(***************************************************************************)
EXTENDS NpmInventory

CONSTANTS
    Misread(_),   \* what a suffixed key with some name is taken for
    LargeGraph,   \* a lockfile with more names is called large (500)
    Lookalikes,   \* the names that resemble a popular package
    ScopedNames,  \* the npm names of the form @scope/name
    Absent,       \* there is no such file
    Unreadable    \* there is one, and reading or parsing it fails

Readable(file) == file \notin {Absent, Unreadable}

-----------------------------------------------------------------------------
(* Dependency lists.                                                       *)

Versioned(entries) == SelectSeq(entries, LAMBDA e : e.version # NoVersion)

\* The operator that a bare version, "^" and "~" stand for in the tables of
\* poetry and Pipenv.
Specifier(form, op) ==
    IF form \in {"poetry", "Pipfile"} /\ op = "" THEN "=="
    ELSE IF form = "poetry" /\ op = "^" THEN ">="
    ELSE IF form = "poetry" /\ op = "~" THEN "~=" ELSE op

\* Only an exact version is one to be scanned.
ParseRequirementSpec(form, e) ==
    [name    |-> e.name,
     version |-> IF Specifier(form, e.op) \in {"==", "==="} THEN e.version ELSE NoVersion]

Requirements(form, entries) ==
    [i \in DOMAIN entries |-> ParseRequirementSpec(form, entries[i])]

AsListed(entries) ==
    [i \in DOMAIN entries |-> [name |-> entries[i].name, version |-> entries[i].version]]

ParseGoMod(entries) == AsListed(Versioned(entries))
ParseCargoLock(entries) == AsListed(Versioned(entries))

\* poetry.lock and uv.lock: the project itself and what comes from a directory
\* are listed like packages of the index.
ParseTOMLLockPackages(entries) == AsListed(entries)

ParsePipfile(entries) == Requirements("Pipfile", entries)

\* Any "]" ends the array of a pyproject.toml: that of an optional part too,
\* and with it the rest of the dependencies.
PyprojectEntries(entries) ==
    LET asking == {i \in DOMAIN entries : entries[i].extras}
    IN  IF asking = {} THEN entries ELSE SubSeq(entries, 1, Min(asking))

\* A requirements file and those it includes.  Files already seen are left
\* alone, so a cycle of includes ends.
Included(project, path) ==
    LET within[n \in 0..Cardinality(DOMAIN project)] ==
            IF n = 0 THEN {path}
            ELSE within[n - 1]
                   \cup UNION {project[f].includes :
                                 f \in {g \in within[n - 1] : Readable(project[g])}}
    IN  within[Cardinality(DOMAIN project)]

\* An include that cannot be opened fails the file that includes it.
Parses(project, path) ==
    IF Readable(project[path]) /\ project[path].form = "requirements"
    THEN \A f \in Included(project, path) : Readable(project[f])
    ELSE Readable(project[path])

\* The dependencies a file lists, with repetitions.
ParseDependencies(project, path) ==
    LET file == project[path]
    IN  CASE file.form = "go.mod"       -> ParseGoMod(file.entries)
          [] file.form = "Cargo.lock"   -> ParseCargoLock(file.entries)
          [] file.form = "python-lock"  -> ParseTOMLLockPackages(file.entries)
          [] file.form = "Pipfile"      -> ParsePipfile(file.entries)
          [] file.form = "poetry"       -> Requirements("poetry", file.entries)
          [] file.form = "pyproject"    -> Requirements("pyproject", PyprojectEntries(file.entries))
          [] file.form = "requirements" ->
                Requirements("requirements",
                    FlattenSeq(SetToSeq({project[f].entries : f \in Included(project, path)})))

-----------------------------------------------------------------------------
(* npm, yarn and pnpm lockfiles.                                           *)

\* A key is split at its last "@", wherever that is.
ReadKey(e) == IF e.suffixed THEN [e EXCEPT !.name = Misread(e.name)] ELSE e

\* ParseYarnLock takes a version from lines "version ...": the lockfiles of
\* yarn 2 and later, which write "version: ...", list nothing for it.
ParseLock(file) ==
    IF file.form = "berry" THEN <<>>
    ELSE [i \in DOMAIN file.entries |-> ReadKey(file.entries[i])]

LockEntries(file) ==
    IF file.form = "package-lock" THEN Visible(file.lock) ELSE ToSet(ParseLock(file))

LockNames(file) == {e.name : e \in LockEntries(file)}

Pinned(file) == {e \in LockEntries(file) : e.version # NoVersion}

PinnedNames(file) == {e.name : e \in Pinned(file)}

\* One version is kept for a name, the last one met.  A package-lock.json is
\* ranged over as a Go map, its outermost packages again after the others in
\* the formats that list them apart.
LastVersions(file, name) ==
    LET own   == {e \in Pinned(file) : e.name = name}
        outer == own \cap Outermost(file.lock)
        at    == {i \in DOMAIN ParseLock(file) : ParseLock(file)[i] \in own}
    IN  IF file.form # "package-lock"
        THEN {ParseLock(file)[i].version : i \in {j \in at : \A k \in at : k <= j}}
        ELSE {e.version : e \in IF file.lock.format # 3 /\ outer # {} THEN outer ELSE own}

PinChoices(file) ==
    {pins \in [PinnedNames(file) -> {e.version : e \in Pinned(file)}] :
        \A n \in PinnedNames(file) : pins[n] \in LastVersions(file, n)}

LockFindings_OwnEcosystem(file, pins, found, known, pol) ==
    When(LockNames(file) = {}, Reason("empty_lockfile", <<>>))
      \cup {Reason("blocked_package", <<n, NoVersion>>) :
              n \in LockNames(file) \cap pol.blockedPackages}
      \cup {Reason(id, <<n, NoVersion>>) :
              id \in {"typosquat_candidate", "missing_repository"},
              n \in LockNames(file) \cap Lookalikes}
      \cup {Reason(a.reason.id, <<a.name, pins[a.name]>>) :
              a \in {b \in known : /\ file.form = "package-lock"
                                   /\ b.name \in found /\ pins[b.name] \in b.versions}}

\* The advisories the database knows of the version that was kept, for the
\* names it could be asked about.
AdvisoryFindings(pins, found, known) ==
    {Reason(a.reason.id, <<a.name, pins[a.name]>>) :
        a \in {b \in known : b.name \in found /\ pins[b.name] \in b.versions}}

\* The findings of AnalyzeLockfile and analyzeLockDeps: its size, the block
\* list, names like popular ones, and the advisories.
LockFindings(file, pins, found, known, pol) ==
    When(LockNames(file) = {}, Reason("empty_lockfile", <<>>))
      \cup When(Cardinality(LockNames(file)) > LargeGraph, Reason("large_dependency_graph", <<>>))
      \cup {Reason("blocked_package", <<n, NoVersion>>) :
              n \in LockNames(file) \cap pol.blockedPackages}
      \cup {Reason(id, <<n, NoVersion>>) :
              id \in {"typosquat_candidate", "missing_repository"},
              n \in LockNames(file) \cap Lookalikes}
      \cup AdvisoryFindings(pins, found, known)

\* The lockfile is judged as one package, of an ecosystem without policy lists.
AnalyzeLockfile(file, pins, found, known, pol) ==
    Evaluate([eco |-> "npm-lock", name |-> "project", version |-> NoVersion],
             LockFindings(file, pins, found, known, pol), pol)

\* logLockfileToAudit: one line for each finding.  The name is what precedes
\* the first "@", which is nothing for a scoped package.
LockAuditLines(result) ==
    {[name     |-> IF r.ev[1] \in ScopedNames THEN "" ELSE r.ev[1],
      decision |-> IF r.id \in {"blocked_package", "known_malware_indicator",
                                "known_vulnerability_high",
                                "known_vulnerability_critical"}
                   THEN "BLOCK" ELSE "WARN"] :
        r \in {s \in result.reasons : s.id \notin {"empty_lockfile", "large_dependency_graph"}}}

-----------------------------------------------------------------------------
(* A package.json and the sources beside it.                               *)

\* The rule a trait of a lifecycle script violates.
ScriptRule ==
    [credential |-> "credential_path_reference", network |-> "network_command_in_lifecycle",
     pipe       |-> "shell_download_execute",    secret  |-> "secret_keyword_reference",
     obfuscated |-> "obfuscated_script",         encoded |-> "obfuscated_script"]

AnalyzePackageJSON(file) ==
    UNION {{Reason(ScriptRule[trait], trait) : trait \in s} : s \in file.scripts}
      \cup When(file.scripts # {}, Reason("lifecycle_script_present", ""))
      \cup {Reason(mark, "") : mark \in file.marks}

LocalRegistry ==
    [name |-> "local", type |-> "", http |-> FALSE, claims |-> {}, enabled |-> FALSE]

\* ScanLocalPackage without behavior analysis: the manifest, the inventory and
\* the controls, for a caller that states neither who asks nor from where.
ScanLocalPackage(file, pol) ==
    LET pkg    == [eco |-> "npm", name |-> "project", version |-> NoVersion]
        static == Evaluate(pkg, AnalyzePackageJSON(file), pol)
    IN  ApplyPolicyControls(
            Evaluate(pkg, StripPolicyGeneratedReasons(static.reasons)
                            \cup CheckMismatches(Inventory(Walked(file.tree))), pol),
            pol, LocalRegistry, "", "")
=============================================================================
