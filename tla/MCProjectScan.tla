--------------------------- MODULE MCProjectScan ---------------------------
(* Small instances of ProjectScan: seven projects, every kind of command.   *)
EXTENDS ProjectScan

Rule(score, strict, class) ==
    [enabled |-> TRUE, score |-> score, strict |-> strict, class |-> class]

DefaultRules ==
    [id \in RequiredSecurityBlockRuleIDs \cup {"blocked_package"} |-> Rule(100, FALSE, "")]
    @@ ("lifecycle_script_present"     :> Rule(20, FALSE, ""))
    @@ ("typosquat_candidate"          :> Rule(40, FALSE, ""))
    @@ ("missing_repository"           :> Rule(10, FALSE, ""))
    @@ ("known_vulnerability_high"     :> Rule(50, FALSE, ""))
    @@ ("package_json_lockfile_mismatch" :> Rule(30, FALSE, ""))

PolicyIn(mode, blocked) ==
    [mode |-> mode, allowMax |-> 29, warnMax |-> 69, blockMin |-> 70,
     rules |-> DefaultRules, blockedPackages |-> blocked, trustedPackages |-> {},
     blockedRules |-> {}, trustedRules |-> {}, scoped |-> <<>>,
     exceptions |-> {}, agentExceptions |-> FALSE]

WarnPolicy  == PolicyIn("warn", {})
BlockPolicy == PolicyIn("block", {"listed"})
AuditPolicy == PolicyIn("audit", {})

Entry(name, version) ==
    [name |-> name, op |-> "==", version |-> version, extras |-> FALSE, suffixed |-> FALSE]
Suffixed(name, version) == [Entry(name, version) EXCEPT !.suffixed = TRUE]
WithSuffix(name) == name \o "(react"
Ranged(name, op) == [Entry(name, "1") EXCEPT !.op = op]
WithExtras(name, version) == [Entry(name, version) EXCEPT !.extras = TRUE]
FileOf(form, entries) == [form |-> form, entries |-> entries, includes |-> {}]

Locked(within, name, version, hash) ==
    [within |-> within, name |-> name, installs |-> name, version |-> version, hash |-> hash,
     http |-> name = "lodahs"]

NoNames == [s \in ToSet(Sections) |-> {}]
NoRanges == [s \in ToSet(Sections) |-> <<>>]

LockOf(format, packages) == [format |-> format, root |-> NoNames, packages |-> packages]
LockFile(format, packages) == [form |-> "package-lock", lock |-> LockOf(format, packages)]

\* Two versions of a name, malware below a clean package, a package below one
\* that is not listed.
NestedPackages ==
    {Locked(<<>>, "clean", "1", "sha512"), Locked(<<"clean">>, "evil", "1", "sha512"),
     Locked(<<>>, "twice", "1", "sha256"), Locked(<<"gone">>, "twice", "2", "sha1"),
     Locked(<<>>, "lodahs", "1", ""),
     [Locked(<<>>, "alias", "1", "sha512") EXCEPT !.installs = "evil"]}

\* One lockfile of each kind.
LockedProject ==
    ("package-lock.json" :> LockFile(3, NestedPackages))
    @@ ("yarn.lock"      :> FileOf("berry", <<Entry("evil", "1")>>))
    @@ ("pnpm-lock.yaml" :> FileOf("pnpm", <<Entry("@s/p", "1"), Entry("evil", "1"),
                                             Suffixed("evil", "1")>>))
    @@ ("package.json"   :> Unreadable)

\* Lockfiles of the formats before: in the first one, evil is out of sight.
OlderLock(format) == "package-lock.json" :> LockFile(format, NestedPackages)
CleanLock == "package-lock.json" :> LockFile(2, {Locked(<<>>, "clean", "1", "sha512")})

Manifest(production, dev, bundled) ==
    [deps |-> [NoRanges EXCEPT !["production"] = production, !["dev"] = dev], bundled |-> bundled]

\* b is in two sections, d is bundled and nothing else.
FirstTree ==
    [manifests |-> "package.json" :> Manifest(("a" :> "^1") @@ ("b" :> "^1"), "b" :> "^2", {"d"}),
     locks     |-> "package-lock.json" :>
                     [LockOf(3, {Locked(<<>>, "b", "1", "sha512"), Locked(<<"b">>, "c", "1", "sha1")})
                        EXCEPT !.root["production"] = {"b"}],
     static    |-> {<<"main.js", "b">>, <<"main.js", "c">>, <<"main.js", "e">>},
     dynamic   |-> {<<"main.js", "x">>},
     hidden    |-> {},
     quoted    |-> {}]
\* Another range, a dependency that has moved, a second package.json.
SecondTree ==
    [FirstTree EXCEPT
        !.manifests = ("package.json" :> Manifest("a" :> "^2", ("b" :> "^2") @@ ("d" :> "^1"), {}))
                      @@ ("sub/package.json" :> Manifest("c" :> "^1", <<>>, {}))]
\* A lockfile of the first format, which lists c twice.
ThirdTree ==
    [SecondTree EXCEPT
        !.locks = "package-lock.json" :>
                    LockOf(1, {Locked(<<>>, "b", "1", "sha512"), Locked(<<"b">>, "c", "1", "sha1"),
                               Locked(<<>>, "c", "2", "sha1")})]

\* What is built lies beside the sources, in a directory whose name git quotes.
BuiltTree ==
    [SecondTree EXCEPT
        !.manifests = @ @@ ("dist/package.json" :> Manifest("e" :> "^1", <<>>, {}))
                        @@ ("b-umlaut/package.json" :> Manifest("f" :> "^1", <<>>, {})),
        !.static = @ \cup {<<"dist/main.js", "a">>},
        !.hidden = {"dist/package.json", "dist/main.js"},
        !.quoted = {"b-umlaut/package.json"}]

LocalPackage ==
    [form |-> "package.json", scripts |-> {{"pipe", "network"}, {"encoded"}},
     marks |-> {"missing_repository"}, tree |-> BuiltTree]

\* No lockfile of npm; the requirements include each other.
MixedProject ==
    ("package.json"        :> LocalPackage)
    @@ ("yarn.lock"        :> FileOf("yarn", <<Entry("twice", "1"), Entry("twice", "2")>>))
    @@ ("pnpm-lock.yaml"   :> FileOf("pnpm", <<Suffixed("evil", "1"), Entry("clean", "1")>>))
    @@ ("Cargo.lock"       :> FileOf("Cargo.lock", <<Entry("crate", "1"), Entry("own", "")>>))
    @@ ("go.mod"           :> FileOf("go.mod", <<Entry("mod", "v1"), Entry("mod2", "v1")>>))
    @@ ("requirements.txt" :> [form |-> "requirements", entries |-> <<Ranged("lib", ">=")>>,
                               includes |-> {"base.txt"}])
    @@ ("pyproject.toml"   :> FileOf("poetry", <<Ranged("lib", ""), Ranged("lib2", "^")>>))
    @@ ("base.txt"         :> [form |-> "requirements", entries |-> <<Entry("lib2", "1")>>,
                               includes |-> {"requirements.txt"}])

\* An include that is not there, a list cut short by its second entry, a
\* lockfile that does not parse.
BrokenProject ==
    ("requirements.txt"  :> [form |-> "requirements", entries |-> <<Entry("lib", "1")>>,
                             includes |-> {"missing.txt"}])
    @@ ("missing.txt"    :> Absent)
    @@ ("pyproject.toml" :> FileOf("pyproject", <<Ranged("lib", ""), WithExtras("lib2", ""),
                                                  Entry("lib3", "")>>))
    @@ ("poetry.lock"    :> FileOf("python-lock", <<Ranged("lib", ""), Entry("own", NoVersion)>>))
    @@ ("Pipfile"        :> FileOf("Pipfile", <<Ranged("lib", ""), Entry("lib", "2")>>))
    @@ ("yarn.lock"      :> Unreadable)

EmptyProject == "package-lock.json" :> Absent

\* Nothing but the verdicts on its modules decides.
GoProject == CleanLock @@ ("go.mod" :> FileOf("go.mod", <<Entry("mod", "v1"), Entry("mod2", "v1")>>))

Command(op, pol, failOn, offline) ==
    [op |-> op, pol |-> pol, failOn |-> failOn, offline |-> offline]

FailOns == {"", "none", "warn", "block", "later"}

ProjectCommands ==
    {Command("scan", pol, f, off) @@ [project |-> p, json |-> (f = "warn")] :
        pol \in {WarnPolicy}, f \in {"", "warn", "later"}, off \in {FALSE},
        p \in {LockedProject, OlderLock(1), OlderLock(2), MixedProject, GoProject, BrokenProject, EmptyProject}}
FileCommands ==
    UNION {{Command("scan-lockfile", pol, f, TRUE) @@ [project |-> p, target |-> t] :
               t \in {"package-lock.json", "yarn.lock", "pnpm-lock.yaml"} \cap DOMAIN p,
               f \in FailOns, pol \in {WarnPolicy, BlockPolicy}} :
             p \in {LockedProject, MixedProject, BrokenProject, EmptyProject}}
    \cup
    UNION {{Command("scan-deps", pol, f, FALSE) @@ [project |-> p, target |-> t] :
               t \in {"go.mod", "Cargo.lock", "requirements.txt", "pyproject.toml",
                      "poetry.lock", "Pipfile"} \cap DOMAIN p,
               f \in FailOns, pol \in {WarnPolicy, BlockPolicy}} :
             p \in {MixedProject, BrokenProject}}
PackageCommands ==
    {Command(op, pol, f, FALSE) : op \in {"package", "npm-install"}, f \in FailOns,
                                  pol \in {WarnPolicy, BlockPolicy, AuditPolicy}}
ExplainCommands ==
    {Command("explain", WarnPolicy, "", off)
        @@ [prefix |-> pre, hosts |-> h, cached |-> c, terminal |-> tty] :
        off \in BOOLEAN, pre \in Ecosystems \cup {None}, h \in SUBSET Ecosystems,
        c \in SUBSET Ecosystems, tty \in BOOLEAN}

Trees == {FirstTree, SecondTree, ThirdTree, BuiltTree}

TreeCommands ==
    {Command("tree", pol, "", FALSE)
        @@ [project |-> p, target |-> "package-lock.json", onlyRisky |-> r, depth |-> d] :
        pol \in {WarnPolicy, BlockPolicy}, r \in BOOLEAN, d \in {1, 99},
        p \in {LockedProject, OlderLock(1), EmptyProject}}
    \cup
    {Command("verify", WarnPolicy, "", FALSE)
        @@ [project |-> p, target |-> "package-lock.json", json |-> j] :
        p \in {LockedProject, OlderLock(1), CleanLock, EmptyProject}, j \in BOOLEAN}
    \cup
    {Command("inventory-diff", WarnPolicy, "", FALSE) @@ [base |-> b, current |-> c, top |-> t] :
        b \in Trees, c \in Trees, t \in Trees}

AllCommands == TreeCommands \cup ProjectCommands \cup FileCommands \cup PackageCommands \cup ExplainCommands

Advisory(name, versions, id) ==
    [name |-> name, versions |-> versions, reason |-> Reason(id, "")]

KnownAdvisories == {Advisory("evil", {"1"}, "known_malware_indicator")}
NewAdvisories == {Advisory("twice", {"1"}, "known_malware_indicator"),
                  Advisory("lodahs", {"1"}, "known_vulnerability_high")}
=============================================================================
