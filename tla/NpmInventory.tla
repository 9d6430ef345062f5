---------------------------- MODULE NpmInventory ----------------------------
(***************************************************************************)
(* The dependency inventory of an npm project (internal/deps/npm), its     *)
(* difference to that of another revision, and the dependency tree and     *)
(* integrity report of a package-lock.json (pkgsafe tree, pkgsafe verify). *)
(*                                                                         *)
(* Data.  A project tree is [manifests, locks, static, dynamic, hidden,    *)
(* quoted]:                                                                *)
(*   manifests   [path -> [deps, bundled]], the package.json files; deps   *)
(*               gives for each section a function from names to ranges    *)
(*   locks       [path -> [format, root, packages]], the package-lock.json *)
(*               files in format 1, 2 or 3; root gives for each section    *)
(*               the names the project itself depends on; a package is     *)
(*               [within, name, installs, version, hash, http], within     *)
(*               being the packages it is nested in, name the last part of *)
(*               its path and installs the package that npm puts there     *)
(*   static      {<<path, name>>}, the imports of the source files         *)
(*   dynamic     {<<path, expression>>}, those of a computed name          *)
(*   hidden      the paths below dist, build or the root's node_modules    *)
(*   quoted      the paths that git prints in quotes, being not ASCII      *)
(***************************************************************************)
EXTENDS RiskDecision

\* The sections of a package.json, in the order they are read.
Sections == <<"production", "dev", "peer", "optional">>
SectionIndex == [production |-> 1, dev |-> 2, peer |-> 3, optional |-> 4]

Precedence == [optional |-> 1, peer |-> 2, dev |-> 3, production |-> 4, bundled |-> 5]

\* The strongest of several kinds of dependency.
Strongest(kinds) == CHOOSE k \in kinds : \A l \in kinds : Precedence[l] <= Precedence[k]

\* The name of a row for a file as such; also the version where there is none.
Blank == ""

\* order tells which of two rows for one name in one file comes later; it is
\* no field of the code.
Row(source, file, name, version, type, direct, order) ==
    [source |-> source, file |-> file, name |-> name, version |-> version,
     type |-> type, direct |-> direct, order |-> order]

Declares(m, section, name) == name \in DOMAIN m.deps[section]

ManifestRows(path, m) ==
    {Row("manifest", path, Blank, Blank, "package.json", TRUE, 0)}
      \cup {Row("manifest", path, n, Blank, "bundled", TRUE, 5) :
              n \in {b \in m.bundled : \A s \in ToSet(Sections) : ~Declares(m, s, b)}}
      \cup UNION {{Row("manifest", path, n, m.deps[s][n],
                       IF n \in m.bundled THEN "bundled" ELSE s, TRUE, SectionIndex[s]) :
                     n \in DOMAIN m.deps[s]} : s \in ToSet(Sections)}

\* What the manifests say a name is; the package.json files are one for this.
DeclaredTypes(rows, name) ==
    {r.type : r \in {q \in rows : q.source = "manifest" /\ q.name = name}}

RootTypes(lock, name) == {s \in ToSet(Sections) : name \in lock.root[s]}

\* The first format lists no root dependencies: what is not
\* nested is taken for a direct one.
LockTypes(lock, p, declared) ==
    IF lock.format = 1 THEN (IF p.within # <<>> THEN {}
                     ELSE IF declared # {} THEN declared ELSE {"production"})
    ELSE IF RootTypes(lock, p.name) # {} THEN RootTypes(lock, p.name) ELSE declared

LockRows(path, lock, manifestRows) ==
    {Row("lock", path, Blank, Blank, "package-lock.json", TRUE, 0)}
      \cup {LET types == LockTypes(lock, p, DeclaredTypes(manifestRows, p.name))
            IN  Row("lock", path, p.name, p.version,
                    IF types = {} THEN "transitive" ELSE Strongest(types), types # {}, 0) :
              p \in lock.packages}

CodeRows(tree) ==
    {Row("code", i[1], i[2], Blank, "unresolved-dynamic-import", TRUE, 0) : i \in tree.dynamic}
      \cup {Row("code", i[1], i[2], Blank, "source-import", TRUE, 1) : i \in tree.static}

SourceFiles(tree) == {i[1] : i \in tree.static \cup tree.dynamic}

\* What is a package.json, a package-lock.json or a source file in one tree is
\* nothing else in another.
OneKind(tree, other) ==
    /\ DOMAIN tree.manifests \cap (DOMAIN other.locks \cup SourceFiles(other)) = {}
    /\ DOMAIN tree.locks \cap SourceFiles(other) = {}

Paths(tree) == DOMAIN tree.manifests \cup DOMAIN tree.locks \cup SourceFiles(tree)

\* A tree as one sees it who reads some of its files.
Part(tree, files) ==
    [manifests |-> Restrict(tree.manifests, DOMAIN tree.manifests \cap files),
     locks     |-> Restrict(tree.locks, DOMAIN tree.locks \cap files),
     static    |-> {i \in tree.static : i[1] \in files},
     dynamic   |-> {i \in tree.dynamic : i[1] \in files}]

\* ScanInventory walks the directory and leaves out what is built or installed.
Walked(tree) == Part(tree, Paths(tree) \ tree.hidden)

\* ScanInventoryGit lists the files of a revision of the directory and reads
\* each from the root of the repository, which is the tree top: in a
\* subdirectory it reads the file that has the same path there, if any.
FromGit(base, top) == Part(top, Paths(base) \ base.quoted)

\* buildNPMInventory.
Inventory(tree) ==
    LET declared == UNION {ManifestRows(f, tree.manifests[f]) : f \in DOMAIN tree.manifests}
    IN  declared \cup CodeRows(tree)
          \cup UNION {LockRows(f, tree.locks[f], declared) : f \in DOMAIN tree.locks}

-----------------------------------------------------------------------------
(* What is imported, declared and locked, name by name.                    *)

NamesIn(rows, source) == {r.name : r \in {q \in rows : q.source = source}} \ {Blank}

LockedAs(rows, direct) ==
    {r.name : r \in {q \in rows : q.source = "lock" /\ q.direct = direct}} \ {Blank}

\* Imports that package.json does not declare.
ImportFindings(imported, declared, transitive) ==
    {Reason("undeclared_source_import", n) : n \in imported \ (declared \cup transitive)}
      \cup {Reason("direct_use_of_transitive_dependency", n) :
              n \in (imported \ declared) \cap transitive}

\* A package.json and a lockfile that do not list the same dependencies.
LockMismatches(rows, declared) ==
    {Reason("package_json_lockfile_mismatch", n) :
        n \in (declared \ NamesIn(rows, "lock")) \cup (LockedAs(rows, TRUE) \ declared)}

CheckMismatches(rows) ==
    LET declared == NamesIn(rows, "manifest")
        imported == {r.name : r \in {q \in rows : q.type = "source-import"}}
        present(source) == \E r \in rows : r.source = source
    IN  {Reason("unresolved_dynamic_import", r.name) :
           r \in {q \in rows : q.type = "unresolved-dynamic-import"}}
          \cup IF ~present("manifest") THEN {}
               ELSE ImportFindings(imported, declared, LockedAs(rows, FALSE))
                      \cup {Reason("unused_declared_dependency", n) :
                              n \in declared \ imported}
                      \cup IF present("lock") THEN LockMismatches(rows, declared) ELSE {}

-----------------------------------------------------------------------------
(* The difference of two inventories.                                      *)

Key(r) == <<r.file, r.name>>

KeysOf(rows) == {Key(r) : r \in {q \in rows : q.name # Blank}}

\* Mutant: the sections of a package.json are kept in a map.
Contenders_AnySection(rows, key) == {r \in rows : Key(r) = key}

\* The rows that may end up under a key: a later section replaces an earlier
\* one, the packages of a lockfile come in any order.
Contenders(rows, key) ==
    LET own == {r \in rows : Key(r) = key}
    IN  {r \in own : \A q \in own : q.order <= r.order}

\* The maps from keys to rows that DiffInventories may build: each key keeps
\* one of its contenders.
MapsOf(rows) ==
    LET last == {r \in rows : r \in Contenders(rows, Key(r))}
    IN  {[k \in KeysOf(rows) |-> CHOOSE r \in kept : Key(r) = k] :
           kept \in {S \in SUBSET last : \A k \in KeysOf(rows) : \E r \in S : Key(r) = k}}

SameDependency(a, b) == a.version = b.version /\ a.type = b.type /\ a.direct = b.direct

DiffInventories(base, current) ==
    LET all(change, keys) == {[subject |-> k, decision |-> change] : k \in keys}
    IN  all("added", DOMAIN current \ DOMAIN base)
          \cup all("removed", DOMAIN base \ DOMAIN current)
          \cup all("changed", {k \in DOMAIN current \cap DOMAIN base :
                                  ~SameDependency(base[k], current[k])})

-----------------------------------------------------------------------------
(* The tree of a lockfile.  A node is the chain of names that leads to it. *)

Chain(p) == Append(p.within, p.name)

\* The commands that look at a lockfile read only the outermost packages of
\* the first format.
Outermost(lock) == {p \in lock.packages : p.within = <<>>}

Visible(lock) == IF lock.format = 1 THEN Outermost(lock) ELSE lock.packages

Chains(packages) == {Chain(p) : p \in packages}

\* A node whose parent is not listed hangs from the root, and its depth counts
\* from there.
Gaps(packages, chain) ==
    {0} \cup {n \in 1..(Len(chain) - 1) : SubSeq(chain, 1, n) \notin Chains(packages)}

Depth(packages, chain) == Len(chain) - Max(Gaps(packages, chain))

\* The nodes below a node, and itself: the parents on the way are all listed.
Below(packages, chain) ==
    {c \in Chains(packages) :
        /\ IsPrefix(chain, c)
        /\ \A n \in Len(chain)..Len(c) : SubSeq(c, 1, n) \in Chains(packages)}

Severe == {"known_malware_indicator", "known_vulnerability_high", "known_vulnerability_critical"}

\* enrichTreeDecisions, for one node: the block list, then the names that
\* resemble a popular one, then the advisories, without the policy's rules.
NodeDecision(p, pol, lookalikes, affecting) ==
    IF p.name \in pol.blockedPackages \/ \E r \in affecting : r.id \in Severe THEN "block"
    ELSE IF p.name \in lookalikes \/ affecting # {} THEN "warn" ELSE "allow"

\* pruneCleanNodes and limitTreeDepth: what is printed of the tree.
Shown(packages, decision, onlyRisky, limit) ==
    {p \in packages :
        /\ onlyRisky => \E q \in packages : /\ Chain(q) \in Below(packages, Chain(p))
                                            /\ decision[q] # "allow"
        /\ Depth(packages, Chain(p)) <= limit}

\* The status of one package in the integrity report.
IntegrityStatus(p) ==
    IF p.http THEN "insecure"
    ELSE IF p.hash = "" THEN "missing"
    ELSE IF p.hash \in {"sha512", "sha256"} THEN "ok" ELSE "weak"
=============================================================================
