------------------------------ MODULE MCCIGate ------------------------------
(* Small instances of CIGate.                                               *)
EXTENDS CIGate, TLC

Lock(packages, dependencies) == [packages |-> packages, dependencies |-> dependencies]
Installed(path, version) == [path |-> path, version |-> version]
Listed(name, version) == [name |-> name, version |-> version]

\* A root entry, a nested second version, and a package of the older table.
CurrentLock == Lock({Installed(<<>>, "1"), Installed(<<"a">>, "1"),
                     Installed(<<"b", "a">>, "2")}, {Listed("b", "1")})
OldLock     == Lock({Installed(<<"a">>, "1"), Installed(<<"b">>, "2")}, {})

Entry(name, version, url, local, lock) ==
  [name |-> name, version |-> version, url |-> url, local |-> local, lock |-> lock]

Requirements == <<Entry("a", "", "", FALSE, FALSE), Entry("b", "1", "git", FALSE, FALSE),
                  Entry("a", "2", "", TRUE, FALSE)>>
PoetryLock   == <<Entry("a", "1", "", FALSE, TRUE), Entry("a", "2", "", FALSE, TRUE),
                  Entry("b", "1", "", FALSE, TRUE), Entry("c", "1", "", TRUE, TRUE)>>

EmptyDisk == [f \in {LockfileName} \cup ToSet(PythonFiles) |-> Absent]
NpmDisk    == [EmptyDisk EXCEPT ![LockfileName] = CurrentLock]
PythonDisk == [EmptyDisk EXCEPT !["requirements.txt"] = Requirements,
                                !["poetry.lock"] = PoetryLock]

Plain == [policyLoads |-> TRUE, policyFailOn |-> "block", failOn |-> "", ecosystem |-> "",
          lockfile |-> LockfileName, dependencyFile |-> "", disk |-> NpmDisk,
          packageJSON |-> {"b"}, full |-> FALSE, changedOnlyFlag |-> FALSE,
          policyChangedOnly |-> FALSE, baselineFile |-> Absent, baselineRef |-> Absent,
          behavior |-> "", outputs |-> {"sarif", "markdown"}]

Changed == [Plain EXCEPT !.changedOnlyFlag = TRUE, !.failOn = "warn"]
Python  == [Plain EXCEPT !.disk = PythonDisk, !.lockfile = "", !.failOn = "warn"]

SmallRequests ==
  {[Plain EXCEPT !.failOn = f] : f \in {"", "warn", "none", "never"}}
  \cup {[Changed EXCEPT !.baselineFile = b, !.baselineRef = OldLock] :
          b \in {Absent, Unreadable, Malformed, OldLock, CurrentLock}}
  \cup {[Changed EXCEPT !.baselineRef = OldLock, !.full = TRUE],
        [Plain EXCEPT !.policyChangedOnly = TRUE, !.baselineRef = OldLock, !.outputs = {"json"}],
        [Plain EXCEPT !.policyLoads = FALSE],
        [Plain EXCEPT !.behavior = "guess"],
        [Plain EXCEPT !.disk[LockfileName] = Malformed],
        [Plain EXCEPT !.disk = EmptyDisk],
        Python,
        [Python EXCEPT !.dependencyFile = "poetry.lock"],
        [Python EXCEPT !.lockfile = "requirements.txt"],
        [Python EXCEPT !.ecosystem = "pypi", !.disk["poetry.lock"] = Malformed],
        [Python EXCEPT !.ecosystem = "pypi", !.disk = EmptyDisk],
        [Python EXCEPT !.disk = EmptyDisk]}

Verdict(decision, k) ==
  [decision |-> decision, pkg |-> [name |-> k[1], version |-> k[2]],
   reasons |-> IF decision \in {"warn", "block"} THEN {[id |-> decision, severity |-> "high"]}
               ELSE {},
   vulnerabilities |-> IF decision = "block" THEN {[id |-> "OSV", severity |-> "low"]} ELSE {}]

Keys == {<<"a", "1">>, <<"a", "2">>, <<"b", "1">>}
\* What is scanned for the second version of "a" says that it is the first of "b".
Itself == [k \in Keys |-> IF k = <<"a", "2">> THEN <<"b", "1">> ELSE k]
Answers == {[k \in Keys |-> Verdict(d[k], Itself[k])] :
              d \in [Keys -> {"allow", "warn", "block", "error"}]}

NothingCached == <<>>
BlockCached == [k \in {"npm", "pypi"} \X {"a", "b"} \X {"1"} |-> "block"]
SmallCaches == {NothingCached, BlockCached}
=============================================================================
