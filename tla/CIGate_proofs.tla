---------------------------- MODULE CIGate_proofs ----------------------------
(***************************************************************************)
(* The CI gate, for any requests, answers of the registry, caches and      *)
(* number of workers: GateIsComplete, ExitTellsWorst and                   *)
(* FailedScanKeepsVerdict.                                                 *)
(*                                                                         *)
(* What is selected has one entry for each dependency the files require    *)
(* (a counting argument: the entries that Dedupe keeps are in bijection    *)
(* with their keys); what the pool answers depends on the entry alone, in  *)
(* whatever order the workers run; so every finding is the one its         *)
(* dependency must have, and the exit status follows from the findings.    *)
(* Last, progress: a scan is never stuck, and each of its steps ends one   *)
(* of finitely many tasks.                                                 *)
(***************************************************************************)
EXTENDS CIGate, FiniteSetTheorems, SequenceTheorems, WellFoundedInduction, TLAPS

-----------------------------------------------------------------------------
(* Enumerations.                                                           *)

\* SetToSeqs lists each element once: as many as there are, and all of them.
LEMMA EnumerationIsOnto ==
  ASSUME NEW S, IsFiniteSet(S), NEW o \in SetToSeqs(S)
  PROVE  /\ Cardinality(S) \in Nat
         /\ DOMAIN o = 1..Cardinality(S)
         /\ o \in Seq(S) /\ Len(o) = Cardinality(S)
         /\ \A i \in DOMAIN o : o[i] \in S
         /\ \A x \in S : \E i \in DOMAIN o : o[i] = x
<1> DEFINE n == Cardinality(S)
<1>1. n \in Nat
  BY FS_CardinalityType
<1> HIDE DEF n
<1>2. o \in [1..n -> S] /\ \A i, j \in 1..n : i # j => o[i] # o[j]
  BY DEF SetToSeqs, n
<1>3. o \in Injection(1..n, S)
  BY <1>2 DEF Injection, IsInjective
<1>4. Cardinality(1..n) = n
  BY <1>1, FS_Interval
<1>5. o \in Surjection(1..n, S)
  BY <1>3, <1>4, FS_Injection DEF n
<1>6. \A x \in S : \E i \in 1..n : o[i] = x
  BY <1>5 DEF Surjection
<1>7. o \in Seq(S) /\ Len(o) = n
  BY <1>1, <1>2
<1> QED BY <1>1, <1>2, <1>6, <1>7 DEF n

\* A set of places has a first one.
LEMMA FirstPlace ==
  ASSUME NEW T \in SUBSET (Nat \X Nat), T # {}
  PROVE  \E p \in T : \A q \in T : q = p \/ Before(p, q)
<1> DEFINE R == OpToRel(<, Nat)
           Rows == {p[1] : p \in T}
<1>1. \A x, y \in Nat : x < y => <<x, y>> \in R
  BY DEF OpToRel
<1>w. IsWellFoundedOn(R, Nat)
  BY NatLessThanWellFounded
<1>2. Rows \subseteq Nat /\ Rows # {}
  OBVIOUS
<1> HIDE DEF R, Rows
<1>3. PICK i \in Rows : \A j \in Rows : ~(<<j, i>> \in R)
  BY <1>w, <1>2, WFMin
<1> DEFINE Columns == {p[2] : p \in {q \in T : q[1] = i}}
<1>4. Columns \subseteq Nat /\ Columns # {}
  BY <1>3 DEF Rows
<1> HIDE DEF Columns
<1>5. PICK c \in Columns : \A d \in Columns : ~(<<d, c>> \in R)
  BY <1>w, <1>4, WFMin
<1>6. PICK p \in T : p[1] = i /\ p[2] = c
  BY <1>5 DEF Columns
<1>7. ASSUME NEW q \in T PROVE q = p \/ Before(p, q)
  <2>1. p = <<i, c>> /\ q = <<q[1], q[2]>> /\ q[1] \in Nat /\ q[2] \in Nat /\ i \in Nat /\ c \in Nat
    BY <1>6
  <2>2. ~(q[1] < i)
    BY <1>1, <1>2, <1>3, <2>1 DEF Rows
  <2>3. q[1] = i => ~(q[2] < c)
    BY <1>1, <1>4, <1>5, <2>1 DEF Columns
  <2> QED BY <1>6, <2>1, <2>2, <2>3 DEF Before
<1> QED BY <1>6, <1>7

-----------------------------------------------------------------------------
(* What is selected.                                                       *)

Key(d) == <<d.name, d.version>>

\* One dependency for each that is required, and it is known which come from a URL.
Chosen(r, ds) ==
  /\ DOMAIN ds = 1..Cardinality(Required(r)) /\ Cardinality(Required(r)) \in Nat
  /\ Len(ds) = Cardinality(Required(r))
  /\ \A i \in DOMAIN ds : Key(ds[i]) \in Required(r)
  /\ \A k \in Required(r) : \E i \in DOMAIN ds : Key(ds[i]) = k
  /\ \A i \in DOMAIN ds : ~FromIndex(ds[i]) <=> FromURL(r, ds[i].name, ds[i].version)

LEMMA NpmDependencyIs ==
  ASSUME NEW d
  PROVE  /\ NpmDependency(d).name = d[1] /\ NpmDependency(d).version = d[2]
         /\ FromIndex(NpmDependency(d))
<1>1. NpmDependency(d).name = d[1]
  BY DEF NpmDependency
<1>2. NpmDependency(d).version = d[2]
  BY DEF NpmDependency
<1>3. FromIndex(NpmDependency(d))
  <2>1. NpmDependency(d).url = ""
    BY DEF NpmDependency
  <2> QED BY <2>1 DEF FromIndex
<1> QED BY <1>1, <1>2, <1>3

LEMMA NpmIsChosen ==
  ASSUME request \in Requests, Rejection(request) = Success, Ecosystem(request) # "pypi",
         NEW order \in SetToSeqs(NpmDependencies(request))
  PROVE  Chosen(request, [i \in DOMAIN order |-> NpmDependency(order[i])])
<1> DEFINE S == NpmDependencies(request)
           ds == [i \in DOMAIN order |-> NpmDependency(order[i])]
<1>1. S = Required(request)
  BY DEF NpmDependencies, Required, DiffLockfiles
<1>2. IsFiniteSet(S)
  BY RequestAssumption
<1>3. \A d \in S : \E x, y : d = <<x, y>>
  BY DEF NpmDependencies, DiffLockfiles, ParseLockfile
<1> HIDE DEF S
<1>4. /\ Cardinality(S) \in Nat /\ DOMAIN order = 1..Cardinality(S)
      /\ \A i \in DOMAIN order : order[i] \in S
      /\ \A x \in S : \E i \in DOMAIN order : order[i] = x
  BY <1>2, EnumerationIsOnto DEF S
<1>5. \A i \in DOMAIN order : Key(ds[i]) = order[i] /\ FromIndex(ds[i])
  <2> SUFFICES ASSUME NEW i \in DOMAIN order PROVE Key(ds[i]) = order[i] /\ FromIndex(ds[i])
    OBVIOUS
  <2>1. PICK x, y : order[i] = <<x, y>>
    BY <1>3, <1>4
  <2>2. ds[i] = NpmDependency(order[i])
    OBVIOUS
  <2> HIDE DEF ds
  <2>3. /\ ds[i].name = order[i][1] /\ ds[i].version = order[i][2] /\ FromIndex(ds[i])
    BY <2>2, NpmDependencyIs
  <2>4. order[i][1] = x /\ order[i][2] = y
    BY <2>1
  <2> QED BY <2>1, <2>3, <2>4, Zenon DEF Key
<1>6. DOMAIN ds = 1..Cardinality(S) /\ Len(ds) = Cardinality(S)
  BY <1>4
<1>7. \A n, v : ~FromURL(request, n, v)
  BY DEF FromURL
<1> HIDE DEF ds
<1> QED BY <1>1, <1>4, <1>5, <1>6, <1>7 DEF Chosen, ds

-----------------------------------------------------------------------------
(* What Dedupe keeps of the Python entries.                                *)

AreEntries(entries) ==
  /\ IsFiniteSet(DOMAIN entries) /\ DOMAIN entries \subseteq Nat \X Nat
  /\ \A p \in DOMAIN entries : entries[p] \in EntryType

KeptPlaces(entries) == {p \in First(entries) : ~Dedupe(entries)[p].local}

\* Merging does not touch the key; local needs all, a URL one.
LEMMA MergedEntry ==
  ASSUME NEW entries, AreEntries(entries), NEW p \in First(entries)
  PROVE  LET d == Dedupe(entries)[p]
         IN  /\ d.name = entries[p].name /\ d.version = entries[p].version
             /\ d.local <=> \A q \in Same(entries, p) : entries[q].local
             /\ ~FromIndex(d) <=> \E q \in Same(entries, p) : ~FromIndex(entries[q])
<1> DEFINE d == Dedupe(entries)[p]
           lock == /\ \A q \in Same(entries, p) : entries[q].lock
                   /\ ~\E q \in DOMAIN entries : /\ Collapsed(entries, q) /\ ~entries[q].lock
                                                 /\ entries[q].name = entries[p].name
           local == \A q \in Same(entries, p) : entries[q].local
           url == URLOf(entries, p)
<1>1. p \in DOMAIN entries /\ entries[p] \in EntryType
  BY DEF First, AreEntries
<1>2. d = [entries[p] EXCEPT !.lock = lock, !.local = local, !.url = url]
  BY Zenon DEF Dedupe
<1>3. DOMAIN entries[p] = {"name", "version", "url", "local", "lock"}
  BY <1>1 DEF EntryType
<1> HIDE DEF d, lock, local, url
<1>4. d.name = entries[p].name /\ d.version = entries[p].version
  BY <1>2, <1>3
<1>5. d.url = url
  BY <1>2, <1>3
<1>6. d.local = local
  BY <1>2, <1>3
<1>7. url # "" <=> \E q \in Same(entries, p) : ~FromIndex(entries[q])
  <2> DEFINE named == {q \in Same(entries, p) : ~FromIndex(entries[q])}
  <2>1. CASE named = {}
    BY <2>1 DEF url, URLOf
  <2>2. CASE named # {}
    <3>1. named \in SUBSET (Nat \X Nat)
      BY DEF AreEntries, Same
    <3>2. \E q \in named : \A o \in named : o = q \/ Before(q, o)
      <4> HIDE DEF named
      <4> QED BY <2>2, <3>1, FirstPlace
    <3>3. PICK q \in named : url = entries[q].url
      BY <2>2, <3>2 DEF url, URLOf
    <3>4. ~FromIndex(entries[q]) /\ q \in Same(entries, p)
      BY <3>3
    <3> HIDE DEF named
    <3> QED BY <3>3, <3>4, Zenon DEF FromIndex
  <2> QED BY <2>1, <2>2
<1>8. d.url # "" <=> ~FromIndex(d)
  BY Zenon DEF FromIndex
<1> QED BY <1>4, <1>5, <1>6, <1>7, <1>8, Zenon DEF d, local

\* The kept entries are in bijection with the keys that are required.
RequiredOf(entries) ==
  {<<e.name, e.version>> : e \in
     {e \in {entries[p] : p \in DOMAIN entries} :
        /\ ~e.local
        /\ e.version = "" => ~\E f \in {entries[p] : p \in DOMAIN entries} :
                                 f.name = e.name /\ f.version # ""}}

LEMMA KeptAreRequired ==
  ASSUME NEW entries, AreEntries(entries)
  PROVE  /\ \A p \in KeptPlaces(entries) : Key(entries[p]) \in RequiredOf(entries)
         /\ \A k \in RequiredOf(entries) : \E p \in KeptPlaces(entries) : Key(entries[p]) = k
         /\ \A p, q \in KeptPlaces(entries) : Key(entries[p]) = Key(entries[q]) => p = q
<1> DEFINE E == {entries[p] : p \in DOMAIN entries}
<1>1. ASSUME NEW p \in KeptPlaces(entries)
      PROVE  Key(entries[p]) \in RequiredOf(entries)
  <2>1. p \in First(entries) /\ p \in DOMAIN entries /\ ~Collapsed(entries, p)
    BY DEF KeptPlaces, First
  <2>2. PICK q \in Same(entries, p) : ~entries[q].local
    BY <2>1, MergedEntry DEF KeptPlaces
  <2>3. /\ q \in DOMAIN entries /\ entries[q].name = entries[p].name
        /\ entries[q].version = entries[p].version
    BY DEF Same, SameKey
  <2>4. entries[q].version = "" => ~\E f \in E : f.name = entries[q].name /\ f.version # ""
    BY <2>1, <2>3 DEF Collapsed, Versioned
  <2>5. <<entries[q].name, entries[q].version>> \in RequiredOf(entries)
    BY <2>2, <2>3, <2>4 DEF RequiredOf
  <2> QED BY <2>3, <2>5 DEF Key
<1>2. ASSUME NEW k \in RequiredOf(entries)
      PROVE  \E p \in KeptPlaces(entries) : Key(entries[p]) = k
  <2>1. PICK i \in DOMAIN entries :
          /\ k = <<entries[i].name, entries[i].version>> /\ ~entries[i].local
          /\ entries[i].version = "" => ~\E f \in E : f.name = entries[i].name /\ f.version # ""
    BY DEF RequiredOf
  <2> DEFINE T == Same(entries, i)
  <2>2. T \in SUBSET (Nat \X Nat) /\ i \in T
    BY DEF Same, SameKey, AreEntries
  <2>3. PICK p \in T : \A q \in T : q = p \/ Before(p, q)
    <3> HIDE DEF T
    <3> QED BY <2>2, FirstPlace
  <2>4. /\ p \in DOMAIN entries /\ entries[p].name = entries[i].name
        /\ entries[p].version = entries[i].version
    BY DEF Same, SameKey
  <2>5. Same(entries, p) = T
    BY <2>4 DEF Same, SameKey
  <2>6. ~Collapsed(entries, p)
    BY <2>1, <2>4 DEF Collapsed, Versioned
  <2>7. p \in First(entries)
    BY <2>3, <2>4, <2>5, <2>6 DEF First
  <2>8. p \in KeptPlaces(entries)
    BY <2>1, <2>2, <2>5, <2>7, MergedEntry DEF KeptPlaces
  <2> QED BY <2>1, <2>4, <2>8 DEF Key
<1>3. ASSUME NEW p \in KeptPlaces(entries), NEW q \in KeptPlaces(entries),
             Key(entries[p]) = Key(entries[q])
      PROVE  p = q
  <2>1. /\ p \in First(entries) /\ p \in DOMAIN entries
        /\ q \in First(entries) /\ q \in DOMAIN entries
    BY DEF KeptPlaces, First
  <2>2. entries[p].name = entries[q].name /\ entries[p].version = entries[q].version
    BY <1>3 DEF Key
  <2>3. q \in Same(entries, p) /\ p \in Same(entries, q)
    BY <2>1, <2>2 DEF Same, SameKey
  <2>4. (q = p \/ Before(p, q)) /\ (p = q \/ Before(q, p))
    BY <2>1, <2>3 DEF First
  <2>5. p[1] \in Nat /\ p[2] \in Nat /\ q[1] \in Nat /\ q[2] \in Nat
    BY <2>1 DEF AreEntries
  <2> QED BY <2>4, <2>5 DEF Before
<1> QED BY <1>1, <1>2, <1>3

LEMMA PythonIsChosen ==
  ASSUME request \in Requests, Rejection(request) = Success, Ecosystem(request) = "pypi",
         NEW ds \in PythonDependencies(Dedupe(PythonEntries(request)))
  PROVE  Chosen(request, ds)
<1> DEFINE E == PythonEntries(request)
           M == Dedupe(E)
           K == KeptPlaces(E)
<1>1. AreEntries(E) /\ Entries(request) = {E[p] : p \in DOMAIN E}
  <2>1. DOMAIN E = Places(request)
    BY DEF PythonEntries
  <2>2. /\ IsFiniteSet(Places(request)) /\ Places(request) \subseteq Nat \X Nat
        /\ Entries(request) \subseteq EntryType
    BY RequestAssumption
  <2>3. Entries(request) = {E[p] : p \in DOMAIN E}
    BY <2>1 DEF Entries
  <2> HIDE DEF E
  <2> QED BY <2>1, <2>2, <2>3 DEF AreEntries
<1>2. Required(request) = RequiredOf(E)
  <2> HIDE DEF E
  <2> QED BY <1>1 DEF Required, RequiredOf
<1>3. K = {p \in DOMAIN M : ~M[p].local} /\ DOMAIN M = First(E)
  BY DEF KeptPlaces, Dedupe
<1>4. PICK o \in InOrder(K) : ds = [k \in DOMAIN o |-> M[o[k]]]
  BY <1>3 DEF PythonDependencies
<1> HIDE DEF E, M, K
<1>5. IsFiniteSet(K)
  <2>1. K \in SUBSET DOMAIN E
    BY DEF K, KeptPlaces, First
  <2> QED BY <1>1, <2>1, FS_Subset DEF AreEntries
<1>6. Cardinality(K) = Cardinality(RequiredOf(E))
  <2> DEFINE f == [p \in K |-> Key(E[p])]
  <2>1. f \in [K -> RequiredOf(E)]
    BY <1>1, KeptAreRequired DEF K
  <2>2. IsInjective(f) /\ \A k \in RequiredOf(E) : \E p \in K : f[p] = k
    BY <1>1, KeptAreRequired DEF K, IsInjective
  <2> HIDE DEF f
  <2>3. f \in Bijection(K, RequiredOf(E))
    BY <2>1, <2>2 DEF Bijection, Injection, Surjection
  <2>4. ExistsBijection(K, RequiredOf(E))
    BY <2>3 DEF ExistsBijection
  <2> QED BY <1>5, <2>4, FS_Bijection
<1>7. /\ Cardinality(K) \in Nat /\ DOMAIN o = 1..Cardinality(K)
      /\ \A i \in DOMAIN o : o[i] \in K
      /\ \A p \in K : \E i \in DOMAIN o : o[i] = p
  <2>1. o \in SetToSeqs(K)
    BY DEF InOrder
  <2> QED BY <1>5, <2>1, EnumerationIsOnto
<1>8. DOMAIN ds = 1..Cardinality(K) /\ Len(ds) = Cardinality(K)
  BY <1>4, <1>7
<1>9. ASSUME NEW i \in DOMAIN ds
      PROVE  /\ o[i] \in K /\ ds[i] = M[o[i]]
             /\ Key(ds[i]) = Key(E[o[i]])
             /\ ~FromIndex(ds[i]) <=> FromURL(request, ds[i].name, ds[i].version)
  <2>1. o[i] \in K /\ ds[i] = M[o[i]] /\ o[i] \in First(E)
    BY <1>4, <1>7, <1>8 DEF K, KeptPlaces
  <2>2. /\ ds[i].name = E[o[i]].name /\ ds[i].version = E[o[i]].version
        /\ ~FromIndex(ds[i]) <=> \E q \in Same(E, o[i]) : ~FromIndex(E[q])
    <3>1. ds[i] = Dedupe(E)[o[i]]
      BY <2>1 DEF M
    <3>2. AreEntries(E) /\ o[i] \in First(E)
      BY <1>1, <2>1
    <3>3. /\ Dedupe(E)[o[i]].name = E[o[i]].name /\ Dedupe(E)[o[i]].version = E[o[i]].version
          /\ ~FromIndex(Dedupe(E)[o[i]]) <=> \E q \in Same(E, o[i]) : ~FromIndex(E[q])
      BY <3>2, MergedEntry
    <3> QED BY <3>1, <3>3, Zenon
  <2>3. (\E q \in Same(E, o[i]) : ~FromIndex(E[q]))
           <=> FromURL(request, ds[i].name, ds[i].version)
    BY <1>1, <2>1, <2>2 DEF FromURL, Same, SameKey
  <2> QED BY <2>1, <2>2, <2>3 DEF Key
<1>10. \A i \in DOMAIN ds : Key(ds[i]) \in RequiredOf(E)
  BY <1>1, <1>9, KeptAreRequired DEF K
<1>11. ASSUME NEW k \in RequiredOf(E) PROVE \E i \in DOMAIN ds : Key(ds[i]) = k
  <2>1. PICK p \in K : Key(E[p]) = k
    BY <1>1, KeptAreRequired DEF K
  <2>2. PICK i \in DOMAIN o : o[i] = p
    BY <1>7
  <2> QED BY <1>7, <1>8, <1>9, <2>1, <2>2
<1> QED BY <1>2, <1>6, <1>7, <1>8, <1>9, <1>10, <1>11 DEF Chosen

-----------------------------------------------------------------------------
(* What the gate has to say of a dependency, whoever scans it and when.    *)

ScanOf(d) == IF ~FromIndex(d) THEN DirectURLScanResult(d) ELSE ScanResultOf(d)

FindingOf(d) ==
  [name |-> Named(d, ScanOf(d)).name, version |-> Named(d, ScanOf(d)).version,
   decision |-> ScanOf(d).decision, direct |-> ~d.lock, reasons |-> ScanOf(d).reasons,
   vulnerabilities |-> ScanOf(d).vulnerabilities]

LEMMA ResultIs ==
  ASSUME NEW ecosystem, NEW d, NEW decision, NEW reasons, NEW vulnerabilities, NEW res,
         res = Result(ecosystem, d, decision, reasons, vulnerabilities)
  PROVE  /\ res.ecosystem = ecosystem /\ res.name = d.name /\ res.version = d.version
         /\ res.decision = decision /\ res.reasons = reasons
         /\ res.vulnerabilities = vulnerabilities
BY DEF Result

LEMMA FindingIs ==
  ASSUME NEW d
  PROVE  /\ FindingOf(d).name = Named(d, ScanOf(d)).name
         /\ FindingOf(d).version = Named(d, ScanOf(d)).version
         /\ FindingOf(d).decision = ScanOf(d).decision
         /\ FindingOf(d).reasons = ScanOf(d).reasons
<1>1. /\ FindingOf(d).name = Named(d, ScanOf(d)).name
      /\ FindingOf(d).version = Named(d, ScanOf(d)).version
  BY DEF FindingOf
<1>2. FindingOf(d).decision = ScanOf(d).decision
  BY DEF FindingOf
<1>3. FindingOf(d).reasons = ScanOf(d).reasons
  BY DEF FindingOf
<1> QED BY <1>1, <1>2, <1>3

LEMMA ScanFrame ==
  ASSUME UNCHANGED <<request, registry>>, NEW d
  PROVE  ScanResultOf(d)' = ScanResultOf(d) /\ FindingOf(d)' = FindingOf(d)
<1>1. ScanResultOf(d)' = ScanResultOf(d)
  BY DEF ScanResultOf, UnknownScanResult, Result, AnswerFor
<1>2. ScanOf(d)' = ScanOf(d)
  BY <1>1 DEF ScanOf, DirectURLScanResult, Result
<1>3. Named(d, ScanOf(d))' = Named(d, ScanOf(d))
  BY <1>2 DEF Named
<1> QED BY <1>1, <1>2, <1>3 DEF FindingOf

\* What a finding about a dependency tells of it.
Tells(f, d) ==
  /\ f.name = ToTell(d.name, d.version).name /\ f.version = ToTell(d.name, d.version).version
  /\ f.decision = ToTell(d.name, d.version).decision

LEMMA ScanSays ==
  ASSUME request \in Requests, registry \in Registries, Rejection(request) = Success,
         NEW d, Key(d) \in Required(request),
         ~FromIndex(d) <=> FromURL(request, d.name, d.version)
  PROVE  /\ ~FromIndex(d) => ScanOf(d).name = d.name /\ ScanOf(d).version = d.version
         /\ Named(d, ScanOf(d)).name = ToTell(d.name, d.version).name
         /\ Named(d, ScanOf(d)).version = ToTell(d.name, d.version).version
         /\ ScanOf(d).decision = ToTell(d.name, d.version).decision
         /\ ScanOf(d).decision \in {"allow", "warn", "block", "unknown"}
         /\ ScanOf(d).decision = "unknown" =>
               /\ ScanOf(d).ecosystem = NoEcosystem \/ (ScanOf(d).ecosystem = "pypi" /\ ~FromIndex(d))
               /\ \E x \in ScanOf(d).reasons : x.severity = "medium"
         /\ ScanOf(d).ecosystem = NoEcosystem => ScanOf(d).decision = "unknown"
<1> DEFINE answer == registry[<<d.name, d.version>>]
           told == ToTell(d.name, d.version)
<1>6. /\ FromIndex(d) /\ answer.decision # "error" =>
            /\ told.decision = answer.decision
            /\ told.name = IF Ecosystem(request) = "pypi" THEN answer.pkg.name ELSE d.name
            /\ told.version = IF Ecosystem(request) = "pypi" THEN answer.pkg.version ELSE d.version
      /\ ~FromIndex(d) \/ answer.decision = "error" =>
            told.decision = "unknown" /\ told.name = d.name /\ told.version = d.version
  BY DEF ToTell
<1>1. answer.decision \in {"allow", "warn", "block", "error"}
  <2>1. <<d.name, d.version>> \in DOMAIN registry
    BY RequestAssumption DEF Key
  <2>2. answer \in AnswerType
    BY <2>1, CIAssumption
  <2> QED BY <2>2 DEF AnswerType
<1>2. Ecosystem(request) # NoEcosystem
  BY Zenon DEF Ecosystem, DetectEcosystem, NoEcosystem
<1> HIDE DEF answer, told
<1>3. CASE ~FromIndex(d)
  <2>1. ScanOf(d) = Result("pypi", d, "unknown",
                      {[id |-> "direct_url_dependency_not_scanned", severity |-> "medium"]}, {})
    BY <1>3 DEF ScanOf, DirectURLScanResult
  <2>2. /\ ScanOf(d).ecosystem = "pypi" /\ ScanOf(d).name = d.name
        /\ ScanOf(d).version = d.version /\ ScanOf(d).decision = "unknown"
    BY <2>1, ResultIs
  <2>3. ScanOf(d).reasons =
          {[id |-> "direct_url_dependency_not_scanned", severity |-> "medium"]}
    BY <2>1 DEF Result
  <2>4. \E x \in ScanOf(d).reasons : x.severity = "medium"
    BY <2>3
  <2> QED BY <1>3, <1>6, <2>2, <2>4 DEF Named, told
<1>4. CASE FromIndex(d) /\ answer.decision = "error"
  <2>1. ScanOf(d) = Result(NoEcosystem, d, "unknown",
                           {[id |-> "package_not_scanned", severity |-> "medium"]}, {})
    BY <1>4 DEF ScanOf, ScanResultOf, UnknownScanResult, AnswerFor, answer
  <2>2. /\ ScanOf(d).ecosystem = NoEcosystem /\ ScanOf(d).name = d.name
        /\ ScanOf(d).version = d.version /\ ScanOf(d).decision = "unknown"
    BY <2>1, ResultIs
  <2>3. ScanOf(d).reasons = {[id |-> "package_not_scanned", severity |-> "medium"]}
    BY <2>1, ResultIs
  <2>4. \E x \in ScanOf(d).reasons : x.severity = "medium"
    BY <2>3
  <2> QED BY <1>4, <1>6, <2>2, <2>4 DEF Named, told
<1>5. CASE FromIndex(d) /\ answer.decision # "error"
  <2>1. ScanOf(d) = Result(Ecosystem(request), answer.pkg, answer.decision, answer.reasons,
                           answer.vulnerabilities)
    BY <1>5 DEF ScanOf, ScanResultOf, AnswerFor, answer
  <2>2. /\ ScanOf(d).ecosystem = Ecosystem(request) /\ ScanOf(d).name = answer.pkg.name
        /\ ScanOf(d).version = answer.pkg.version /\ ScanOf(d).decision = answer.decision
    BY <2>1 DEF Result
  <2> QED BY <1>1, <1>2, <1>5, <1>6, <2>2 DEF Named, told
<1> QED BY <1>3, <1>4, <1>5

-----------------------------------------------------------------------------
(* The invariant.                                                          *)

\* Nothing is left out of the pool, and what it has answered depends on the
\* dependency alone.
PoolAnswers ==
  /\ DOMAIN worker = DOMAIN toScan /\ DOMAIN out = DOMAIN toScan
  /\ \A i \in DOMAIN deps : FromIndex(deps[i]) => \E j \in DOMAIN toScan : toScan[j] = i
  /\ \A j \in DOMAIN toScan :
        worker[j] \in {"released", "done"} => out[j] = ScanResultOf(deps[toScan[j]])

\* The findings so far are those of the first dependencies.
FindingsFit ==
  /\ findings \in Seq({FindingOf(deps[i]) : i \in DOMAIN deps})
  /\ Len(findings) <= Len(deps)
  /\ \A i \in DOMAIN findings : findings[i] = FindingOf(deps[i])

StandInsAreUnknown == \A k \in DOMAIN cache : k[1] = NoEcosystem => cache[k] = "unknown"

CInv ==
  /\ request \in Requests /\ registry \in Registries
  /\ pc = "start" => findings = <<>>
  /\ (pc \in {"scan", "tally"} \/ Judged) =>
        Rejection(request) = Success /\ Chosen(request, deps) /\ FindingsFit
  /\ pc \in {"scan", "tally"} => PoolAnswers
  /\ pc = "tally" => \A j \in DOMAIN worker : worker[j] = "done"
  /\ Judged => /\ Len(findings) = Len(deps)
               /\ exitCode = IF ThresholdReached THEN FailThreshold ELSE Success
  /\ StandInsAreUnknown

LEMMA InitCInv == Init => CInv
BY CacheAssumption DEF Init, CInv, Judged, StandInsAreUnknown

\* The pool starts on what the files require.
Selected(ds) ==
  /\ StartPool(ds) /\ Chosen(request, ds) /\ Rejection(request) = Success
  /\ pc = "start"
  /\ UNCHANGED <<request, registry, findings, cache, cacheWorks, reports, exitCode>>

LEMMA SelectionIsChosen ==
  ASSUME CInv, SelectNpm \/ SelectPython
  PROVE  \E ds : Selected(ds)
<1>1. CASE SelectNpm
  BY <1>1, NpmIsChosen DEF SelectNpm, CInv, Selected
<1>2. CASE SelectPython
  BY <1>2, PythonIsChosen DEF SelectPython, CInv, Selected
<1> QED BY <1>1, <1>2

LEMMA StartKeepsCInv == ASSUME CInv, SelectNpm \/ SelectPython PROVE CInv'
<1>1. PICK ds : Selected(ds)
  BY SelectionIsChosen
<1>2. PICK order \in SetToSeqs({i \in DOMAIN ds : FromIndex(ds[i])}) :
        /\ deps' = ds /\ toScan' = order /\ pc' = "scan"
        /\ worker' = [j \in DOMAIN order |-> "waiting"]
        /\ out' = [j \in DOMAIN order |-> None]
  BY <1>1 DEF StartPool, Selected
<1>3. \A i \in DOMAIN ds : FromIndex(ds[i]) => \E j \in DOMAIN order : order[j] = i
  <2> DEFINE S == {i \in DOMAIN ds : FromIndex(ds[i])}
  <2>1. S \in SUBSET DOMAIN ds /\ IsFiniteSet(DOMAIN ds)
    <3>1. DOMAIN ds = 1..Cardinality(Required(request)) /\ Cardinality(Required(request)) \in Int
      BY <1>1 DEF Chosen, Selected
    <3> QED BY <3>1, FS_Interval
  <2>2. IsFiniteSet(S)
    BY <2>1, FS_Subset
  <2>3. order \in SetToSeqs(S)
    BY <1>2
  <2> HIDE DEF S
  <2>4. \A x \in S : \E j \in DOMAIN order : order[j] = x
    BY <2>2, <2>3, EnumerationIsOnto
  <2>5. \A i \in DOMAIN ds : FromIndex(ds[i]) => i \in S
    BY DEF S
  <2> QED BY <2>4, <2>5
<1>4. PoolAnswers'
  BY <1>2, <1>3 DEF PoolAnswers
<1>5. FindingsFit'
  <2>1. findings' = << >>
    BY <1>1 DEF CInv, Selected
  <2>2. Len(<< >>) = 0 /\ DOMAIN << >> = {}
    OBVIOUS
  <2>3. Len(deps') \in Nat
    BY <1>1, <1>2 DEF Chosen, Selected
  <2>4. << >> \in Seq({FindingOf(deps[i]) : i \in DOMAIN deps}')
    BY EmptySeq
  <2> QED BY <2>1, <2>2, <2>3, <2>4 DEF FindingsFit
<1>6. Chosen(request, deps)'
  BY <1>1, <1>2 DEF Selected
<1> QED BY <1>1, <1>2, <1>4, <1>5, <1>6 DEF CInv, Judged, StandInsAreUnknown, Selected

\* Everything but the pool's own state stays.
Frame == UNCHANGED <<request, registry, deps, toScan, findings, cache>>

LEMMA FrameKeeps ==
  ASSUME Frame
  PROVE  /\ FindingsFit' <=> FindingsFit
         /\ StandInsAreUnknown' <=> StandInsAreUnknown
         /\ Chosen(request, deps)' <=> Chosen(request, deps)
         /\ ThresholdReached' <=> ThresholdReached
<1>1. {FindingOf(deps[i]) : i \in DOMAIN deps}' = {FindingOf(deps[i]) : i \in DOMAIN deps}
  BY ScanFrame DEF Frame
<1>2. FindingsFit' <=> FindingsFit
  BY <1>1, ScanFrame DEF Frame, FindingsFit
<1>3. StandInsAreUnknown' <=> StandInsAreUnknown
  BY DEF Frame, StandInsAreUnknown
<1>4. ThresholdReached' <=> ThresholdReached
  BY DEF Frame, ThresholdReached, OverallDecision, Count
<1> QED BY <1>2, <1>3, <1>4 DEF Frame, Chosen

\* The goroutines of the pool.
LEMMA PoolKeepsCInv ==
  ASSUME CInv, Dispatch \/ PoolEnds \/ (\E j \in DOMAIN worker : ScanEnds(j) \/ WorkerDone(j))
  PROVE  CInv'
<1>1. CASE Dispatch
  <2>1. Frame /\ pc = "scan" /\ UNCHANGED <<pc, out>> /\ worker' = [worker EXCEPT ![next] = "scanning"]
    BY <1>1 DEF Dispatch, Frame
  <2>2. PoolAnswers'
    <3>1. \A j \in DOMAIN toScan : ScanResultOf(deps[toScan[j]])' = ScanResultOf(deps[toScan[j]])
      BY <2>1, ScanFrame DEF Frame
    <3> QED BY <2>1, <3>1 DEF CInv, PoolAnswers, Frame
  <2> QED BY <2>1, <2>2, FrameKeeps DEF CInv, Judged, Frame
<1>2. CASE \E j \in DOMAIN worker : ScanEnds(j) \/ WorkerDone(j)
  <2>1. PICK j \in DOMAIN worker : ScanEnds(j) \/ WorkerDone(j)
    BY <1>2
  <2>2. Frame /\ UNCHANGED <<pc, exitCode, next>>
    BY <2>1 DEF ScanEnds, WorkerDone, Frame
  <2>3. worker[j] \in {"scanning", "released"}
    BY <2>1 DEF ScanEnds, WorkerDone
  <2>4. pc # "tally"
    BY <2>3 DEF CInv
  <2>5. ASSUME pc = "scan" PROVE PoolAnswers'
    <3>1. \A i \in DOMAIN toScan : ScanResultOf(deps[toScan[i]])' = ScanResultOf(deps[toScan[i]])
      BY <2>2, ScanFrame DEF Frame
    <3>2. PoolAnswers
      BY <2>5 DEF CInv
    <3>3. CASE ScanEnds(j)
      BY <2>2, <3>1, <3>2, <3>3 DEF PoolAnswers, Frame, ScanEnds
    <3>4. CASE WorkerDone(j)
      BY <2>2, <3>1, <3>2, <3>4 DEF PoolAnswers, Frame, WorkerDone
    <3> QED BY <2>1, <3>3, <3>4
  <2> QED BY <2>2, <2>4, <2>5, FrameKeeps DEF CInv, Judged, Frame
<1>3. CASE PoolEnds
  <2>1. Frame /\ pc = "scan" /\ pc' = "tally" /\ UNCHANGED <<out, worker, exitCode>>
        /\ \A j \in DOMAIN worker : worker[j] = "done"
    BY <1>3 DEF PoolEnds, Frame
  <2>2. PoolAnswers'
    <3>1. \A j \in DOMAIN toScan : ScanResultOf(deps[toScan[j]])' = ScanResultOf(deps[toScan[j]])
      BY <2>1, ScanFrame DEF Frame
    <3> QED BY <2>1, <3>1 DEF CInv, PoolAnswers, Frame
  <2> QED BY <2>1, <2>2, FrameKeeps DEF CInv, Judged, Frame
<1> QED BY <1>1, <1>2, <1>3

\* The results are back at their dependencies.
LEMMA ScannedFits ==
  ASSUME CInv, pc = "tally", NEW i \in DOMAIN deps
  PROVE  Scanned(i) = ScanOf(deps[i])
<1>1. CASE ~FromIndex(deps[i])
  BY <1>1 DEF Scanned, ScanOf
<1>2. CASE FromIndex(deps[i])
  <2>1. \E j \in DOMAIN toScan : toScan[j] = i
    BY <1>2 DEF CInv, PoolAnswers
  <2>2. PICK j \in DOMAIN toScan : toScan[j] = i /\ Scanned(i) = out[j]
    BY <1>2, <2>1 DEF Scanned
  <2>3. worker[j] = "done" /\ out[j] = ScanResultOf(deps[toScan[j]])
    BY <2>2 DEF CInv, PoolAnswers
  <2> QED BY <1>2, <2>2, <2>3 DEF ScanOf
<1> QED BY <1>1, <1>2

\* One result is saved, counted and reported.
LEMMA TallyKeepsCInv ==
  ASSUME CInv, Tally
  PROVE  CInv' /\ KeepsVerdicts
<1> DEFINE i == Len(findings) + 1
           res == ScanOf(deps[i])
           k == <<res.ecosystem, res.name, res.version>>
<1>1. /\ pc = "tally" /\ i <= Len(deps)
      /\ UNCHANGED <<request, registry, pc, deps, toScan, worker, out, exitCode>>
  BY DEF Tally
<1>2. /\ Rejection(request) = Success /\ Chosen(request, deps) /\ FindingsFit /\ PoolAnswers
      /\ StandInsAreUnknown
  BY <1>1 DEF CInv
<1>3. Len(findings) \in Nat /\ DOMAIN findings = 1..Len(findings)
  BY <1>2, LenProperties DEF FindingsFit
<1>4. i \in DOMAIN deps
  BY <1>1, <1>2, <1>3 DEF Chosen
<1>5. Scanned(i) = res
  BY <1>1, <1>4, ScannedFits
<1>6. /\ findings' = Append(findings, FindingOf(deps[i]))
      /\ cache' = IF cacheWorks
                  THEN [x \in DOMAIN cache \cup {k} |-> IF x = k THEN res.decision ELSE cache[x]]
                  ELSE cache
  <2>1. /\ SaveResult(Scanned(i))
        /\ findings' = Append(findings,
             [name |-> Named(deps[i], Scanned(i)).name,
              version |-> Named(deps[i], Scanned(i)).version,
              decision |-> Scanned(i).decision, direct |-> ~deps[i].lock,
              reasons |-> Scanned(i).reasons,
              vulnerabilities |-> Scanned(i).vulnerabilities])
    BY DEF Tally
  <2> HIDE DEF i
  <2> QED BY <1>5, <2>1, Zenon DEF SaveResult, FindingOf
<1>7. /\ res.decision = "unknown" =>
            res.ecosystem = NoEcosystem \/ (res.ecosystem = "pypi" /\ ~FromIndex(deps[i]))
      /\ res.ecosystem = NoEcosystem => res.decision = "unknown"
      /\ ~FromIndex(deps[i]) => res.name = deps[i].name /\ res.version = deps[i].version
  <2>1. /\ request \in Requests /\ registry \in Registries /\ Key(deps[i]) \in Required(request)
        /\ ~FromIndex(deps[i]) <=> FromURL(request, deps[i].name, deps[i].version)
    BY <1>2, <1>4 DEF CInv, Chosen
  <2> HIDE DEF i
  <2> QED BY <1>2, <2>1, ScanSays
<1>8. ~FromIndex(deps[i]) => FromURL(request, deps[i].name, deps[i].version)
  BY <1>2, <1>4 DEF Chosen
<1> HIDE DEF res
<1>9. StandInsAreUnknown'
  BY <1>2, <1>6, <1>7 DEF StandInsAreUnknown
<1>10. KeepsVerdicts
  <2> SUFFICES ASSUME NEW x \in DOMAIN cache, cache[x] # "unknown", cache'[x] = "unknown"
               PROVE  FromURL(request, x[2], x[3])
    BY DEF KeepsVerdicts
  <2>1. x = k /\ res.decision = "unknown"
    BY <1>6
  <2>2. k[1] = res.ecosystem /\ k[2] = res.name /\ k[3] = res.version
    OBVIOUS
  <2>3. res.ecosystem # NoEcosystem
    BY <1>2, <2>1, <2>2 DEF StandInsAreUnknown
  <2> QED BY <1>7, <1>8, <2>1, <2>2, <2>3
<1> HIDE DEF k
<1>11. FindingsFit'
  <2> DEFINE S == {FindingOf(deps[x]) : x \in DOMAIN deps}
             f == FindingOf(deps[i])
  <2>1. findings \in Seq(S) /\ f \in S
    BY <1>2, <1>4 DEF FindingsFit
  <2>2. S' = S
    BY <1>1, ScanFrame
  <2>3. \A x \in DOMAIN findings : findings[x] = FindingOf(deps[x])
    BY <1>2 DEF FindingsFit
  <2>4. \A x \in DOMAIN deps : FindingOf(deps[x])' = FindingOf(deps[x])
    BY <1>1, ScanFrame
  <2>5. findings' = Append(findings, f)
    BY <1>6
  <2> HIDE DEF S, f
  <2>6. /\ findings' \in Seq(S) /\ Len(findings') = Len(findings) + 1
        /\ \A x \in 1..Len(findings) : findings'[x] = findings[x]
        /\ findings'[Len(findings) + 1] = f
    BY <2>1, <2>5, AppendProperties
  <2>7. DOMAIN findings' = 1..(Len(findings) + 1)
    BY <1>3, <2>6, LenProperties
  <2>8. \A x \in DOMAIN findings' : x \in DOMAIN deps
    BY <1>1, <1>2, <1>3, <2>7 DEF Chosen
  <2>9. \A x \in DOMAIN findings' : findings'[x] = FindingOf(deps[x])
    BY <1>3, <2>3, <2>6, <2>7 DEF f
  <2> QED BY <1>1, <2>2, <2>4, <2>6, <2>8, <2>9 DEF FindingsFit, S
<1>12. PoolAnswers'
  BY <1>1, <1>2, ScanFrame DEF PoolAnswers
<1>13. Chosen(request, deps)'
  BY <1>1, <1>2
<1> QED BY <1>1, <1>2, <1>9, <1>10, <1>11, <1>12, <1>13 DEF CInv, Judged

-----------------------------------------------------------------------------
(* The reports and the exit status.                                        *)

LEMMA RejectionIsOne ==
  ASSUME NEW r
  PROVE  /\ Rejection(r) \in {PolicyError, UsageError, LockfileError, Success}
         /\ Rejection(r) = Success => FailOn(r) \in FailOns
<1>1. PolicyError # Success /\ UsageError # Success /\ LockfileError # Success
  BY DEF PolicyError, UsageError, LockfileError, Success
<1> QED BY <1>1, Zenon DEF Rejection

LEMMA EndKeepsCInv ==
  ASSUME CInv,
         Reject \/ Finish \/ (\E kind \in ToSet(ReportOrder) : WriteReport(kind) \/ ReportFails(kind))
  PROVE  CInv'
<1>1. CASE Reject
  <2>1. Rejection(request) \in {PolicyError, UsageError, LockfileError}
    BY <1>1, RejectionIsOne DEF Reject
  <2>2. Frame /\ pc' = "done" /\ exitCode' = Rejection(request)
    BY <1>1, Zenon DEF Reject, Exit, Frame
  <2>3. exitCode' \notin {Success, FailThreshold}
    BY <2>1, <2>2 DEF Success, FailThreshold, PolicyError, UsageError, LockfileError
  <2> QED BY <2>2, <2>3, FrameKeeps DEF CInv, Judged, Frame
<1>2. CASE Finish
  <2>1. Frame /\ pc = "tally" /\ pc' = "done" /\ Len(findings) = Len(deps)
        /\ exitCode' = IF ThresholdReached THEN FailThreshold ELSE Success
    BY <1>2 DEF Finish, Exit, Frame
  <2>2. Len(findings') = Len(deps') /\ (ThresholdReached' <=> ThresholdReached)
    BY <2>1, FrameKeeps DEF Frame
  <2> QED BY <2>1, <2>2, FrameKeeps DEF CInv, Judged, Frame
<1>3. ASSUME NEW kind \in ToSet(ReportOrder), WriteReport(kind) PROVE CInv'
  <2>1. Frame /\ UNCHANGED <<pc, worker, out, exitCode>> /\ pc = "tally"
    BY <1>3 DEF WriteReport, Due, Frame
  <2>2. PoolAnswers'
    <3>1. \A j \in DOMAIN toScan : ScanResultOf(deps[toScan[j]])' = ScanResultOf(deps[toScan[j]])
      BY <2>1, ScanFrame DEF Frame
    <3> QED BY <2>1, <3>1 DEF CInv, PoolAnswers, Frame
  <2> QED BY <2>1, <2>2, FrameKeeps DEF CInv, Judged, Frame
<1>4. ASSUME NEW kind \in ToSet(ReportOrder), ReportFails(kind) PROVE CInv'
  <2>1. Frame /\ pc' = "done" /\ exitCode' \notin {Success, FailThreshold}
    BY <1>4 DEF ReportFails, Exit, Frame, InternalError, Success, FailThreshold
  <2> QED BY <2>1, FrameKeeps DEF CInv, Judged, Frame
<1> QED BY <1>1, <1>2, <1>3, <1>4

LEMMA NextKeepsCInv == CInv /\ [Next]_vars => CInv'
<1> SUFFICES ASSUME CInv, [Next]_vars PROVE CInv'
  OBVIOUS
<1>1. CASE UNCHANGED vars
  <2>1. Frame /\ UNCHANGED <<pc, worker, out, exitCode>>
    BY <1>1 DEF vars, Frame
  <2>2. PoolAnswers' <=> PoolAnswers
    <3>1. \A j \in DOMAIN toScan : ScanResultOf(deps[toScan[j]])' = ScanResultOf(deps[toScan[j]])
      BY <2>1, ScanFrame DEF Frame
    <3> QED BY <2>1, <3>1 DEF PoolAnswers, Frame
  <2> QED BY <2>1, <2>2, FrameKeeps DEF CInv, Judged, Frame
<1> QED BY <1>1, StartKeepsCInv, PoolKeepsCInv, TallyKeepsCInv, EndKeepsCInv DEF Next, Main

-----------------------------------------------------------------------------
(* What follows.                                                           *)

\* What is known of the findings of a judgement.
LEMMA FindingsSay ==
  ASSUME CInv, Judged
  PROVE  /\ Chosen(request, deps) /\ DOMAIN findings = DOMAIN deps
         /\ Len(findings) = Len(deps) /\ Len(findings) \in Nat
         /\ DOMAIN findings = 1..Len(findings)
         /\ \A i \in DOMAIN findings :
              /\ Tells(findings[i], deps[i])
              /\ findings[i].decision \in {"allow", "warn", "block", "unknown"}
              /\ findings[i].decision = "unknown" =>
                    \E x \in findings[i].reasons : x.severity = "medium"
<1>1. /\ request \in Requests /\ registry \in Registries /\ Rejection(request) = Success
      /\ Chosen(request, deps) /\ FindingsFit /\ Len(findings) = Len(deps)
  BY DEF CInv
<1>2. Len(findings) \in Nat /\ DOMAIN findings = 1..Len(findings) /\ DOMAIN findings = DOMAIN deps
  BY <1>1, LenProperties DEF FindingsFit, Chosen
<1>3. ASSUME NEW i \in DOMAIN findings
      PROVE  /\ Tells(findings[i], deps[i])
             /\ findings[i].decision \in {"allow", "warn", "block", "unknown"}
             /\ findings[i].decision = "unknown" =>
                   \E x \in findings[i].reasons : x.severity = "medium"
  <2>1. findings[i] = FindingOf(deps[i]) /\ i \in DOMAIN deps
    BY <1>1, <1>2 DEF FindingsFit
  <2>2. Key(deps[i]) \in Required(request)
        /\ (~FromIndex(deps[i]) <=> FromURL(request, deps[i].name, deps[i].version))
    BY <1>1, <2>1 DEF Chosen
  <2>3. /\ findings[i].name = Named(deps[i], ScanOf(deps[i])).name
        /\ findings[i].version = Named(deps[i], ScanOf(deps[i])).version
        /\ findings[i].decision = ScanOf(deps[i]).decision
        /\ findings[i].reasons = ScanOf(deps[i]).reasons
    BY <2>1, FindingIs, Zenon
  <2>4. /\ LET d == deps[i] IN
              /\ Named(d, ScanOf(d)).name = ToTell(d.name, d.version).name
              /\ Named(d, ScanOf(d)).version = ToTell(d.name, d.version).version
              /\ ScanOf(d).decision = ToTell(d.name, d.version).decision
        /\ ScanOf(deps[i]).decision \in {"allow", "warn", "block", "unknown"}
        /\ ScanOf(deps[i]).decision = "unknown" =>
              \E x \in ScanOf(deps[i]).reasons : x.severity = "medium"
    BY <1>1, <2>2, ScanSays
  <2> QED BY <2>3, <2>4 DEF Tells
<1> QED BY <1>1, <1>2, <1>3

\* A run that passes judgement has selected each dependency the files require once,
\* and has one finding on each: the verdict of the registry on that very package,
\* under the name the index or the file has for it, or unknown.
THEOREM CompleteTheorem == Spec => []GateIsComplete
<1>1. CInv => GateIsComplete
  <2> SUFFICES ASSUME CInv, Judged
               PROVE  /\ {<<deps[i].name, deps[i].version>> : i \in DOMAIN deps}
                            = Required(request)
                      /\ Len(deps) = Cardinality(Required(request)) /\ Len(findings) = Len(deps)
                      /\ \A i \in DOMAIN findings :
                           [name |-> findings[i].name, version |-> findings[i].version,
                            decision |-> findings[i].decision]
                              = ToTell(deps[i].name, deps[i].version)
    BY Zenon DEF GateIsComplete
  <2>1. {<<deps[i].name, deps[i].version>> : i \in DOMAIN deps} = Required(request)
    BY FindingsSay DEF Chosen, Key
  <2>2. Len(deps) = Cardinality(Required(request)) /\ Len(findings) = Len(deps)
    BY FindingsSay DEF Chosen
  <2>3. ASSUME NEW i \in DOMAIN findings
        PROVE  [name |-> findings[i].name, version |-> findings[i].version,
                decision |-> findings[i].decision] = ToTell(deps[i].name, deps[i].version)
    <3>1. Tells(findings[i], deps[i])
      BY FindingsSay
    <3> QED BY <3>1 DEF Tells, ToTell
  <2> QED BY <2>1, <2>2, <2>3
<1> QED BY <1>1, InitCInv, NextKeepsCInv, PTL DEF Spec

LEMMA CountIsPositive ==
  ASSUME CInv, Judged, NEW d
  PROVE  Count(d) > 0 <=> \E i \in DOMAIN findings : findings[i].decision = d
<1> DEFINE S == {i \in DOMAIN findings : findings[i].decision = d}
<1>1. IsFiniteSet(S)
  <2>1. S \in SUBSET (1..Len(findings)) /\ Len(findings) \in Int
    BY FindingsSay
  <2>2. IsFiniteSet(1..Len(findings))
    BY <2>1, FS_Interval
  <2> QED BY <2>1, <2>2, FS_Subset
<1>2. Count(d) = Cardinality(S)
  BY DEF Count
<1> HIDE DEF S
<1>3. Cardinality(S) \in Nat /\ (Cardinality(S) = 0 <=> S = {})
  BY <1>1, FS_CardinalityType, FS_EmptySet
<1> QED BY <1>2, <1>3 DEF S

\* The exit status, the human summary, the SARIF rows and the workflow line of
\* the Markdown tell the same of the findings.
THEOREM GateExitTheorem == Spec => []ExitTellsWorst
<1>1. CInv => ExitTellsWorst
  <2> SUFFICES ASSUME CInv, Judged PROVE ExitTellsWorst
    BY DEF ExitTellsWorst
  <2> DEFINE Has(d) == \E i \in DOMAIN findings : findings[i].decision = d
  <2>1. \A d : Count(d) > 0 <=> Has(d)
    BY CountIsPositive
  <2>2. ~Has("review_required")
    BY FindingsSay
  <2>3. OverallDecision = IF Has("block") THEN "block" ELSE IF Has("warn") THEN "warn" ELSE "allow"
    BY <2>1, <2>2 DEF OverallDecision
  <2>4. exitCode = FailThreshold <=> ThresholdReached
    BY DEF CInv, FailThreshold, Success
  <2>5. FailOn(request) \in FailOns
    BY RejectionIsOne DEF CInv
  <2>6. TopFindings # {} <=> Has("block") \/ Has("warn")
    BY <2>2 DEF TopFindings
  <2>7. ASSUME NEW i \in DOMAIN findings, findings[i].decision = "unknown"
        PROVE  \E row \in SarifRows : row.package = findings[i].name /\ row.level = "warning"
    <3>1. PICK x \in findings[i].reasons : x.severity = "medium"
      BY <2>7, FindingsSay
    <3> DEFINE row == [rule |-> x.id, level |-> SarifLevel(x.severity),
                       package |-> findings[i].name, version |-> findings[i].version]
    <3>2. row \in SarifRows
      BY DEF SarifRows
    <3>3. row.package = findings[i].name /\ row.level = "warning"
      BY <3>1 DEF SarifLevel
    <3> QED BY <3>2, <3>3
  <2> HIDE DEF Has
  <2>8. ThresholdReached <=> \/ Has("block") /\ FailOn(request) # "none"
                             \/ Has("warn") /\ FailOn(request) = "warn"
    BY <2>3, <2>5 DEF ThresholdReached, FailOns
  <2>9. ThresholdReached <=> WorkflowResult = "fails"
    BY <2>3, <2>5 DEF ThresholdReached, FailOns, WorkflowResult
  <2>10. ThresholdReached => /\ TopFindings # {}
                             /\ RecommendedAction \notin {"no action", "nothing to gate"}
    BY <2>3, <2>6, <2>8 DEF RecommendedAction
  <2> QED BY <2>4, <2>7, <2>8, <2>9, <2>10 DEF ExitTellsWorst, Has
<1> QED BY <1>1, InitCInv, NextKeepsCInv, PTL DEF Spec

\* A failed scan leaves the verdict of an earlier run in the cache.
THEOREM CachedVerdictTheorem == Spec => FailedScanKeepsVerdict
<1>1. CInv /\ [Next]_vars => [KeepsVerdicts]_cache
  <2> SUFFICES ASSUME CInv, [Next]_vars, ~UNCHANGED cache PROVE KeepsVerdicts
    OBVIOUS
  <2>1. Tally
    BY DEF Next, Main, vars, Reject, SelectNpm, SelectPython, Dispatch, PoolEnds, WriteReport,
           ReportFails, Finish, ScanEnds, WorkerDone
  <2> QED BY <2>1, TallyKeepsCInv
<1> QED BY <1>1, InitCInv, NextKeepsCInv, PTL DEF Spec, FailedScanKeepsVerdict
-----------------------------------------------------------------------------
(* Progress.  The part of RunEnds that needs no fairness: a run that is *)
(* not over has a step to take, and each step ends one of finitely many    *)
(* tasks that no step makes anew.                                          *)

\* The pool hands out its positions in order, and nobody works outside it.
PoolShape ==
  /\ DOMAIN toScan = 1..Len(toScan) /\ Len(toScan) \in Nat /\ DOMAIN worker = DOMAIN toScan
  /\ next \in 1..(Len(toScan) + 1)
  /\ \A j \in DOMAIN worker : /\ worker[j] \in {"waiting", "scanning", "released", "done"}
                              /\ worker[j] = "waiting" <=> next <= j
  /\ pc \in {"start", "scan", "tally", "done"}
  /\ pc # "scan" => \A j \in DOMAIN worker : worker[j] = "done"
  /\ Len(findings) \in Nat /\ Len(deps) \in Nat

LEMMA InitPoolShape == Init => PoolShape
<1>1. DOMAIN << >> = {} /\ Len(<< >>) = 0
  OBVIOUS
<1>2. 1..0 = {}
  OBVIOUS
<1> QED BY <1>1, <1>2 DEF Init, PoolShape

LEMMA StartMakesPoolShape == ASSUME CInv, SelectNpm \/ SelectPython, PoolShape PROVE PoolShape'
<1>1. PICK ds : Selected(ds)
  BY SelectionIsChosen
<1> DEFINE S == {i \in DOMAIN ds : FromIndex(ds[i])}
<1>2. PICK order \in SetToSeqs(S) :
        /\ deps' = ds /\ toScan' = order /\ pc' = "scan" /\ next' = 1
        /\ worker' = [j \in DOMAIN order |-> "waiting"]
  BY <1>1 DEF StartPool, Selected
<1>3. DOMAIN order = 1..Cardinality(S) /\ Len(order) = Cardinality(S) /\ Cardinality(S) \in Nat
  <2>1. DOMAIN ds = 1..Cardinality(Required(request)) /\ Cardinality(Required(request)) \in Int
    BY <1>1 DEF Chosen, Selected
  <2>2. IsFiniteSet(DOMAIN ds)
    BY <2>1, FS_Interval
  <2>3. IsFiniteSet(S)
    BY <2>2, FS_Subset
  <2> HIDE DEF S
  <2> QED BY <1>2, <2>3, EnumerationIsOnto
<1>4. Len(deps') \in Nat /\ Len(findings') = Len(findings)
  BY <1>1, <1>2 DEF Chosen, Selected
<1> HIDE DEF S
<1> QED BY <1>2, <1>3, <1>4 DEF PoolShape

\* The numbers of findings and dependencies, when the results are reported.
LEMMA TallyCounts ==
  ASSUME CInv, Tally
  PROVE  Len(findings') = Len(findings) + 1 /\ Len(findings) < Len(deps)
<1>1. /\ findings \in Seq({FindingOf(deps[i]) : i \in DOMAIN deps}) /\ Len(deps) \in Nat
      /\ Len(findings) + 1 <= Len(deps)
  BY DEF Tally, CInv, FindingsFit, Chosen
<1>2. Len(findings) \in Nat
  BY <1>1, LenProperties
<1>3. PICK f : findings' = Append(findings, f)
  BY DEF Tally
<1>4. Len(findings') = Len(findings) + 1
  BY <1>1, <1>3
<1> QED BY <1>1, <1>2, <1>4

LEMMA NextKeepsPoolShape == CInv /\ PoolShape /\ [Next]_vars => PoolShape'
<1> SUFFICES ASSUME CInv, PoolShape, [Next]_vars PROVE PoolShape'
  OBVIOUS
<1>1. CASE \/ UNCHANGED vars \/ Reject \/ Finish \/ PoolEnds
           \/ \E kind \in ToSet(ReportOrder) : WriteReport(kind) \/ ReportFails(kind)
  <2>1. /\ UNCHANGED <<toScan, worker, next, findings, deps>>
        /\ pc' \in {"done", "tally", pc} /\ (pc' # "scan" /\ pc = "scan" => PoolEnds)
    BY <1>1 DEF vars, Reject, Finish, PoolEnds, WriteReport, ReportFails, Due, Exit
  <2>2. pc' # "scan" => \A j \in DOMAIN worker : worker[j] = "done"
    BY <2>1 DEF PoolShape, PoolEnds
  <2> QED BY <2>1, <2>2 DEF PoolShape
<1>2. CASE Dispatch
  <2>1. /\ worker' = [worker EXCEPT ![next] = "scanning"] /\ next' = next + 1
        /\ pc = "scan" /\ next <= Len(toScan) /\ UNCHANGED <<toScan, findings, deps, pc>>
    BY <1>2 DEF Dispatch
  <2>2. \A j \in DOMAIN worker : /\ worker'[j] \in {"waiting", "scanning", "released", "done"}
                                 /\ worker'[j] = "waiting" <=> next' <= j
    BY <2>1 DEF PoolShape
  <2> QED BY <2>1, <2>2 DEF PoolShape
<1>3. ASSUME NEW j \in DOMAIN worker, ScanEnds(j) \/ WorkerDone(j) PROVE PoolShape'
  <2>1. PICK stage \in {"released", "done"} : worker' = [worker EXCEPT ![j] = stage]
    BY <1>3 DEF ScanEnds, WorkerDone
  <2>2. /\ worker[j] \in {"scanning", "released"}
        /\ UNCHANGED <<toScan, next, findings, deps, pc>>
    BY <1>3 DEF ScanEnds, WorkerDone
  <2> QED BY <2>1, <2>2 DEF PoolShape
<1>4. CASE Tally
  <2>1. UNCHANGED <<toScan, worker, next, deps, pc>>
    BY <1>4 DEF Tally
  <2> QED BY <1>4, <2>1, TallyCounts DEF PoolShape
<1> QED BY <1>1, <1>2, <1>3, <1>4, StartMakesPoolShape DEF Next, Main

\* The guards of the steps of a run that has selected its dependencies.
PoolMoves ==
  \/ next <= Len(toScan) /\ Cardinality(Scanning) < Workers
  \/ \E j \in DOMAIN worker : worker[j] \in {"scanning", "released"}
  \/ next > Len(toScan) /\ \A j \in DOMAIN worker : worker[j] = "done"

TallyMoves ==
  \/ Len(findings) + 1 <= Len(deps)
  \/ \E kind \in ToSet(ReportOrder) : Due(kind)
  \/ /\ Len(findings) = Len(deps)
     /\ \A kind \in ToSet(ReportOrder) : Wanted(kind) => kind \in reports

NeverStuck == (pc = "scan" => PoolMoves) /\ (pc = "tally" => TallyMoves)

LEMMA PoolIsNeverStuck == ASSUME PoolShape, pc = "scan" PROVE PoolMoves
<1> SUFFICES ASSUME \A j \in DOMAIN worker : worker[j] \in {"waiting", "done"} PROVE PoolMoves
  BY DEF PoolMoves, PoolShape
<1>1. Scanning = {}
  BY DEF Scanning
<1>2. Cardinality(Scanning) = 0 /\ Workers \in Nat \ {0}
  BY <1>1, FS_EmptySet, CIAssumption
<1>3. CASE next <= Len(toScan)
  BY <1>2, <1>3 DEF PoolMoves
<1>4. CASE next > Len(toScan)
  <2>1. \A j \in DOMAIN worker : worker[j] = "done"
    BY <1>4 DEF PoolShape
  <2> QED BY <1>4, <2>1 DEF PoolMoves
<1> QED BY <1>3, <1>4 DEF PoolShape

\* The reports are four, and one that is not yet written and has none before it
\* to wait for is due.
LEMMA ReportsAreFour ==
  /\ DOMAIN ReportOrder = 1..4
  /\ ToSet(ReportOrder) = {ReportOrder[1], ReportOrder[2], ReportOrder[3], ReportOrder[4]}
  /\ \A i, j \in 1..4 : ReportOrder[i] = ReportOrder[j] => i = j
<1>1. /\ DOMAIN ReportOrder = 1..4
      /\ ReportOrder[1] = "human" /\ ReportOrder[2] = "json"
      /\ ReportOrder[3] = "sarif" /\ ReportOrder[4] = "markdown"
  BY DEF ReportOrder
<1>2. 1..4 = {1, 2, 3, 4}
  OBVIOUS
<1>3. ToSet(ReportOrder) = {ReportOrder[1], ReportOrder[2], ReportOrder[3], ReportOrder[4]}
  BY <1>1, <1>2 DEF ToSet
<1> QED BY <1>1, <1>2, <1>3

LEMMA TallyIsNeverStuck == ASSUME CInv, PoolShape, pc = "tally" PROVE TallyMoves
<1> DEFINE Missing(i) == Wanted(ReportOrder[i]) /\ ReportOrder[i] \notin reports
<1>1. Len(findings) <= Len(deps) /\ Len(findings) \in Nat /\ Len(deps) \in Nat
  BY DEF CInv, FindingsFit, PoolShape
<1>2. CASE Len(findings) < Len(deps)
  BY <1>1, <1>2 DEF TallyMoves
<1>3. ASSUME Len(findings) = Len(deps), NEW i \in 1..4, Missing(i),
             \A j \in 1..4 : j < i => ~Missing(j)
      PROVE  TallyMoves
  <2>1. ReportOrder[i] \in ToSet(ReportOrder)
    BY ReportsAreFour DEF ToSet
  <2>2. Due(ReportOrder[i])
    BY <1>3, ReportsAreFour DEF Due
  <2> QED BY <2>1, <2>2 DEF TallyMoves
<1>4. CASE Len(findings) = Len(deps) /\ \A i \in 1..4 : ~Missing(i)
  <2>1. \A kind \in ToSet(ReportOrder) : Wanted(kind) => kind \in reports
    BY <1>4, ReportsAreFour
  <2> QED BY <1>4, <2>1 DEF TallyMoves
<1> HIDE DEF Missing
<1>5. CASE Len(findings) = Len(deps) /\ Missing(1)
  BY <1>3, <1>5
<1>6. CASE Len(findings) = Len(deps) /\ ~Missing(1) /\ Missing(2)
  BY <1>3, <1>6
<1>7. CASE Len(findings) = Len(deps) /\ ~Missing(1) /\ ~Missing(2) /\ Missing(3)
  BY <1>3, <1>7
<1>8. CASE Len(findings) = Len(deps) /\ ~Missing(1) /\ ~Missing(2) /\ ~Missing(3) /\ Missing(4)
  BY <1>3, <1>8
<1>9. CASE Len(findings) = Len(deps) /\ ~Missing(1) /\ ~Missing(2) /\ ~Missing(3) /\ ~Missing(4)
  <2>1. \A i \in 1..4 : i \in {1, 2, 3, 4}
    OBVIOUS
  <2>2. \A i \in 1..4 : ~Missing(i)
    BY <1>9, <2>1
  <2> QED BY <1>4, <1>9, <2>2
<1> QED BY <1>1, <1>2, <1>5, <1>6, <1>7, <1>8, <1>9

\* What a run that has selected its dependencies has yet to do: positions to hand
\* out, to scan and to be told the end of, results to count, reports to write, and
\* stages to leave.
Undispatched == next..Len(toScan)
Unscanned    == {j \in DOMAIN worker : worker[j] \in {"waiting", "scanning"}}
Untold       == {j \in DOMAIN worker : worker[j] # "done"}
Uncounted    == (Len(findings) + 1)..Len(deps)
Unwritten    == ToSet(ReportOrder) \ reports
Unleft       == IF pc = "scan" THEN {"scan", "tally"} ELSE IF pc = "tally" THEN {"tally"} ELSE {}

TasksAreFinite ==
  /\ IsFiniteSet(Undispatched) /\ IsFiniteSet(Unscanned) /\ IsFiniteSet(Untold)
  /\ IsFiniteSet(Uncounted) /\ IsFiniteSet(Unwritten) /\ IsFiniteSet(Unleft)

NoNewTask ==
  /\ Undispatched' \subseteq Undispatched /\ Unscanned' \subseteq Unscanned
  /\ Untold' \subseteq Untold /\ Uncounted' \subseteq Uncounted
  /\ Unwritten' \subseteq Unwritten /\ Unleft' \subseteq Unleft

OneTaskLess ==
  \/ Undispatched' # Undispatched \/ Unscanned' # Unscanned \/ Untold' # Untold
  \/ Uncounted' # Uncounted \/ Unwritten' # Unwritten \/ Unleft' # Unleft

\* The first step selects the dependencies or ends the run.
EachStepEndsATask ==
  [][IF pc = "start" THEN pc' \in {"scan", "done"} ELSE NoNewTask /\ OneTaskLess]_vars

LEMMA TasksFinite == ASSUME PoolShape PROVE TasksAreFinite
<1>1. next \in Int /\ Len(toScan) \in Int /\ Len(findings) + 1 \in Int /\ Len(deps) \in Int
  BY DEF PoolShape
<1>2. IsFiniteSet(Undispatched) /\ IsFiniteSet(Uncounted)
  BY <1>1, FS_Interval DEF Undispatched, Uncounted
<1>3. IsFiniteSet(DOMAIN worker)
  <2>1. DOMAIN worker = 1..Len(toScan)
    BY DEF PoolShape
  <2> QED BY <1>1, <2>1, FS_Interval
<1>4. IsFiniteSet(Unscanned) /\ IsFiniteSet(Untold)
  <2>1. Unscanned \in SUBSET DOMAIN worker /\ Untold \in SUBSET DOMAIN worker
    BY DEF Unscanned, Untold
  <2> QED BY <1>3, <2>1, FS_Subset
<1>5. \A x, y : IsFiniteSet({x, y})
  <2> TAKE x, y
  <2>1. IsFiniteSet({x}) /\ IsFiniteSet({y})
    BY FS_Singleton
  <2>2. {x, y} = {x} \cup {y}
    OBVIOUS
  <2> QED BY <2>1, <2>2, FS_Union
<1>6. IsFiniteSet(Unwritten)
  <2> DEFINE front == {ReportOrder[1], ReportOrder[2]}
             back  == {ReportOrder[3], ReportOrder[4]}
  <2>1. ToSet(ReportOrder) = front \cup back
    BY ReportsAreFour
  <2>2. IsFiniteSet(front) /\ IsFiniteSet(back)
    BY <1>5
  <2> HIDE DEF front, back
  <2>3. IsFiniteSet(ToSet(ReportOrder))
    BY <2>1, <2>2, FS_Union
  <2>4. Unwritten \in SUBSET ToSet(ReportOrder)
    BY DEF Unwritten
  <2> QED BY <2>3, <2>4, FS_Subset
<1>7. IsFiniteSet(Unleft)
  <2>1. Unleft \in SUBSET {"scan", "tally"}
    BY DEF Unleft
  <2> QED BY <1>5, <2>1, FS_Subset
<1> QED BY <1>2, <1>4, <1>6, <1>7 DEF TasksAreFinite

LEMMA StepEndsATask ==
  ASSUME CInv, PoolShape, Next, pc # "start"
  PROVE  NoNewTask /\ OneTaskLess
<1>1. CASE Reject \/ SelectNpm \/ SelectPython
  BY <1>1 DEF Reject, SelectNpm, SelectPython
<1>2. CASE Dispatch
  <2>1. /\ UNCHANGED <<toScan, findings, deps, reports, pc>> /\ next' = next + 1
        /\ worker' = [worker EXCEPT ![next] = "scanning"] /\ next <= Len(toScan)
    BY <1>2 DEF Dispatch
  <2>2. /\ next \in Nat /\ Len(toScan) \in Nat /\ next \in DOMAIN worker
        /\ worker[next] = "waiting"
    BY <2>1 DEF PoolShape
  <2>3. Undispatched' \subseteq Undispatched /\ Undispatched' # Undispatched
    BY <2>1, <2>2 DEF Undispatched
  <2>4. Unscanned' = Unscanned /\ Untold' = Untold
    BY <2>1, <2>2 DEF Unscanned, Untold
  <2>5. Uncounted' = Uncounted /\ Unwritten' = Unwritten /\ Unleft' = Unleft
    BY <2>1 DEF Uncounted, Unwritten, Unleft
  <2> QED BY <2>3, <2>4, <2>5 DEF NoNewTask, OneTaskLess
<1>3. ASSUME NEW j \in DOMAIN worker, ScanEnds(j) \/ WorkerDone(j)
      PROVE  NoNewTask /\ OneTaskLess
  <2>1. UNCHANGED <<toScan, findings, deps, reports, pc, next>>
    BY <1>3 DEF ScanEnds, WorkerDone
  <2>2. /\ Uncounted' = Uncounted /\ Unwritten' = Unwritten /\ Unleft' = Unleft
        /\ Undispatched' = Undispatched
    BY <2>1 DEF Uncounted, Unwritten, Unleft, Undispatched
  <2>3. CASE ScanEnds(j)
    <3>1. worker[j] = "scanning" /\ worker' = [worker EXCEPT ![j] = "released"]
      BY <2>3 DEF ScanEnds
    <3>2. Unscanned' = Unscanned \ {j} /\ j \in Unscanned /\ Untold' = Untold
      BY <3>1 DEF Unscanned, Untold
    <3> QED BY <2>2, <3>2 DEF NoNewTask, OneTaskLess
  <2>4. CASE WorkerDone(j)
    <3>1. worker[j] = "released" /\ worker' = [worker EXCEPT ![j] = "done"]
      BY <2>4 DEF WorkerDone
    <3>2. Unscanned' = Unscanned /\ Untold' = Untold \ {j} /\ j \in Untold
      BY <3>1 DEF Unscanned, Untold
    <3> QED BY <2>2, <3>2 DEF NoNewTask, OneTaskLess
  <2> QED BY <1>3, <2>3, <2>4
<1>4. CASE \/ PoolEnds \/ Finish
           \/ \E kind \in ToSet(ReportOrder) : ReportFails(kind)
  <2>1. /\ UNCHANGED <<toScan, worker, next, findings, deps, reports>>
        /\ (pc = "scan" /\ pc' = "tally") \/ (pc = "tally" /\ pc' = "done")
    BY <1>4 DEF PoolEnds, Finish, ReportFails, Due, Exit
  <2>2. /\ Undispatched' = Undispatched /\ Unscanned' = Unscanned /\ Untold' = Untold
        /\ Uncounted' = Uncounted /\ Unwritten' = Unwritten
    BY <2>1 DEF Undispatched, Unscanned, Untold, Uncounted, Unwritten
  <2>3. Unleft' \subseteq Unleft /\ Unleft' # Unleft
    BY <2>1 DEF Unleft
  <2> QED BY <2>2, <2>3 DEF NoNewTask, OneTaskLess
<1>5. CASE Tally
  <2>1. UNCHANGED <<toScan, worker, next, deps, pc, reports>>
    BY <1>5 DEF Tally
  <2>2. /\ Len(findings') = Len(findings) + 1 /\ Len(findings) < Len(deps)
        /\ Len(findings) \in Nat /\ Len(deps) \in Nat
    BY <1>5, TallyCounts DEF PoolShape
  <2>3. Uncounted' \subseteq Uncounted /\ Uncounted' # Uncounted
    BY <2>1, <2>2 DEF Uncounted
  <2>4. /\ Undispatched' = Undispatched /\ Unscanned' = Unscanned /\ Untold' = Untold
        /\ Unwritten' = Unwritten /\ Unleft' = Unleft
    BY <2>1 DEF Undispatched, Unscanned, Untold, Unwritten, Unleft
  <2> QED BY <2>3, <2>4 DEF NoNewTask, OneTaskLess
<1>6. ASSUME NEW kind \in ToSet(ReportOrder), WriteReport(kind)
      PROVE  NoNewTask /\ OneTaskLess
  <2>1. /\ UNCHANGED <<toScan, worker, next, deps, pc, findings>>
        /\ reports' = reports \cup {kind} /\ kind \notin reports
    BY <1>6 DEF WriteReport, Due
  <2>2. Unwritten' = Unwritten \ {kind} /\ kind \in Unwritten
    BY <2>1 DEF Unwritten
  <2>3. /\ Undispatched' = Undispatched /\ Unscanned' = Unscanned /\ Untold' = Untold
        /\ Uncounted' = Uncounted /\ Unleft' = Unleft
    BY <2>1 DEF Undispatched, Unscanned, Untold, Uncounted, Unleft
  <2> QED BY <2>2, <2>3 DEF NoNewTask, OneTaskLess
<1> QED BY <1>1, <1>2, <1>3, <1>4, <1>5, <1>6 DEF Next, Main

\* With any number of workers and any files a scan that has selected its
\* dependencies is never stuck, in particular no worker waits for a slot that is
\* not given back (ci/concurrency.go parallelScan), and every step ends one of
\* finitely many tasks: no interleaving goes on for ever.
THEOREM ProgressTheorem == Spec => [](NeverStuck /\ TasksAreFinite) /\ EachStepEndsATask
<1>1. CInv /\ PoolShape => NeverStuck /\ TasksAreFinite
  BY PoolIsNeverStuck, TallyIsNeverStuck, TasksFinite DEF NeverStuck
<1>2. CInv /\ PoolShape /\ [Next]_vars =>
        [IF pc = "start" THEN pc' \in {"scan", "done"} ELSE NoNewTask /\ OneTaskLess]_vars
  <2> SUFFICES ASSUME CInv, PoolShape, Next
               PROVE  IF pc = "start" THEN pc' \in {"scan", "done"} ELSE NoNewTask /\ OneTaskLess
    OBVIOUS
  <2>1. CASE pc = "start"
    <3>1. \A j \in DOMAIN worker : worker[j] = "done"
      BY <2>1 DEF PoolShape
    <3>2. Reject \/ SelectNpm \/ SelectPython
      BY <2>1, <3>1 DEF Next, Main, Dispatch, PoolEnds, Tally, WriteReport, ReportFails, Due,
                       Finish, ScanEnds, WorkerDone
    <3>3. ASSUME SelectNpm \/ SelectPython PROVE pc' = "scan"
      BY <3>3, SelectionIsChosen DEF Selected, StartPool
    <3> QED BY <2>1, <3>2, <3>3 DEF Reject, Exit
  <2> QED BY <2>1, StepEndsATask
<1> QED BY <1>1, <1>2, InitCInv, NextKeepsCInv, InitPoolShape, NextKeepsPoolShape, PTL
        DEF Spec, EachStepEndsATask
=============================================================================
