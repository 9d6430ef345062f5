------------------------ MODULE ScanLifecycle_proofs ------------------------
(***************************************************************************)
(* For any number of processes, packages, versions, advisories, requests   *)
(* and valid policies: a result that names a security reason is a block,   *)
(* an analysed artifact's lasting security findings always block, whatever *)
(* package the artifact says it is, a damaged cache file stays damaged,    *)
(* and a cached verdict is judged again under the policy of the request it *)
(* answers (npm and PyPI).                                                 *)
(*                                                                         *)
(* No invariant is inductive by itself: the second one needs that an       *)
(* entry still carries the findings, so that the next judgement sees them, *)
(* and both have to be known of the entries a process has in memory and of *)
(* the stores it has loaded, since a save writes those back.               *)
(***************************************************************************)
EXTENDS ScanLifecycle, TLAPS

-----------------------------------------------------------------------------
(* The judgement. *)

\* The reasons the controls add after they have looked for security reasons
\* are themselves no built-in ones.
LateReasonIDs == {"trusted_package_reduction", "active_exception", "scoped_warn_block"}

LEMMA LateReasonsAreNoSecurity == LateReasonIDs \cap SecurityBlockRuleIDs = {}
  BY DEF LateReasonIDs, SecurityBlockRuleIDs

LEMMA WhenGivesReason ==
    ASSUME NEW c, NEW id, NEW ev, NEW r \in When(c, Reason(id, ev))
    PROVE  r.id = id
  BY DEF When, Reason

\* What a result holds besides the late reasons was known by then.
LEMMA ReasonsWereKnown ==
    ASSUME NEW res, NEW pol, NEW reg, NEW by, NEW env,
           NEW r \in ApplyPolicyControls(res, pol, reg, by, env).reasons,
           r.id \notin LateReasonIDs
    PROVE  r \in ControlReasons(res, pol, reg, by)
  <1> DEFINE b == BeforeExceptions(res, pol, reg, by)
  <1>1. r \notin When(Excepted(b, res.pkg, pol, env), Reason("active_exception", ""))
    BY WhenGivesReason DEF LateReasonIDs
  <1>2. r \notin When(Refused(b, Softened(b, res.pkg, pol, env)),
                      Reason("scoped_warn_block", ""))
    BY WhenGivesReason DEF LateReasonIDs
  <1>3. r \notin When(TrustApplies(res, pol, reg, by),
                      Reason("trusted_package_reduction", "rule"))
    BY WhenGivesReason DEF LateReasonIDs
  <1>4. r \in b.reasons
    <2>1. r \in Conclude(b, res.pkg, pol, env).reasons
      BY DEF ApplyPolicyControls
    <2> HIDE DEF b
    <2> QED
      BY <1>1, <1>2, <2>1 DEF Conclude
  <1> QED
    BY <1>3, <1>4 DEF BeforeExceptions

\* Whatever the controls start from, a result that names a built-in security
\* reason leaves them as a block.
LEMMA SecurityReasonsBlock ==
    ASSUME NEW res, NEW pol, NEW reg, NEW by, NEW env,
           NEW r \in ApplyPolicyControls(res, pol, reg, by, env).reasons,
           r.id \in SecurityBlockRuleIDs
    PROVE  ApplyPolicyControls(res, pol, reg, by, env).decision = "block"
  <1>1. r \in ControlReasons(res, pol, reg, by)
    BY ReasonsWereKnown, LateReasonsAreNoSecurity
  <1>2. IsSecurity(pol, r)
    BY DEF IsSecurity, EnforcementClassFor
  <1> QED
    BY <1>1, <1>2 DEF ApplyPolicyControls, Conclude, Softened, Excepted,
                      BeforeExceptions, ControlDecision, Decide, HasSecurity

\* The controls drop no reason and leave the package alone.
LEMMA ControlsKeepReasons ==
    ASSUME NEW res, NEW pol, NEW reg, NEW by, NEW env
    PROVE  /\ res.reasons \subseteq ApplyPolicyControls(res, pol, reg, by, env).reasons
           /\ ApplyPolicyControls(res, pol, reg, by, env).pkg = res.pkg
  BY DEF ApplyPolicyControls, Conclude, BeforeExceptions, ControlReasons

\* Evaluate keeps every finding whose rule is enabled.
LEMMA EvaluateKeepsFindings ==
    ASSUME NEW pkg, NEW findings, NEW repeats, NEW pol,
           NEW f \in findings, RuleEnabled(pol, f.id)
    PROVE  f \in EvaluateRepeated(pkg, findings, repeats, pol).reasons
  BY DEF EvaluateRepeated

LEMMA EvaluateKeepsPackage ==
    ASSUME NEW pkg, NEW findings, NEW repeats, NEW pol
    PROVE  EvaluateRepeated(pkg, findings, repeats, pol).pkg = pkg
  BY DEF EvaluateRepeated

\* Only an exception, which the result then names, makes a warning of it.
LEMMA BlockedRuleIsExcused ==
    ASSUME NEW res, NEW pol, NEW reg, NEW by, NEW env,
           BlockedByRule(pol, res.pkg, reg),
           ApplyPolicyControls(res, pol, reg, by, env).decision # "block"
    PROVE  /\ ApplyPolicyControls(res, pol, reg, by, env).decision = "warn"
           /\ \E r \in ApplyPolicyControls(res, pol, reg, by, env).reasons :
                 r.id = "active_exception"
  <1> DEFINE b == BeforeExceptions(res, pol, reg, by)
             c == ApplyPolicyControls(res, pol, reg, by, env)
  <1>1. b.decision = "block"
    BY DEF BeforeExceptions, ControlDecision, Decide
  <1>2. c = Conclude(b, res.pkg, pol, env) /\ c.decision # "block"
    BY DEF ApplyPolicyControls
  <1> HIDE DEF b, c
  <1>3. Excepted(b, res.pkg, pol, env) /\ c.decision = "warn"
    BY <1>1, <1>2 DEF Conclude, Softened
  <1>4. Reason("active_exception", "") \in c.reasons
    BY <1>2, <1>3 DEF Conclude, When
  <1>5. Reason("active_exception", "").id = "active_exception"
    BY DEF Reason
  <1> QED
    BY <1>3, <1>4, <1>5 DEF c

-----------------------------------------------------------------------------
(* The lifecycle of a result. *)

LastingFindings(a) == {f \in StaticFindings[a] : f.id \in Lasting}

\* The findings hold what the analyses found that lasts.
Covered(analysed, findings) == \A a \in analysed : LastingFindings(a) \subseteq findings

\* What is kept of every entry.
Good(e) ==
    /\ SecurityReasons(e) # {} => e.result.decision = "block"
    /\ Covered(e.analysed, e.result.reasons)

GoodStore(s) ==
    /\ s = [k \in Keys |-> s[k]]
    /\ \A k \in Keys : s[k] # NoEntry => Good(s[k])

Steps == {"idle", "scan", "save", "write", "fill"}
Saving(p) == pc[p] \in {"save", "write", "fill"}

\* The types the steps depend on.
Shape ==
    /\ policy \in Policies
    /\ pc \in [Procs -> Steps] /\ req = [p \in Procs |-> req[p]]
    /\ out = [p \in Procs |-> out[p]] /\ snap = [p \in Procs |-> snap[p]]
    /\ \A p \in Procs : pc[p] = "scan" =>
          /\ req[p].pol \in Policies /\ req[p].name \in Names
          /\ req[p].version \in Versions \cup {NoVersion}

IInv ==
    /\ Shape
    /\ GoodStore(store)
    /\ \A p \in Procs : Saving(p) => Good(out[p])
    /\ \A p \in Procs : ~Saving(p) => out[p] = NoEntry
    /\ \A p \in Procs : pc[p] \in {"write", "fill"} => GoodStore(snap[p])

-----------------------------------------------------------------------------
\* Every valid policy enables the rules of the lasting findings.
LEMMA LastingRulesEnabled ==
    ASSUME NEW pol \in Policies, NEW f, f.id \in Lasting
    PROVE  RuleEnabled(pol, f.id)
  BY PoliciesAreValid DEF SoundPolicy, Lasting

LEMMA RequiredIsSecurity == RequiredSecurityBlockRuleIDs \subseteq SecurityBlockRuleIDs
  BY DEF RequiredSecurityBlockRuleIDs, SecurityBlockRuleIDs

\* Judging findings that include the lasting ones of an artifact gives a good
\* entry, whatever package they are judged as.
LEMMA JudgeIsGood ==
    ASSUME NEW request, request.pol \in Policies, NEW pkg, NEW findings, NEW repeats,
           NEW analysed, Covered(analysed, findings)
    PROVE  Good(Entry(Judge(request, pkg, findings, repeats), analysed))
  <1> DEFINE pol       == request.pol
             evaluated == EvaluateRepeated(pkg, findings, repeats, pol)
             judged    == Judge(request, pkg, findings, repeats)
             reg       == RegistryOf(request)
  <1>1. judged = ApplyPolicyControls(evaluated, pol, reg, "human", "developer")
    BY DEF Judge, ControlFor
  <1>2. judged.pkg = pkg /\ evaluated.reasons \subseteq judged.reasons
    BY <1>1, ControlsKeepReasons, EvaluateKeepsPackage
  <1>3. ASSUME NEW r \in judged.reasons, r.id \in SecurityBlockRuleIDs
        PROVE  judged.decision = "block"
    BY <1>1, <1>3, SecurityReasonsBlock
  <1>4. ASSUME NEW a \in analysed, NEW f \in LastingFindings(a)
        PROVE  f \in judged.reasons
    <2>1. f \in findings /\ f.id \in Lasting
      BY <1>4 DEF LastingFindings, Covered
    <2>2. f \in evaluated.reasons
      BY <2>1, LastingRulesEnabled, EvaluateKeepsFindings
    <2> QED
      BY <2>2, <1>2
  <1> HIDE DEF evaluated, judged, reg
  <1>5. Good(Entry(judged, analysed))
    BY <1>3, <1>4 DEF Good, Covered, Entry, SecurityReasons
  <1> QED
    BY <1>5 DEF judged

\* Applying the controls again to a good entry leaves it good.
LEMMA ControlsKeepGood ==
    ASSUME NEW e, Good(e), NEW request
    PROVE  Good(Entry(ControlFor(request, e.result), e.analysed))
  <1> DEFINE again == ControlFor(request, e.result)
  <1>1. e.result.reasons \subseteq again.reasons
    BY ControlsKeepReasons DEF ControlFor
  <1>2. ASSUME NEW r \in again.reasons, r.id \in SecurityBlockRuleIDs
        PROVE  again.decision = "block"
    BY <1>2, SecurityReasonsBlock DEF ControlFor
  <1> HIDE DEF again
  <1>3. Good(Entry(again, e.analysed))
    BY <1>1, <1>2 DEF Good, Covered, Entry, SecurityReasons
  <1> QED
    BY <1>3 DEF again

\* Stripping removes no lasting finding.
LEMMA StripKeepsLasting ==
    ASSUME NEW reasons, NEW f \in reasons, f.id \in Lasting
    PROVE  f \in StripPolicyGeneratedReasons(reasons)
  BY DEF StripPolicyGeneratedReasons, Lasting

-----------------------------------------------------------------------------
\* A request that obtains a good entry keeps the invariant.
LEMMA ObtainKeepsIInv ==
    ASSUME IInv, NEW p \in Procs, NEW e, Good(e), Obtain(p, e)
    PROVE  IInv'
  BY DEF IInv, Shape, Saving, Steps, Obtain, GoodStore, fileVars

\* So does a request that ends, if the store is left good.
LEMMA FinishKeepsIInv ==
    ASSUME IInv, NEW p \in Procs, Finish(p), GoodStore(store')
    PROVE  IInv'
  BY DEF IInv, Shape, Saving, Steps, Finish, GoodStore, envVars

LEMMA FailKeepsIInv ==
    ASSUME IInv, NEW p \in Procs, Fail(p)
    PROVE  IInv'
  <1>1. Finish(p) /\ GoodStore(store')
    BY DEF Fail, fileVars, IInv, GoodStore
  <1> QED
    BY <1>1, FinishKeepsIInv

\* What the cache answers is good.
LEMMA GetIsGood ==
    ASSUME IInv, NEW name \in Names, NEW version \in Versions \cup {NoVersion},
           Get(name, version) # NoEntry
    PROVE  Good(Get(name, version))
  BY DEF IInv, GoodStore, Get, Keys

-----------------------------------------------------------------------------
LEMMA InitIInv == Init => IInv
  BY DEF Init, IInv, Shape, Saving, Steps, GoodStore

LEMMA StartKeepsIInv ==
    ASSUME IInv, NEW p \in Procs, Start(p)
    PROVE  IInv'
  <1>1. PICK name \in Names, version \in Versions \cup {NoVersion}, offline \in BOOLEAN :
            req' = [req EXCEPT ![p] = [name |-> name, version |-> version,
                                       offline |-> offline, pol |-> policy]]
    BY DEF Start
  <1> QED
    BY <1>1 DEF IInv, Shape, Saving, Steps, Start, GoodStore, envVars, fileVars

\* An online npm or PyPI scan: the lasting findings of the artifact survive
\* the strip and are judged.
LEMMA ScanOnlineKeepsIInv ==
    ASSUME IInv, NEW p \in Procs, ScanOnline(p)
    PROVE  IInv'
  <1> DEFINE name    == req[p].name
             version == IF req[p].version = NoVersion THEN Latest[name] ELSE req[p].version
             a       == <<name, version>>
             pkg     == Pkg(Declared[a][1], Declared[a][2])
             findings(behavior, vulns) ==
                 StripPolicyGeneratedReasons(StaticFindings[a] \cup behavior) \cup vulns
  <1>1. PICK behavior, vulns, repeats :
            Obtain(p, Entry(Judge(req[p], pkg, findings(behavior, vulns), repeats), {a}))
    BY Zenon DEF ScanOnline
  <1>2. \A f \in LastingFindings(a) : f \in findings(behavior, vulns)
    BY StripKeepsLasting DEF LastingFindings
  <1>3. Covered({a}, findings(behavior, vulns))
    <2> HIDE DEF a, findings
    <2> QED
      BY <1>2 DEF Covered
  <1>4. req[p].pol \in Policies
    BY DEF ScanOnline, Scanning, IInv, Shape
  <1> HIDE DEF findings, pkg, a
  <1>5. Good(Entry(Judge(req[p], pkg, findings(behavior, vulns), repeats), {a}))
    BY <1>3, <1>4, JudgeIsGood
  <1> QED
    BY <1>1, <1>5, ObtainKeepsIInv

\* An offline npm or PyPI scan: the stored entry is judged again, or only the
\* controls are applied again.
LEMMA ScanOfflineKeepsIInv ==
    ASSUME IInv, NEW p \in Procs, ScanOffline(p)
    PROVE  IInv'
  <1> DEFINE hit == Get(req[p].name, req[p].version)
             old == hit.result
             findings == StripPolicyGeneratedReasons(old.reasons)
                           \cup InDatabase(old.pkg.name, old.pkg.version)
             rejudged == Judge(req[p], old.pkg, findings, {})
             again == ControlFor(req[p], old)
  <1>1. \/ Obtain(p, Entry(rejudged, hit.analysed))
        \/ Obtain(p, Entry(again, hit.analysed))
    BY DEF ScanOffline
  <1>2. Good(hit) /\ req[p].pol \in Policies
    BY GetIsGood DEF ScanOffline, Scanning, IInv, Shape
  <1>3. Good(Entry(again, hit.analysed))
    <2> HIDE DEF hit
    <2> QED
      BY <1>2, ControlsKeepGood
  <1>4. Good(Entry(rejudged, hit.analysed))
    <2>1. Covered(hit.analysed, findings)
      <3> HIDE DEF hit
      <3> QED
        BY <1>2, StripKeepsLasting DEF Good, Covered, LastingFindings
    <2> HIDE DEF findings, hit
    <2> QED
      BY <1>2, <2>1, JudgeIsGood
  <1> HIDE DEF rejudged, again
  <1> QED
    BY <1>1, <1>3, <1>4, ObtainKeepsIInv

\* Go and Cargo: a hit is returned as it is, a miss is judged.
LEMMA ModuleScansKeepIInv ==
    ASSUME IInv, NEW p \in Procs,
           CacheHit(p) \/ ScanModuleOnline(p) \/ ScanModuleOffline(p)
    PROVE  IInv'
  <1>1. CASE CacheHit(p)
    <2>1. Good(Get(req[p].name, req[p].version))
      BY <1>1, GetIsGood DEF CacheHit, Scanning, IInv, Shape
    <2> QED
      BY <1>1, <2>1, ObtainKeepsIInv DEF CacheHit
  <1>2. CASE ScanModuleOnline(p)
    <2> DEFINE pkg == Pkg(req[p].name, req[p].version)
               findings(from, vulns) == (UNION {StaticFindings[a] : a \in from}) \cup vulns
               Artifact(analysed) == IF analysed THEN {<<pkg.name, pkg.version>>} ELSE {}
               Vulns(answered) == OSVFindings(pkg.name, pkg.version, answered)
    <2>1. PICK from, vulns : Obtain(p, Entry(Judge(req[p], pkg, findings(from, vulns), {}), from))
      <3>1. PICK answered \in BOOLEAN, analysed \in BOOLEAN :
              Obtain(p, Entry(Judge(req[p], pkg,
                                    findings(Artifact(analysed), Vulns(answered)), {}),
                              Artifact(analysed)))
        BY <1>2, Zenon DEF ScanModuleOnline
      <3> HIDE DEF pkg, findings, Artifact, Vulns
      <3> QED
        BY <3>1, Zenon
    <2>2. Covered(from, findings(from, vulns))
      BY DEF LastingFindings, Covered
    <2>3. req[p].pol \in Policies
      BY <1>2 DEF ScanModuleOnline, CacheMiss, Scanning, IInv, Shape
    <2> HIDE DEF pkg, findings
    <2>4. Good(Entry(Judge(req[p], pkg, findings(from, vulns), {}), from))
      BY <2>2, <2>3, JudgeIsGood
    <2> QED
      BY <2>1, <2>4, ObtainKeepsIInv
  <1>3. CASE ScanModuleOffline(p)
    <2>1. req[p].pol \in Policies
      BY <1>3 DEF ScanModuleOffline, CacheMiss, Scanning, IInv, Shape
    <2>2. Good(Entry(Judge(req[p], Pkg(req[p].name, req[p].version), {}, {}), {}))
      BY <2>1, JudgeIsGood DEF Covered
    <2> QED
      BY <1>3, <2>2, ObtainKeepsIInv DEF ScanModuleOffline
  <1> QED
    BY <1>1, <1>2, <1>3

\* The two stubs name no security reason and go back to no analysis.
LEMMA StubsKeepIInv ==
    ASSUME IInv, NEW p \in Procs, InterceptListed(p) \/ CIDirectURL(p)
    PROVE  IInv'
  <1>1. ASSUME NEW pkg, NEW score, NEW decision, NEW id, NEW ev,
               id \notin SecurityBlockRuleIDs
        PROVE  Good(Entry([pkg |-> pkg, score |-> score, decision |-> decision,
                           reasons |-> {Reason(id, ev)}], {}))
    BY <1>1 DEF Good, Covered, Entry, SecurityReasons, Reason
  <1>2. /\ "blocked_package" \notin SecurityBlockRuleIDs
        /\ "direct_url_dependency_not_scanned" \notin SecurityBlockRuleIDs
    BY DEF SecurityBlockRuleIDs
  <1>3. CASE InterceptListed(p)
    BY <1>1, <1>2, <1>3, ObtainKeepsIInv DEF InterceptListed
  <1>4. CASE CIDirectURL(p)
    BY <1>1, <1>2, <1>4, ObtainKeepsIInv DEF CIDirectURL
  <1> QED
    BY <1>3, <1>4

\* Saving writes back a store that was good when it was loaded, with one more
\* good entry; a crash writes nothing.
LEMMA SaveKeepsIInv ==
    ASSUME IInv, NEW p \in Procs, Save(p) \/ Crash(p)
    PROVE  IInv'
  <1>1. CASE SaveLoad(p)
    BY <1>1 DEF SaveLoad, IInv, Shape, Saving, Steps, GoodStore, envVars, fileVars
  <1>2. CASE SaveRefused(p)
    BY <1>2, FailKeepsIInv DEF SaveRefused
  <1>3. CASE SaveTruncate(p)
    BY <1>3 DEF SaveTruncate, IInv, Shape, Saving, Steps, GoodStore, envVars
  <1>4. CASE SaveWrite(p)
    <2>1. Finish(p) /\ GoodStore(snap[p]) /\ Good(out[p])
      BY <1>4 DEF SaveWrite, IInv, Saving
    <2>2. GoodStore(store')
      BY <1>4, <2>1 DEF SaveWrite, GoodStore
    <2> QED
      BY <2>1, <2>2, FinishKeepsIInv
  <1>5. CASE Crash(p)
    <2>1. Finish(p) /\ GoodStore(store')
      BY <1>5 DEF Crash, IInv, GoodStore
    <2> QED
      BY <2>1, FinishKeepsIInv
  <1> QED
    BY <1>1, <1>2, <1>3, <1>4, <1>5 DEF Save

LEMMA NextKeepsIInv == IInv /\ [Next]_vars => IInv'
  <1> SUFFICES ASSUME IInv, [Next]_vars PROVE IInv'
    OBVIOUS
  <1>1. CASE EditPolicy \/ Publish \/ UpdateDB
    BY <1>1 DEF EditPolicy, Publish, UpdateDB, IInv, Shape, Saving, Steps, GoodStore, fileVars
  <1>2. CASE \E p \in Procs : Process(p)
    <2> PICK p \in Procs : Process(p)
      BY <1>2
    <2>1. CASE ScanFails(p) \/ ScanOfflineMiss(p)
      BY <2>1, FailKeepsIInv DEF ScanFails, ScanOfflineMiss
    <2> QED
      BY <2>1, StartKeepsIInv, ScanOnlineKeepsIInv, ScanOfflineKeepsIInv,
         ModuleScansKeepIInv, StubsKeepIInv, SaveKeepsIInv DEF Process, Scan
  <1>3. CASE UNCHANGED vars
    BY <1>3 DEF vars, IInv, Shape, Saving, Steps, GoodStore
  <1> QED
    BY <1>1, <1>2, <1>3 DEF Next

LEMMA Invariance == Spec => []IInv
  BY InitIInv, NextKeepsIInv, PTL DEF Spec

-----------------------------------------------------------------------------
\* Whatever is held is good.
LEMMA HeldIsGood == IInv => \A e \in Held : Good(e)
  <1> SUFFICES ASSUME IInv, NEW e \in Held PROVE Good(e)
    OBVIOUS
  <1>1. CASE \E k \in Keys : e = store[k]
    BY <1>1 DEF IInv, Held, GoodStore
  <1>2. CASE \E p \in Procs : e = out[p]
    BY <1>2 DEF IInv, Held
  <1>3. CASE \E p \in Procs : pc[p] \in {"write", "fill"} /\ \E k \in Keys : e = snap[p][k]
    BY <1>3 DEF IInv, Held, GoodStore
  <1> QED
    BY <1>1, <1>2, <1>3 DEF Held

\* No result that names a security reason is ever anything but a block, for
\* every set of policies the validation accepts and every interleaving of the
\* processes that share the cache.
THEOREM SecurityNeverCleanHolds == Spec => []SecurityNeverClean
  <1>1. IInv => SecurityNeverClean
    BY HeldIsGood DEF SecurityNeverClean, Good
  <1> QED
    BY <1>1, Invariance, PTL

\* What the analysis of an artifact found that every policy must block on is
\* blocked by every result that goes back to it, under whatever name the artifact
\* was asked for and under whatever name it is stored.
THEOREM FindingNeverLaunderedHolds == Spec => []FindingNeverLaundered
  <1>1. ASSUME IInv, NEW e \in Held, NEW a \in e.analysed,
               NEW f \in StaticFindings[a], f.id \in Lasting
        PROVE  e.result.decision = "block"
    <2>1. Good(e)
      BY <1>1, HeldIsGood
    <2>2. f \in SecurityReasons(e)
      BY <1>1, <2>1, RequiredIsSecurity
      DEF Good, Covered, LastingFindings, SecurityReasons, Lasting
    <2> QED
      BY <2>1, <2>2 DEF Good
  <1>2. IInv => FindingNeverLaundered
    BY <1>1 DEF FindingNeverLaundered
  <1> QED
    BY <1>2, Invariance, PTL

-----------------------------------------------------------------------------
(* The cache's file.                                                       *)

Damaged == file # "ok" /\ \A p \in Procs : pc[p] \notin {"write", "fill"}

\* The steps of one process while nobody is past the load of a save.
LEMMA ProcessLeavesDamage ==
    ASSUME IInv, Damaged, NEW p \in Procs, Process(p)
    PROVE  Damaged'
  <1>1. pc[p] \notin {"write", "fill"} /\ file # "ok"
    BY DEF Damaged
  <1>2. /\ file' = file
        /\ \E step \in {"idle", "scan", "save"} : pc' = [pc EXCEPT ![p] = step]
    <2>1. CASE Start(p)
      BY <2>1 DEF Start, fileVars
    <2>2. CASE \E e : Obtain(p, e)
      BY <2>2 DEF Obtain, fileVars
    <2>3. CASE Fail(p)
      BY <2>3 DEF Fail, Finish, fileVars
    <2>4. CASE Crash(p)
      BY <2>4, <1>1 DEF Crash, Finish
    <2>5. Scan(p) => Fail(p) \/ \E e : Obtain(p, e)
      BY Zenon DEF Scan, ScanFails, ScanOnline, ScanOffline, ScanOfflineMiss, CacheHit,
                   ScanModuleOnline, ScanModuleOffline, InterceptListed, CIDirectURL
    <2>6. Save(p) => Fail(p)
      BY <1>1 DEF Save, SaveLoad, SaveRefused, SaveTruncate, SaveWrite
    <2> QED
      BY <2>1, <2>2, <2>3, <2>4, <2>5, <2>6 DEF Process
  <1> QED
    BY <1>2 DEF Damaged, IInv, Shape

\* A damaged cache file is never repaired, by any number of processes: every
\* save starts with a load, and no load accepts the file (cache.go Load, Save).
THEOREM DamageIsPermanentHolds == Spec => DamageIsPermanent
  <1>1. ASSUME IInv, [Next]_vars, Damaged PROVE Damaged'
    <2>1. CASE EditPolicy \/ Publish \/ UpdateDB \/ UNCHANGED vars
      BY <1>1, <2>1 DEF EditPolicy, Publish, UpdateDB, vars, fileVars, Damaged
    <2> QED
      BY <1>1, <2>1, ProcessLeavesDamage DEF Next
  <1>2. IInv /\ [Next]_vars =>
          [file # "ok" /\ (\A p \in Procs : pc[p] \notin {"write", "fill"})
            => file' # "ok" /\ (\A p \in Procs : pc'[p] \notin {"write", "fill"})]_vars
    BY <1>1 DEF Damaged
  <1> QED
    BY <1>2, Invariance, PTL DEF Spec, DamageIsPermanent

-----------------------------------------------------------------------------
(* What a cached verdict is worth under another policy.                    *)

\* The result obtained for a request stands under the policy of the request.
Stands(e, request) ==
    BlockedByRule(request.pol, e.result.pkg, RegistryOf(request))
      => e.result.decision \in {"block", "unknown"} \/ Excused(e)

\* Whatever the controls were applied to last stands.
LEMMA ControlledStands ==
    ASSUME NEW request, NEW res, NEW analysed
    PROVE  Stands(Entry(ControlFor(request, res), analysed), request)
  <1> DEFINE c == ControlFor(request, res)
  <1>1. c.pkg = res.pkg
    BY ControlsKeepReasons DEF ControlFor
  <1>2. BlockedByRule(request.pol, res.pkg, RegistryOf(request))
          => c.decision = "block" \/ \E r \in c.reasons : r.id = "active_exception"
    BY BlockedRuleIsExcused DEF ControlFor
  <1> HIDE DEF c
  <1>3. Stands(Entry(c, analysed), request)
    BY <1>1, <1>2 DEF Stands, Entry, Excused
  <1> QED
    BY <1>3 DEF c

LEMMA JudgedStands ==
    ASSUME NEW request, NEW pkg, NEW findings, NEW repeats, NEW analysed
    PROVE  Stands(Entry(Judge(request, pkg, findings, repeats), analysed), request)
  BY ControlledStands DEF Judge

\* Every way an npm or PyPI request obtains its result ends in the controls, or in a stub.
LEMMA ObtainedStands ==
    ASSUME NEW p \in Procs, Scan(p), Ecosystem[req[p].name] \in {"npm", "pypi"}
    PROVE  Fail(p) \/ \E e : Obtain(p, e) /\ Stands(e, req[p])
  <1>1. CASE ScanFails(p) \/ ScanOfflineMiss(p)
    BY <1>1, Zenon DEF ScanFails, ScanOfflineMiss
  <1>2. CASE ScanOnline(p)
    <2>1. \E pkg, findings, repeats, analysed :
            Obtain(p, Entry(Judge(req[p], pkg, findings, repeats), analysed))
      BY <1>2, Zenon DEF ScanOnline
    <2> QED
      BY <2>1, JudgedStands
  <1>3. CASE ScanOffline(p)
    <2> DEFINE hit == Get(req[p].name, req[p].version)
    <2>1. \/ \E pkg, findings : Obtain(p, Entry(Judge(req[p], pkg, findings, {}), hit.analysed))
          \/ \E res : Obtain(p, Entry(ControlFor(req[p], res), hit.analysed))
      BY <1>3 DEF ScanOffline
    <2> HIDE DEF hit
    <2> QED
      BY <2>1, JudgedStands, ControlledStands
  <1>4. CASE CacheHit(p) \/ ScanModuleOnline(p) \/ ScanModuleOffline(p)
    BY <1>4 DEF CacheHit, ScanModuleOnline, ScanModuleOffline, CacheMiss, Scanning
  <1>5. CASE InterceptListed(p) \/ CIDirectURL(p)
    <2>1. \E pkg, score, reasons : \E decision \in {"block", "unknown"} :
            Obtain(p, Entry([pkg |-> pkg, score |-> score, decision |-> decision,
                             reasons |-> reasons], {}))
      BY <1>5, Zenon DEF InterceptListed, CIDirectURL
    <2>2. ASSUME NEW pkg, NEW score, NEW reasons, NEW decision \in {"block", "unknown"}
          PROVE  Stands(Entry([pkg |-> pkg, score |-> score, decision |-> decision,
                               reasons |-> reasons], {}), req[p])
      BY DEF Stands, Entry
    <2> QED
      BY <2>1, <2>2
  <1> QED
    BY <1>1, <1>2, <1>3, <1>4, <1>5 DEF Scan

\* A request that is saved was judged under its own policy.
JInv == \A p \in Procs :
    pc[p] = "save" /\ Ecosystem[req[p].name] \in {"npm", "pypi"} => Stands(out[p], req[p])

LEMMA ProcessKeepsJInv ==
    ASSUME IInv, JInv, NEW p \in Procs, Process(p)
    PROVE  JInv'
  <1>1. /\ \A q \in Procs \ {p} : pc'[q] = pc[q] /\ req'[q] = req[q] /\ out'[q] = out[q]
        /\ pc'[p] = "save" => Scan(p)
    <2>1. CASE Start(p)
      BY <2>1 DEF Start, IInv, Shape
    <2>2. CASE Scan(p)
      <3>1. Fail(p) \/ \E e : Obtain(p, e)
        BY <2>2, Zenon DEF Scan, ScanFails, ScanOnline, ScanOffline, ScanOfflineMiss, CacheHit,
                           ScanModuleOnline, ScanModuleOffline, InterceptListed, CIDirectURL
      <3> QED
        BY <2>2, <3>1 DEF Fail, Finish, Obtain, IInv, Shape
    <2>3. CASE Save(p) \/ Crash(p)
      BY <2>3 DEF Save, SaveLoad, SaveRefused, SaveTruncate, SaveWrite, Crash, Fail, Finish,
                  IInv, Shape
    <2> QED
      BY <2>1, <2>2, <2>3 DEF Process
  <1>2. ASSUME pc'[p] = "save", Ecosystem[req'[p].name] \in {"npm", "pypi"}
        PROVE  Stands(out'[p], req'[p])
    <2>1. pc'[p] # "idle" /\ Scan(p)
      BY <1>1, <1>2
    <2>2. ~Fail(p)
      BY <2>1 DEF Fail, Finish, IInv, Shape
    <2>3. PICK e : Obtain(p, e)
      BY <2>1, <2>2, Zenon DEF Scan, ScanFails, ScanOnline, ScanOffline, ScanOfflineMiss, CacheHit,
                         ScanModuleOnline, ScanModuleOffline, InterceptListed, CIDirectURL
    <2>4. req' = req
      BY <2>3 DEF Obtain
    <2>5. \E f : Obtain(p, f) /\ Stands(f, req[p])
      BY <1>2, <2>1, <2>2, <2>4, ObtainedStands
    <2> QED
      BY <2>4, <2>5 DEF Obtain, IInv, Shape
  <1> QED
    BY <1>1, <1>2 DEF JInv, Stands, Excused

LEMMA NextKeepsJInv == IInv /\ JInv /\ [Next]_vars => JInv'
  <1> SUFFICES ASSUME IInv, JInv, [Next]_vars PROVE JInv'
    OBVIOUS
  <1>1. CASE EditPolicy \/ Publish \/ UpdateDB \/ UNCHANGED vars
    <2>1. UNCHANGED <<pc, req, out>>
      BY <1>1 DEF EditPolicy, Publish, UpdateDB, vars, fileVars
    <2> QED
      BY <2>1 DEF JInv, Stands, Excused
  <1> QED
    BY <1>1, ProcessKeepsJInv DEF Next

\* npm and PyPI judge a cached result again under the policy of the request, on line and
\* off, with the advisory database or without: a blocked-package rule decides the result
\* unless an exception, named in it, excuses the package (npm and pypi scanner.go).
THEOREM CachedVerdictIsRejudgedHolds == Spec => []CachedVerdictIsRejudged
  <1>1. Init => JInv
    BY DEF Init, JInv
  <1>2. JInv => CachedVerdictIsRejudged
    BY DEF JInv, CachedVerdictIsRejudged, Stands, RuleBlocks
  <1> QED
    BY <1>1, <1>2, NextKeepsJInv, Invariance, PTL DEF Spec
=============================================================================
