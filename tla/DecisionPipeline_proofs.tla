----------------------- MODULE DecisionPipeline_proofs -----------------------
(***************************************************************************)
(* What a scan decides under every policy that policy files can make of    *)
(* the built-in one, for all packages, findings, advisories, registries    *)
(* and callers.  First the policy: no file, and no two of them, weaken its *)
(* security rules.  Then the decision: a finding of such a rule blocks, in *)
(* the first scan and in the rescan, and nothing the policy holds helps.   *)
(* Then what the MCP server makes of that decision: whichever tool a       *)
(* coding agent asks, the block reaches the advice it is given, and every  *)
(* request of a session is answered, in order.                             *)
(***************************************************************************)
EXTENDS DecisionPipeline, AgentServer, TLAPS

-----------------------------------------------------------------------------
(* The controls, for every package, policy, registry and score.  Nothing    *)
(* here depends on the arithmetic of the scores: the guarantees PkgSafe     *)
(* gives about security reasons come from the order of the controls alone.  *)

\* The reasons the controls add after they have looked for security reasons
\* are themselves no built-in ones.
LateReasonIDs == {"trusted_package_reduction", "active_exception", "scoped_warn_block"}

LEMMA LateReasonsAreNoSecurity == LateReasonIDs \cap SecurityBlockRuleIDs = {}
  BY DEF LateReasonIDs, SecurityBlockRuleIDs

LEMMA WhenGivesReason ==
    ASSUME NEW c, NEW id, NEW ev, NEW r \in When(c, Reason(id, ev))
    PROVE  r.id = id
  BY DEF When, Reason

\* A security reason among those known when they are looked for is recorded as
\* such, blocks, and rules out any exception.
LEMMA KnownSecurityBlocks ==
    ASSUME NEW given, NEW pol, NEW reg, NEW by, NEW env,
           NEW r \in ControlReasons(given, pol, reg, by), IsSecurity(pol, r)
    PROVE  ApplyPolicyControls(given, pol, reg, by, env).decision = "block"
  <1> DEFINE b == BeforeExceptions(given, pol, reg, by)
  <1>1. HasSecurity(pol, ControlReasons(given, pol, reg, by))
    BY DEF HasSecurity
  <1>2. ControlDecision(given, pol, reg, by) = "block"
    BY <1>1 DEF ControlDecision, Decide
  <1>3. b.security /\ b.decision = "block"
    BY <1>1, <1>2 DEF BeforeExceptions
  <1>4. ~Excepted(b, given.pkg, pol, env)
    BY <1>3 DEF Excepted
  <1> QED
    BY <1>3, <1>4 DEF ApplyPolicyControls, Conclude, Softened

\* What a result holds besides the late reasons was known by then.
LEMMA ReasonsWereKnown ==
    ASSUME NEW given, NEW pol, NEW reg, NEW by, NEW env,
           NEW r \in ApplyPolicyControls(given, pol, reg, by, env).reasons,
           r.id \notin LateReasonIDs
    PROVE  r \in ControlReasons(given, pol, reg, by)
  <1> DEFINE b == BeforeExceptions(given, pol, reg, by)
  <1>1. r \notin When(Excepted(b, given.pkg, pol, env), Reason("active_exception", ""))
    BY WhenGivesReason DEF LateReasonIDs
  <1>2. r \notin When(Refused(b, Softened(b, given.pkg, pol, env)),
                      Reason("scoped_warn_block", ""))
    BY WhenGivesReason DEF LateReasonIDs
  <1>3. r \notin When(TrustApplies(given, pol, reg, by),
                      Reason("trusted_package_reduction", "rule"))
    BY WhenGivesReason DEF LateReasonIDs
  <1>4. r \in b.reasons
    <2>1. r \in Conclude(b, given.pkg, pol, env).reasons
      BY DEF ApplyPolicyControls
    <2> HIDE DEF b
    <2> QED
      BY <1>1, <1>2, <2>1 DEF Conclude
  <1> QED
    BY <1>3, <1>4 DEF BeforeExceptions

\* Whatever the controls start from, a result that names a built-in security
\* reason leaves them as a block.
THEOREM SecurityReasonsBlock ==
    ASSUME NEW given, NEW pol, NEW reg, NEW by, NEW env,
           NEW r \in ApplyPolicyControls(given, pol, reg, by, env).reasons,
           r.id \in SecurityBlockRuleIDs
    PROVE  ApplyPolicyControls(given, pol, reg, by, env).decision = "block"
  <1>1. r \in ControlReasons(given, pol, reg, by)
    BY ReasonsWereKnown, LateReasonsAreNoSecurity
  <1>2. IsSecurity(pol, r)
    BY DEF IsSecurity, EnforcementClassFor
  <1> QED
    BY <1>1, <1>2, KnownSecurityBlocks

\* The controls drop no reason and leave the package alone.
LEMMA ControlsKeepReasons ==
    ASSUME NEW given, NEW pol, NEW reg, NEW by, NEW env
    PROVE  /\ given.reasons \subseteq ApplyPolicyControls(given, pol, reg, by, env).reasons
           /\ ApplyPolicyControls(given, pol, reg, by, env).pkg = given.pkg
  BY DEF ApplyPolicyControls, Conclude, BeforeExceptions, ControlReasons

\* Evaluate keeps every finding whose rule is enabled.
LEMMA EvaluateKeepsFindings ==
    ASSUME NEW pkg, NEW findings, NEW repeats, NEW pol,
           NEW f \in findings, RuleEnabled(pol, f.id)
    PROVE  f \in EvaluateRepeated(pkg, findings, repeats, pol).reasons
  BY DEF EvaluateRepeated

LEMMA EvaluateKeepsPackage ==
    ASSUME NEW pkg, NEW findings, NEW repeats, NEW pol
    PROVE  EvaluateRepeated(pkg, findings, repeats, pol).pkg = pkg
  BY DEF EvaluateRepeated

\* An exception softens a block and nothing else: without a block there is
\* none to apply, and with one the controls still do not allow.
THEOREM ExceptionNeverAllows ==
    ASSUME NEW given, NEW pol, NEW reg, NEW by, NEW env,
           BeforeExceptions(given, pol, reg, by).decision = "block"
    PROVE  ApplyPolicyControls(given, pol, reg, by, env).decision \in {"warn", "block"}
  <1> DEFINE b == BeforeExceptions(given, pol, reg, by)
  <1>1. b.decision = "block"
    OBVIOUS
  <1> QED
    BY <1>1 DEF ApplyPolicyControls, Conclude, Softened

\* A package under a live blocked-package rule is never allowed, whatever its
\* score, the trust it enjoys and the scoped rules that lower it.
THEOREM BlockedRuleNeverAllows ==
    ASSUME NEW given, NEW pol, NEW reg, NEW by, NEW env,
           NEW rule \in pol.blockedRules, RuleMatches(rule, given.pkg, reg)
    PROVE  ApplyPolicyControls(given, pol, reg, by, env).decision \in {"warn", "block"}
  <1>1. BeforeExceptions(given, pol, reg, by).decision = "block"
    BY DEF BeforeExceptions, ControlDecision, BlockedByRule, Decide
  <1> QED
    BY <1>1, ExceptionNeverAllows

\* Only an exception, which the result then names, makes a warning of it.
LEMMA BlockedRuleIsExcused ==
    ASSUME NEW given, NEW pol, NEW reg, NEW by, NEW env,
           BlockedByRule(pol, given.pkg, reg),
           ApplyPolicyControls(given, pol, reg, by, env).decision # "block"
    PROVE  /\ ApplyPolicyControls(given, pol, reg, by, env).decision = "warn"
           /\ \E r \in ApplyPolicyControls(given, pol, reg, by, env).reasons :
                 r.id = "active_exception"
  <1> DEFINE b == BeforeExceptions(given, pol, reg, by)
             c == ApplyPolicyControls(given, pol, reg, by, env)
  <1>1. b.decision = "block"
    BY DEF BeforeExceptions, ControlDecision, Decide
  <1>2. c = Conclude(b, given.pkg, pol, env) /\ c.decision # "block"
    BY DEF ApplyPolicyControls
  <1> HIDE DEF b, c
  <1>3. Excepted(b, given.pkg, pol, env) /\ c.decision = "warn"
    BY <1>1, <1>2 DEF Conclude, Softened
  <1>4. Reason("active_exception", "") \in c.reasons
    BY <1>2, <1>3 DEF Conclude, When
  <1>5. Reason("active_exception", "").id = "active_exception"
    BY DEF Reason
  <1> QED
    BY <1>3, <1>4, <1>5 DEF c

-----------------------------------------------------------------------------

\* What every resolved policy is.
Resolved(pol) ==
    /\ DOMAIN pol = PolicyFields
    /\ DOMAIN pol.rules = KnownRules
    /\ SoundPolicy(pol)

-----------------------------------------------------------------------------
(* The resolution of the policy. *)

LEMMA RulesAreKnown ==
    /\ RequiredSecurityBlockRuleIDs \cup {"blocked_package"} \subseteq KnownRules
    /\ \A id \in KnownRules : \E score \in Scores : id \in RulesWorth(score)
  <1>1. RequiredSecurityBlockRuleIDs \cup {"blocked_package"} \subseteq RulesWorth(100)
    BY DEF RulesWorth, CriticalRules
  <1>2. 100 \in Scores
    BY DEF Scores
  <1> QED
    BY <1>1, <1>2 DEF KnownRules

\* The required rules are worth 100 points and nothing else.
LEMMA RequiredAreCritical ==
    ASSUME NEW id \in RequiredSecurityBlockRuleIDs \cup {"blocked_package"}
    PROVE  DefaultRules[id].enabled /\ DefaultRules[id].score = 100
  <1>1. \A score \in Scores : id \in RulesWorth(score) <=> score = 100
    BY DEF RulesWorth, CriticalRules, Scores, RequiredSecurityBlockRuleIDs
  <1>2. (CHOOSE score \in Scores : id \in RulesWorth(score)) = 100
    BY <1>1 DEF Scores
  <1> QED
    BY <1>2, RulesAreKnown DEF DefaultRules

LEMMA DefaultRulesAreSound ==
    ASSUME NEW id \in KnownRules
    PROVE  /\ DefaultRules[id].score \in -100..100
           /\ id \in SecurityBlockRuleIDs =>
                 DefaultRules[id].class \in {"", "security_block"}
  <1>1. (CHOOSE score \in Scores : id \in RulesWorth(score)) \in Scores
    BY RulesAreKnown
  <1>2. DefaultRules[id].score \in Scores
    BY <1>1 DEF DefaultRules
  <1>3. Scores \subseteq -100..100
    BY DEF Scores
  <1>4. "known_vulnerability_critical" \notin SecurityBlockRuleIDs
    BY DEF SecurityBlockRuleIDs
  <1> QED
    BY <1>2, <1>3, <1>4 DEF DefaultRules

LEMMA DefaultIsResolved == Resolved(Default)
  <1>1. DOMAIN Default = PolicyFields
    BY DEF Default, PolicyFields, GovernanceFields
  <1>2. DOMAIN Default.rules = KnownRules
    BY DEF Default, DefaultRules
  <1>3. \A id \in RequiredSecurityBlockRuleIDs \cup {"blocked_package"} :
            RuleEnabled(Default, id) /\ Default.rules[id].score >= Default.blockMin
    BY <1>2, RulesAreKnown, RequiredAreCritical DEF RuleEnabled, Default
  <1>4. \A id \in DOMAIN Default.rules :
            /\ Default.rules[id].score \in -100..100
            /\ id \in SecurityBlockRuleIDs =>
                  Default.rules[id].class \in {"", "security_block"}
    BY <1>2, DefaultRulesAreSound DEF Default
  <1>5. /\ Default.mode \in {"audit", "warn", "block"}
        /\ {Default.allowMax, Default.warnMax, Default.blockMin} \subseteq 0..100
        /\ Default.allowMax < Default.warnMax /\ Default.warnMax < Default.blockMin
    BY DEF Default
  <1>6. SoundPolicy(Default)
    BY <1>3, <1>4, <1>5, Zenon DEF SoundPolicy
  <1> QED
    BY <1>1, <1>2, <1>6 DEF Resolved

\* A file that loads is a whole policy, with exactly the known rules.
LEMMA LoadedIsResolved ==
    ASSUME NEW file, Loads(file)
    PROVE  Resolved(Overlay(file))
  <1>1. DOMAIN Overlay(file) = PolicyFields
    BY DEF Overlay
  <1>2. Overlay(file).rules \in {Default.rules, OverlayRules(DefaultRules, file.rules)}
    BY DEF Overlay, Stated, PolicyFields, GovernanceFields
  <1>3. DOMAIN Overlay(file).rules = KnownRules
    BY <1>2 DEF Default, OverlayRules, DefaultRules
  <1> QED
    BY <1>1, <1>3 DEF Resolved, Loads, ValidPolicy

\* Thresholds and rules come from the same file when two are merged: this is
\* why the outcome is sound although nothing validates it.
LEMMA MergeIsResolved ==
    ASSUME NEW base, NEW over, Resolved(base), Resolved(over)
    PROVE  Resolved(Merge(base, over))
  <1> DEFINE m == Merge(base, over)
  <1>1. over.mode # "" /\ over.blockMin > 0
    <2>1. SoundPolicy(over)
      BY DEF Resolved
    <2>2. over.mode \in {"audit", "warn", "block"} /\ over.warnMax < over.blockMin
      BY <2>1 DEF SoundPolicy
    <2>3. over.warnMax \in 0..100 /\ over.blockMin \in 0..100
      BY <2>1 DEF SoundPolicy
    <2>4. over.blockMin > 0
      BY <2>2, <2>3
    <2>5. over.mode # ""
      BY <2>2, Zenon
    <2> QED
      BY <2>4, <2>5
  <1>2. DOMAIN m = PolicyFields
    BY DEF Merge
  <1>3. /\ m.mode = over.mode /\ m.allowMax = over.allowMax
        /\ m.warnMax = over.warnMax /\ m.blockMin = over.blockMin
    <2>1. \A field \in {"allowMax", "warnMax", "blockMin"} :
              MergedField(field, base, over) = over[field]
      BY <1>1 DEF MergedField
    <2>2. MergedField("mode", base, over) = over.mode
      BY <1>1 DEF MergedField
    <2>3. \A field \in PolicyFields : m[field] = MergedField(field, base, over)
      BY DEF Merge
    <2>4. {"mode", "allowMax", "warnMax", "blockMin"} \subseteq PolicyFields
      BY DEF PolicyFields
    <2> QED
      BY <2>1, <2>2, <2>3, <2>4
  <1>4. m.rules = [id \in DOMAIN base.rules \cup DOMAIN over.rules |->
                      IF id \in DOMAIN over.rules THEN over.rules[id] ELSE base.rules[id]]
    BY DEF Merge, MergedField, PolicyFields
  <1>5. DOMAIN m.rules = KnownRules
    BY <1>4 DEF Resolved
  <1>6. \A id \in KnownRules : m.rules[id] = over.rules[id]
    BY <1>4 DEF Resolved
  <1>7. /\ m.mode \in {"audit", "warn", "block"}
        /\ {m.allowMax, m.warnMax, m.blockMin} \subseteq 0..100
        /\ m.allowMax < m.warnMax /\ m.warnMax < m.blockMin
    <2>1. SoundPolicy(over)
      BY DEF Resolved
    <2>2. /\ over.mode \in {"audit", "warn", "block"}
          /\ {over.allowMax, over.warnMax, over.blockMin} \subseteq 0..100
          /\ over.allowMax < over.warnMax /\ over.warnMax < over.blockMin
      BY <2>1, Zenon DEF SoundPolicy
    <2> HIDE DEF m
    <2> QED
      BY <1>3, <2>2, Zenon
  <1> HIDE DEF m
  <1>8. \A id \in DOMAIN m.rules :
            /\ m.rules[id].score \in -100..100
            /\ id \in SecurityBlockRuleIDs => m.rules[id].class \in {"", "security_block"}
    BY <1>5, <1>6 DEF Resolved, SoundPolicy
  <1>9. \A id \in RequiredSecurityBlockRuleIDs \cup {"blocked_package"} :
            RuleEnabled(m, id) /\ m.rules[id].score >= m.blockMin
    BY <1>3, <1>5, <1>6, RulesAreKnown DEF Resolved, SoundPolicy, RuleEnabled
  <1>10. SoundPolicy(m)
    BY <1>7, <1>8, <1>9, Zenon DEF SoundPolicy
  <1> QED
    BY <1>2, <1>5, <1>10 DEF Resolved, m

\* Whatever the files of the repository and of the command line state, and
\* whatever the mode flag, a policy that resolves keeps its thresholds in order
\* and every required security rule enabled at a blocking score.
THEOREM ResolvedPolicyIsSound ==
    ASSUME NEW rfile, NEW cli, NEW flag, Resolves(cli, flag)
    PROVE  Resolved(ResolvePolicy(rfile, cli, flag))
  <1> DEFINE chosen == IF cli = NoFile THEN RepositoryPolicy(rfile)
                       ELSE Merge(RepositoryPolicy(rfile), Overlay(cli))
  <1>1. Resolved(RepositoryPolicy(rfile))
    BY DefaultIsResolved, LoadedIsResolved, MergeIsResolved DEF RepositoryPolicy
  <1>2. Resolved(chosen)
    BY <1>1, LoadedIsResolved, MergeIsResolved DEF Resolves
  <1>3. ResolvePolicy(rfile, cli, flag) = ApplyMode(chosen, flag)
    BY DEF ResolvePolicy
  <1> HIDE DEF chosen
  <1>4. ASSUME flag # "" PROVE Resolved([chosen EXCEPT !.mode = flag])
    <2> DEFINE m == [chosen EXCEPT !.mode = flag]
    <2>1. DOMAIN m = PolicyFields /\ m.mode = flag
      BY <1>2 DEF Resolved, PolicyFields
    <2>2. /\ m.allowMax = chosen.allowMax /\ m.warnMax = chosen.warnMax
          /\ m.blockMin = chosen.blockMin /\ m.rules = chosen.rules
      BY <1>2 DEF Resolved, PolicyFields
    <2>3. flag \in {"audit", "warn", "block"}
      BY <1>4 DEF Resolves
    <2> HIDE DEF m
    <2>4. SoundPolicy(chosen)
      BY <1>2 DEF Resolved
    <2>5. \A id : RuleEnabled(m, id) <=> RuleEnabled(chosen, id)
      BY <2>2, Zenon DEF RuleEnabled
    <2>6. /\ {m.allowMax, m.warnMax, m.blockMin} \subseteq 0..100
          /\ m.allowMax < m.warnMax /\ m.warnMax < m.blockMin
      <3>1. /\ {chosen.allowMax, chosen.warnMax, chosen.blockMin} \subseteq 0..100
            /\ chosen.allowMax < chosen.warnMax /\ chosen.warnMax < chosen.blockMin
        BY <2>4, Zenon DEF SoundPolicy
      <3> QED
        BY <2>2, <3>1, Zenon
    <2>7. /\ \A id \in DOMAIN m.rules :
                /\ m.rules[id].score \in -100..100
                /\ id \in SecurityBlockRuleIDs => m.rules[id].class \in {"", "security_block"}
          /\ \A id \in RequiredSecurityBlockRuleIDs \cup {"blocked_package"} :
                RuleEnabled(m, id) /\ m.rules[id].score >= m.blockMin
      <3>1. /\ \A id \in DOMAIN chosen.rules :
                  /\ chosen.rules[id].score \in -100..100
                  /\ id \in SecurityBlockRuleIDs =>
                        chosen.rules[id].class \in {"", "security_block"}
            /\ \A id \in RequiredSecurityBlockRuleIDs \cup {"blocked_package"} :
                  RuleEnabled(chosen, id) /\ chosen.rules[id].score >= chosen.blockMin
        BY <2>4, Zenon DEF SoundPolicy
      <3> QED
        BY <2>2, <2>5, <3>1, Zenon
    <2>8. SoundPolicy(m)
      BY <2>1, <2>3, <2>6, <2>7, Zenon DEF SoundPolicy
    <2> QED
      BY <1>2, <2>1, <2>2, <2>8 DEF Resolved, m
  <1> QED
    BY <1>2, <1>3, <1>4 DEF ApplyMode

LEMMA PoliciesAreResolved ==
    ASSUME NEW pol \in Policies
    PROVE  Resolved(pol)
  <1>1. PICK c \in RepoFiles \X PolicyFiles \X ModeFlags :
            Resolves(c[2], c[3]) /\ pol = ResolvePolicy(c[1], c[2], c[3])
    BY DEF Policies
  <1> QED
    BY <1>1, ResolvedPolicyIsSound

-----------------------------------------------------------------------------
(* The decision. *)

\* The findings that must come through: what the artifact shows, but for the
\* reasons a scan makes itself, and what the advisories say that it was given.
Findings == {x \in req.findings : x.id \notin StrippedRuleIDs} \cup known

\* Those of an enabled security rule.
Carried(reasons) ==
    \A f \in Findings : IsSecurity(req.pol, f) /\ RuleEnabled(req.pol, f.id) => f \in reasons

\* A finished result is what the controls made of a result about the package
\* that had all findings; before the controls, it has them itself.
IInv ==
    /\ req.pol \in Policies
    /\ known \subseteq req.advisories
    /\ stage \in {"evaluate", "control", "done", "recontrol", "redone"}
    /\ stage \in {"control", "recontrol"} => res.pkg = req.pkg /\ Carried(res.reasons)
    /\ Finished => \E before :
          /\ before.pkg = req.pkg /\ Carried(before.reasons)
          /\ res = ApplyPolicyControls(before, req.pol, req.reg, req.by, req.env)

\* A first scan evaluates all findings.
LEMMA EvaluateScanCarries ==
    ASSUME IInv, EvaluateScan
    PROVE  res'.pkg = req.pkg /\ Carried(res.reasons)'
  <1>1. StripPolicyGeneratedReasons(req.findings) \cup req.advisories = Findings'
    BY DEF Findings, StripPolicyGeneratedReasons, EvaluateScan
  <1>2. res' = EvaluateRepeated(req.pkg, Findings', req.repeats, req.pol) /\ req' = req
    BY <1>1 DEF EvaluateScan
  <1> QED
    BY <1>2, EvaluateKeepsFindings, EvaluateKeepsPackage DEF Carried

\* A rescan has them from the stored result, or again from the database.
LEMMA EvaluateCachedCarries ==
    ASSUME IInv, EvaluateCached
    PROVE  res'.pkg = req.pkg /\ Carried(res.reasons)'
  <1> DEFINE again == StripPolicyGeneratedReasons(res.reasons) \cup known'
  <1>1. PICK before :
            /\ before.pkg = req.pkg /\ Carried(before.reasons)
            /\ res = ApplyPolicyControls(before, req.pol, req.reg, req.by, req.env)
    BY DEF IInv, Finished, EvaluateCached
  <1>2. before.reasons \subseteq res.reasons /\ res.pkg = before.pkg
    BY <1>1, ControlsKeepReasons
  <1>3. res' = EvaluateRepeated(res.pkg, again, {}, req.pol) /\ req' = req
    BY DEF EvaluateCached, Evaluate
  <1>4. ASSUME NEW f \in Findings', IsSecurity(req.pol, f), RuleEnabled(req.pol, f.id)
        PROVE  f \in again
    <2>1. CASE f \in known'
      BY <2>1
    <2>2. CASE f \in req.findings /\ f.id \notin StrippedRuleIDs
      <3>1. f \in res.reasons
        BY <1>1, <1>2, <1>4, <2>2 DEF Carried, Findings
      <3> QED
        BY <2>2, <3>1 DEF StripPolicyGeneratedReasons
    <2> QED
      BY <1>3, <1>4, <2>1, <2>2 DEF Findings
  <1> HIDE DEF again
  <1>5. Carried(res.reasons)'
    BY <1>3, <1>4, EvaluateKeepsFindings DEF Carried
  <1> QED
    BY <1>1, <1>2, <1>3, <1>5, EvaluateKeepsPackage

LEMMA InitIInv == Init => IInv
  BY DEF Init, IInv, Finished

LEMMA NextKeepsIInv == IInv /\ [Next]_vars => IInv'
  <1> SUFFICES ASSUME IInv, [Next]_vars PROVE IInv'
    OBVIOUS
  <1>1. CASE EvaluateScan
    <2>1. stage' = "control" /\ req' = req /\ known' = req.advisories
      BY <1>1 DEF EvaluateScan
    <2>2. res'.pkg = req.pkg /\ Carried(res.reasons)'
      BY <1>1, EvaluateScanCarries
    <2> QED
      BY <2>1, <2>2 DEF IInv, Finished
  <1>2. CASE EvaluateCached
    <2>1. stage' = "recontrol" /\ req' = req /\ known' \subseteq req.advisories
      BY <1>2 DEF EvaluateCached, OfflineAdvisories
    <2>2. res'.pkg = req.pkg /\ Carried(res.reasons)'
      BY <1>2, EvaluateCachedCarries
    <2> QED
      BY <2>1, <2>2 DEF IInv, Finished
  <1>3. CASE Control
    <2>1. stage' \in {"done", "redone"} /\ req' = req /\ known' = known
      BY <1>3 DEF Control
    <2>2. /\ res.pkg = req.pkg /\ Carried(res.reasons)
          /\ res' = ApplyPolicyControls(res, req.pol, req.reg, req.by, req.env)
      BY <1>3 DEF Control, IInv
    <2> QED
      BY <2>1, <2>2 DEF IInv, Finished, Carried, Findings
  <1>4. CASE UNCHANGED vars
    BY <1>4 DEF vars, IInv, Finished, Carried, Findings
  <1> QED
    BY <1>1, <1>2, <1>3, <1>4 DEF Next

LEMMA Invariance == Spec => []IInv
  BY InitIInv, NextKeepsIInv, PTL DEF Spec

\* The two reasons that name no rule of a policy are never security reasons.
LEMMA OnlyTrustIsMisdeclared ==
    ASSUME NEW pol, Resolved(pol), NEW r, IsSecurity(pol, r), r.id # TrustReasonID
    PROVE  r.id \notin LateReasonIDs
  <1>1. {"active_exception", "scoped_warn_block"} \cap KnownRules = {}
    BY DEF KnownRules, RulesWorth, Scores, CriticalRules, RequiredSecurityBlockRuleIDs
  <1>2. \A id \in {"active_exception", "scoped_warn_block"} :
            EnforcementClassFor(pol, id) = "advisory"
    BY <1>1 DEF Resolved, EnforcementClassFor, SecurityBlockRuleIDs
  <1>3. r.id \notin {"active_exception", "scoped_warn_block"}
    BY <1>2 DEF IsSecurity
  <1> QED
    BY <1>3 DEF LateReasonIDs, TrustReasonID

\* A security reason is final under every policy that resolves.
THEOREM SecurityIsFinalTheorem == Spec => []SecurityIsFinal
  <1>1. ASSUME IInv, Finished,
               NEW r \in res.reasons, r.id # TrustReasonID, IsSecurity(req.pol, r)
        PROVE  res.decision = "block"
    <2>1. PICK before :
              res = ApplyPolicyControls(before, req.pol, req.reg, req.by, req.env)
      BY <1>1 DEF IInv
    <2>2. r.id \notin LateReasonIDs
      BY <1>1, PoliciesAreResolved, OnlyTrustIsMisdeclared DEF IInv
    <2>3. r \in ControlReasons(before, req.pol, req.reg, req.by)
      BY <1>1, <2>1, <2>2, ReasonsWereKnown
    <2> QED
      BY <1>1, <2>1, <2>3, KnownSecurityBlocks
  <1>2. IInv => SecurityIsFinal
    BY <1>1 DEF SecurityIsFinal
  <1> QED
    BY <1>2, Invariance, PTL

\* Of the findings of a security rule none is lost on the way to the decision,
\* whatever the files the policy was made of say about that rule.
THEOREM SecurityFindingTheorem == Spec => []SecurityFindingBlocks
  <1>1. ASSUME NEW pol \in Policies, NEW f, f.id \in RequiredSecurityBlockRuleIDs
        PROVE  IsSecurity(pol, f) /\ RuleEnabled(pol, f.id)
    <2>1. RuleEnabled(pol, f.id)
      BY <1>1, PoliciesAreResolved DEF Resolved, SoundPolicy
    <2>2. f.id \in SecurityBlockRuleIDs
      BY <1>1 DEF RequiredSecurityBlockRuleIDs, SecurityBlockRuleIDs
    <2> QED
      BY <2>1, <2>2 DEF IsSecurity, EnforcementClassFor
  <1>2. ASSUME IInv, Finished, NEW f \in Findings,
               IsSecurity(req.pol, f), RuleEnabled(req.pol, f.id)
        PROVE  res.decision = "block"
    <2>1. PICK before :
              /\ Carried(before.reasons)
              /\ res = ApplyPolicyControls(before, req.pol, req.reg, req.by, req.env)
      BY <1>2 DEF IInv
    <2>2. f \in ControlReasons(before, req.pol, req.reg, req.by)
      BY <1>2, <2>1 DEF Carried, ControlReasons
    <2> QED
      BY <1>2, <2>1, <2>2, KnownSecurityBlocks
  <1>3. IInv => SecurityFindingBlocks
    BY <1>1, <1>2 DEF SecurityFindingBlocks, IInv, Findings
  <1> QED
    BY <1>3, Invariance, PTL

\* A live blocked-package rule is never overridden by trust, scores or scoped
\* rules; only an exception, which the result then names, makes it a warning.
THEOREM BlockedRuleTheorem == Spec => []BlockedRuleHolds
  <1>1. ASSUME IInv, Finished, NEW rule \in req.pol.blockedRules,
               RuleMatches(rule, req.pkg, req.reg), res.decision # "block"
        PROVE  /\ res.decision = "warn"
               /\ \E r \in res.reasons : r.id = "active_exception"
    <2>1. PICK before :
              /\ before.pkg = req.pkg
              /\ res = ApplyPolicyControls(before, req.pol, req.reg, req.by, req.env)
      BY <1>1 DEF IInv
    <2>2. BlockedByRule(req.pol, before.pkg, req.reg)
      BY <1>1, <2>1 DEF BlockedByRule
    <2> QED
      BY <1>1, <2>1, <2>2, BlockedRuleIsExcused
  <1>2. IInv => BlockedRuleHolds
    BY <1>1 DEF BlockedRuleHolds
  <1> QED
    BY <1>2, Invariance, PTL

-----------------------------------------------------------------------------
(* What a step of the controls may never do. *)

\* The controls without exceptions are those of the policy without them.
LEMMA ExceptionsComeLast ==
    ASSUME NEW before, NEW pol, Resolved(pol), NEW reg, NEW by
    PROVE  BeforeExceptions(before, [pol EXCEPT !.exceptions = {}], reg, by)
             = BeforeExceptions(before, pol, reg, by)
  <1> DEFINE bare == [pol EXCEPT !.exceptions = {}]
  <1>1. /\ bare.rules = pol.rules /\ bare.scoped = pol.scoped
        /\ bare.blockedRules = pol.blockedRules /\ bare.trustedRules = pol.trustedRules
        /\ bare.allowMax = pol.allowMax /\ bare.warnMax = pol.warnMax
        /\ bare.blockMin = pol.blockMin
    BY DEF Resolved, PolicyFields, GovernanceFields
  <1> HIDE DEF bare
  <1>2. \A r : IsSecurity(bare, r) = IsSecurity(pol, r)
    BY <1>1 DEF IsSecurity, EnforcementClassFor
  <1>3. \A reasons : HasSecurity(bare, reasons) = HasSecurity(pol, reasons)
    BY <1>2 DEF HasSecurity
  <1>4. /\ BlockedByRule(bare, before.pkg, reg) = BlockedByRule(pol, before.pkg, reg)
        /\ TrustedByRule(bare, before.pkg, reg) = TrustedByRule(pol, before.pkg, reg)
        /\ MatchedScopes(bare, before.pkg, reg, by) = MatchedScopes(pol, before.pkg, reg, by)
    BY <1>1 DEF BlockedByRule, TrustedByRule, MatchedScopes
  <1>5. ControlReasons(before, bare, reg, by) = ControlReasons(before, pol, reg, by)
    BY <1>4 DEF ControlReasons
  <1>6. TrustApplies(before, bare, reg, by) = TrustApplies(before, pol, reg, by)
    BY <1>3, <1>4, <1>5 DEF TrustApplies
  <1>7. ControlScore(before, bare, reg, by) = ControlScore(before, pol, reg, by)
    BY <1>4, <1>6 DEF ControlScore
  <1>8. ControlDecision(before, bare, reg, by) = ControlDecision(before, pol, reg, by)
    BY <1>1, <1>3, <1>4, <1>5, <1>7 DEF ControlDecision
  <1>9. BeforeExceptions(before, bare, reg, by) = BeforeExceptions(before, pol, reg, by)
    BY <1>3, <1>4, <1>5, <1>6, <1>7, <1>8 DEF BeforeExceptions
  <1> QED
    BY <1>9 DEF bare

\* An exception softens blocks to warnings and changes nothing else.
THEOREM ExceptionTheorem == Spec => ExceptionOnlySoftensBlock
  <1>1. ASSUME IInv, Control
        PROVE  \/ res'.decision = WithoutExceptions(res)
               \/ WithoutExceptions(res) = "block" /\ res'.decision = "warn"
    <2> DEFINE bare == [req.pol EXCEPT !.exceptions = {}]
               b    == BeforeExceptions(res, req.pol, req.reg, req.by)
    <2>1. Resolved(req.pol)
      BY <1>1, PoliciesAreResolved DEF IInv
    <2>2. BeforeExceptions(res, bare, req.reg, req.by) = b
      BY <2>1, ExceptionsComeLast
    <2>3. bare.exceptions = {}
      BY <2>1 DEF Resolved, PolicyFields, GovernanceFields
    <2>4. res'.decision = Conclude(b, res.pkg, req.pol, req.env).decision
      BY <1>1 DEF Control, ApplyPolicyControls
    <2>5. WithoutExceptions(res) = Conclude(b, res.pkg, bare, req.env).decision
      BY <2>2 DEF WithoutExceptions, ApplyPolicyControls
    <2> HIDE DEF b, bare
    <2>6. ~Excepted(b, res.pkg, bare, req.env)
      BY <2>3 DEF Excepted
    <2>7. CASE Excepted(b, res.pkg, req.pol, req.env)
      BY <2>4, <2>5, <2>6, <2>7 DEF Conclude, Softened, Excepted, Refused
    <2>8. CASE ~Excepted(b, res.pkg, req.pol, req.env)
      BY <2>4, <2>5, <2>6, <2>8 DEF Conclude, Softened
    <2> QED
      BY <2>7, <2>8
  <1>2. IInv /\ [Next]_vars =>
           [Control => \/ res'.decision = WithoutExceptions(res)
                       \/ WithoutExceptions(res) = "block" /\ res'.decision = "warn"]_vars
    BY <1>1
  <1> QED
    BY <1>2, Invariance, PTL DEF Spec, ExceptionOnlySoftensBlock

\* Without a grant of exceptions an agent is decided as strictly as a
\* developer, or more so.
THEOREM AgentTheorem == Spec => AgentAtLeastAsStrict
  <1> DEFINE Stricter ==
        Severity(res'.decision)
          >= Severity(ApplyPolicyControls(res, req.pol, req.reg,
                                          req.by, "developer").decision)
  <1>1. ASSUME Control, req.env = "ai_agent", ~req.pol.agentExceptions
        PROVE  Stricter
    <2> DEFINE b == BeforeExceptions(res, req.pol, req.reg, req.by)
    <2>1. b.decision \in {"allow", "warn", "block"}
      BY DEF BeforeExceptions, ControlDecision, Decide
    <2>2. res'.decision = Conclude(b, res.pkg, req.pol, "ai_agent").decision
      BY <1>1 DEF Control, ApplyPolicyControls
    <2>3. ApplyPolicyControls(res, req.pol, req.reg, req.by, "developer").decision
            = Conclude(b, res.pkg, req.pol, "developer").decision
      BY DEF ApplyPolicyControls
    <2> HIDE DEF b
    <2>4. ~Excepted(b, res.pkg, req.pol, "ai_agent")
      BY <1>1 DEF Excepted
    <2>5. /\ Severity("allow") = 0 /\ Severity("warn") = 1 /\ Severity("block") = 2
      BY DEF Severity
    <2>6. CASE Excepted(b, res.pkg, req.pol, "developer")
      <3>1. b.decision = "block"
        BY <2>6 DEF Excepted
      <3>2. res'.decision = "block"
        BY <2>2, <2>4, <3>1 DEF Conclude, Softened
      <3>3. Conclude(b, res.pkg, req.pol, "developer").decision \in {"warn", "block"}
        BY <2>6 DEF Conclude, Softened
      <3> QED
        BY <2>3, <2>5, <3>2, <3>3
    <2>7. CASE ~Excepted(b, res.pkg, req.pol, "developer")
      <3>1. Conclude(b, res.pkg, req.pol, "developer").decision = res'.decision
        BY <2>2, <2>4, <2>7 DEF Conclude, Softened
      <3>2. res'.decision \in {"allow", "warn", "block"}
        BY <2>1, <2>2, <2>4 DEF Conclude, Softened
      <3> QED
        BY <2>3, <2>5, <3>1, <3>2
    <2> QED
      BY <2>6, <2>7
  <1>2. [Next]_vars =>
           [Control /\ req.env = "ai_agent" /\ ~req.pol.agentExceptions => Stricter]_vars
    BY <1>1
  <1> QED
    BY <1>2, PTL DEF Spec, AgentAtLeastAsStrict

-----------------------------------------------------------------------------
(* The advice of the MCP server (AgentServer).                              *)

\* A security finding of the artifact that the policy judges.
Weighs(f, pol) ==
    IsSecurity(pol, f) /\ RuleEnabled(pol, f.id) /\ f.id \notin StrippedRuleIDs

\* A package whose findings hold one is a block in every scan for an agent.
LEMMA FindingBlocksScan ==
  ASSUME NEW p, NEW found, NEW f \in found, NEW pol, NEW by, NEW env, Weighs(f, pol)
  PROVE  LET r == ApplyPolicyControls(Evaluate(p, found, pol), pol, CorpRegistry, by, env)
         IN  r.pkg = p /\ r.decision = "block" /\ f \in r.reasons
<1> DEFINE e == Evaluate(p, found, pol)
<1>1. f \in e.reasons /\ e.pkg = p
  BY EvaluateKeepsFindings, EvaluateKeepsPackage DEF Weighs, Evaluate
<1> HIDE DEF e
<1>2. f \in ControlReasons(e, pol, CorpRegistry, by)
  BY <1>1 DEF ControlReasons
<1> QED BY <1>1, <1>2, KnownSecurityBlocks, ControlsKeepReasons DEF Weighs, e

\* The scan of a set of packages has a result for each with such a finding, and that
\* is a block.
Guards(results, pkgs, pol) ==
    \A p \in pkgs : SecurityFinding(p, pol, FALSE) =>
        /\ \E r \in results : r.pkg = p
        /\ \A r \in results : r.pkg = p => r.decision = "block"

\* So has a scan without the amplifier (check_package, validate_install_command).
LEMMA ScanGuards ==
  ASSUME NEW pkgs, NEW pol, NEW by, NEW env
  PROVE  /\ Guards(ScanPackages(pkgs, pol, by, env), pkgs, pol)
         /\ \A r \in ScanPackages(pkgs, pol, by, env) : r.pkg \in pkgs
<1> DEFINE control(p) == ApplyPolicyControls(Evaluate(p, world[p], pol), pol, CorpRegistry, by, env)
<1>1. ScanPackages(pkgs, pol, by, env) = {control(p) : p \in pkgs}
  BY DEF ScanPackages, Controlled
<1>2. \A p : control(p).pkg = p
  BY ControlsKeepReasons, EvaluateKeepsPackage DEF Evaluate
<1>3. \A p : SecurityFinding(p, pol, FALSE) => control(p).decision = "block"
  BY FindingBlocksScan DEF SecurityFinding, Weighs
<1> HIDE DEF control
<1> QED BY <1>1, <1>2, <1>3 DEF Guards

\* The amplifier evaluates a suspicious result again with that finding.
LEMMA AmplifiedGuards ==
  ASSUME NEW pkgs, NEW pol, NEW by, NEW env
  PROVE  /\ Guards(EvaluatePackages(pkgs, pol, by, env), pkgs, pol)
         /\ \A r \in EvaluatePackages(pkgs, pol, by, env) : r.pkg \in pkgs
<1> DEFINE control(e) == ApplyPolicyControls(e, pol, CorpRegistry, by, env)
           once(p) == control(Evaluate(p, world[p], pol))
           again(r) == control(Evaluate(r.pkg, AmplifiedFindings(r), pol))
           final(p) == IF Suspicious(once(p), pol, by) THEN again(once(p)) ELSE once(p)
<1>1. EvaluatePackages(pkgs, pol, by, env) = {final(p) : p \in pkgs}
  BY DEF EvaluatePackages, ScanPackages, Controlled
<1>2. \A p : once(p).pkg = p
  BY ControlsKeepReasons, EvaluateKeepsPackage DEF Evaluate
<1>3. \A r : again(r).pkg = r.pkg
  BY ControlsKeepReasons, EvaluateKeepsPackage DEF Evaluate
<1>4. ASSUME NEW p, SecurityFinding(p, pol, FALSE) PROVE final(p).decision = "block"
  <2>1. PICK f \in world[p] : Weighs(f, pol)
    BY <1>4 DEF SecurityFinding, Weighs
  <2>2. once(p).decision = "block" /\ f \in once(p).reasons
    BY <2>1, FindingBlocksScan
  <2>3. f \in AmplifiedFindings(once(p))
    BY <2>1, <2>2 DEF AmplifiedFindings, StripPolicyGeneratedReasons, Weighs
  <2>4. again(once(p)).decision = "block"
    BY <2>1, <2>3, FindingBlocksScan
  <2> QED BY <2>2, <2>4
<1>5. \A p : final(p).pkg = p
  BY <1>2, <1>3
<1> HIDE DEF final
<1> QED BY <1>1, <1>4, <1>5 DEF Guards

\* A result about a package with such a finding is a block.
LEMMA ResultsAreBlocks ==
  ASSUME NEW pkgs, NEW pol, NEW by, NEW env
  PROVE  \A r \in ScanPackages(pkgs, pol, by, env) \cup EvaluatePackages(pkgs, pol, by, env) :
         \A p \in {r.pkg} : SecurityFinding(p, pol, FALSE) => r.decision = "block"
<1>1. ASSUME NEW results, Guards(results, pkgs, pol), \A r \in results : r.pkg \in pkgs,
             NEW r \in results, SecurityFinding(r.pkg, pol, FALSE)
      PROVE  r.decision = "block"
  BY <1>1 DEF Guards
<1>2. ASSUME NEW r \in ScanPackages(pkgs, pol, by, env), SecurityFinding(r.pkg, pol, FALSE)
      PROVE  r.decision = "block"
  <2> DEFINE results == ScanPackages(pkgs, pol, by, env)
  <2>1. Guards(results, pkgs, pol) /\ r \in results /\ \A x \in results : x.pkg \in pkgs
    BY <1>2, ScanGuards
  <2> HIDE DEF results
  <2> QED BY <1>1, <1>2, <2>1
<1>3. ASSUME NEW r \in EvaluatePackages(pkgs, pol, by, env), SecurityFinding(r.pkg, pol, FALSE)
      PROVE  r.decision = "block"
  <2> DEFINE results == EvaluatePackages(pkgs, pol, by, env)
  <2>1. Guards(results, pkgs, pol) /\ r \in results /\ \A x \in results : x.pkg \in pkgs
    BY <1>3, AmplifiedGuards
  <2> HIDE DEF results
  <2> QED BY <1>1, <1>3, <2>1
<1> QED BY <1>2, <1>3

\* A block among several packages is the decision on them all.
LEMMA WorstBlocks ==
  ASSUME NEW results, NEW pkgs, NEW pol, Guards(results, pkgs, pol),
         NEW p \in pkgs, SecurityFinding(p, pol, FALSE)
  PROVE  Worst(DecisionsOf(results)) = "block"
  BY DEF Guards, Worst, DecisionsOf

\* An answer about a block stops the agent, and none lets it proceed with what it
\* forbids.
Harmless(advice) == "proceed" \in advice.allowed => "run_install" \notin advice.prohibited

Halts(advice, agent) ==
    /\ advice.decision = "block"
    /\ "run_install" \in advice.prohibited \/ agent.mode = "observe"

LEMMA GuidanceIsSound ==
  ASSUME NEW decision, NEW agent
  PROVE  /\ Harmless(Guidance(decision, agent))
         /\ decision = "block" => Halts(Guidance(decision, agent), agent)
  BY DEF Guidance, Escalated, Advice, Stop, Harmless, Halts

\* ModeGuidance and DiffAdvice word the guidance anew, and keep what it forbids.
LEMMA WordingIsSound ==
  ASSUME NEW decision, NEW by
  PROVE  /\ Harmless(ModeGuidance(decision, by))
         /\ decision = "block" => Halts(ModeGuidance(decision, by), repo.agent)
         /\ Harmless(DiffAdvice(decision, repo.agent))
         /\ decision = "block" => Halts(DiffAdvice(decision, repo.agent), repo.agent)
<1> DEFINE g == Guidance(decision, repo.agent)
<1>1. Harmless(g) /\ (decision = "block" => Halts(g, repo.agent))
  BY GuidanceIsSound
<1> HIDE DEF g
<1>2. ModeGuidance(decision, by) = g \/ /\ g.decision = "allow"
                                         /\ Harmless(ModeGuidance(decision, by))
  BY DEF ModeGuidance, g, Advice, Harmless
<1>3. /\ Harmless(DiffAdvice(decision, repo.agent))
      /\ decision = "block" => Halts(DiffAdvice(decision, repo.agent), repo.agent)
  BY <1>1 DEF DiffAdvice, g, Advice, Harmless, Halts
<1> QED BY <1>1, <1>2, <1>3 DEF Halts

\* The older instruction stops an agent whose installation is not allowed.
LEMMA InstructionIsSound ==
  ASSUME NEW decision, NEW allowed, NEW by
  PROVE  /\ Harmless(AgentInstruction(decision, allowed, by))
         /\ decision = "block" /\ ~allowed =>
               Halts(AgentInstruction(decision, allowed, by), repo.agent)
  BY DEF AgentInstruction, Advice, Harmless, Halts

\* No mode and no policy lets a block be installed.
LEMMA BlockIsRefused ==
  ASSUME NEW pol, NEW by
  PROVE  ~DecisionAllows("block", pol, by)
  BY DEF DecisionAllows

-----------------------------------------------------------------------------
(* What has been answered.                                                  *)

\* An answer does not contradict itself and stops for the findings it is about.
Proper(a) ==
    /\ Harmless(a)
    /\ ~a.error /\ a.tool \in AdvisingTools =>
          ((\E p \in a.scanned : SecurityFinding(p, PolicyOf(a.tool), FALSE)) => Stops(a))

AgentInv == answers \in Seq(ToSet(answers)) /\ \A a \in ToSet(answers) : Proper(a)

\* One more answer.
LEMMA AppendedAnswers ==
  ASSUME NEW s, s \in Seq(ToSet(s)), NEW a
  PROVE  /\ ToSet(Append(s, a)) = ToSet(s) \cup {a}
         /\ Append(s, a) \in Seq(ToSet(Append(s, a)))
<1> DEFINE S == ToSet(s) \cup {a}
<1>1. s \in Seq(S)
  <2>1. Len(s) \in Nat /\ DOMAIN s = 1..Len(s) /\ \A i \in 1..Len(s) : s[i] \in ToSet(s)
    OBVIOUS
  <2> QED BY <2>1
<1>2. ToSet(Append(s, a)) = S
  <2> HIDE DEF S
  <2>1. /\ DOMAIN Append(s, a) = 1..(Len(s) + 1) /\ Len(s) \in Nat /\ DOMAIN s = 1..Len(s)
        /\ Append(s, a)[Len(s) + 1] = a
        /\ \A i \in 1..Len(s) : Append(s, a)[i] = s[i]
    BY <1>1
  <2>2. ToSet(Append(s, a)) = {Append(s, a)[i] : i \in 1..(Len(s) + 1)}
    BY <2>1 DEF ToSet
  <2>3. ToSet(s) = {s[i] : i \in 1..Len(s)}
    BY <2>1 DEF ToSet
  <2>4. 1..(Len(s) + 1) = 1..Len(s) \cup {Len(s) + 1}
    BY <2>1
  <2> QED BY <2>1, <2>2, <2>3, <2>4 DEF S
<1>3. Append(s, a) \in Seq(S)
  BY <1>1
<1> QED BY <1>2, <1>3

\* What an answer has to be does not change with the state: worlds and policies stay.
LEMMA ProperStays ==
  ASSUME UNCHANGED setup, NEW a, Proper(a)
  PROVE  Proper(a)'
  BY DEF setup, Proper, Harmless, SecurityFinding, PolicyOf, Stops, world, repo, server

\* Serve writes the answer, or nothing.
LEMMA ReplyKeeps ==
  ASSUME AgentInv, UNCHANGED setup, NEW a, Proper(a),
         Reply(a) \/ answers' = Append(answers, a) \/ UNCHANGED answers
  PROVE  AgentInv'
<1>1. answers' = answers \/ answers' = Append(answers, a)
  BY DEF Reply
<1>2. /\ answers' \in Seq(ToSet(answers'))
      /\ ToSet(answers') \subseteq ToSet(answers) \cup {a}
  BY <1>1, AppendedAnswers DEF AgentInv
<1>3. \A b \in ToSet(answers) \cup {a} : Proper(b)'
  BY ProperStays DEF AgentInv
<1> QED BY <1>2, <1>3 DEF AgentInv

\* An error tells nothing.
LEMMA RefusalIsProper == ASSUME NEW tool PROVE Proper(Refusal(tool))
  BY DEF Refusal, Proper, Harmless

\* An answer is proper if its advice is, and stops for each finding it is about.
LEMMA ResultIsProper ==
  ASSUME NEW tool, NEW advice, NEW scanned, Harmless(advice),
         tool \in AdvisingTools =>
            \A p \in scanned : SecurityFinding(p, PolicyOf(tool), FALSE) =>
                                 Halts(advice, repo.agent)
  PROVE  Proper(Result(tool, advice, scanned))
  BY DEF Result, Proper, Harmless, Stops, Halts

\* The answers of the tools that ask the policy of the repository: the advice is
\* Guidance's, or words it anew.
LEMMA AnswerIsProper ==
  ASSUME NEW tool, tool # "validate_install_command", NEW advice, NEW scanned, NEW decision,
         Harmless(advice), decision = "block" => Halts(advice, repo.agent),
         \A p \in scanned : SecurityFinding(p, repo, FALSE) => decision = "block"
  PROVE  Proper(Result(tool, advice, scanned))
  BY ResultIsProper DEF PolicyOf

\* The tools that are asked about one package.
LEMMA PackageToolsKeep ==
  AgentInv /\ (CheckPackage \/ ExplainPolicyDecision \/ GetAgentGuidance) => AgentInv'
<1> SUFFICES ASSUME AgentInv, CheckPackage \/ ExplainPolicyDecision \/ GetAgentGuidance
             PROVE  AgentInv'
  OBVIOUS
<1> DEFINE pkg == Line.words[1]
<1>1. CASE CheckPackage
  <2>1. CASE Reply(Refusal("check_package"))
    BY <1>1, <2>1, ReplyKeeps, RefusalIsProper DEF CheckPackage
  <2>2. ASSUME NEW r \in ScanPackages({pkg}, repo, "ai_agent", "ai_agent"),
               Reply(Result("check_package", Guidance(r.decision, repo.agent), {r.pkg}))
        PROVE  AgentInv'
    <3>1. \A p \in {r.pkg} : SecurityFinding(p, repo, FALSE) => r.decision = "block"
      BY <2>2, ResultsAreBlocks
    <3>2. Proper(Result("check_package", Guidance(r.decision, repo.agent), {r.pkg}))
      BY <3>1, AnswerIsProper, GuidanceIsSound
    <3> QED BY <1>1, <2>2, <3>2, ReplyKeeps DEF CheckPackage
  <2> QED BY <1>1, <2>1, <2>2 DEF CheckPackage
<1>2. CASE ExplainPolicyDecision
  <2>1. CASE Reply(Refusal("explain_policy_decision"))
    BY <1>2, <2>1, ReplyKeeps, RefusalIsProper DEF ExplainPolicyDecision
  <2>2. ASSUME NEW r \in EvaluatePackages({pkg}, repo, "ai_agent", "ai_agent"),
               Reply(Result("explain_policy_decision", Guidance(r.decision, repo.agent), {r.pkg}))
        PROVE  AgentInv'
    <3>1. \A p \in {r.pkg} : SecurityFinding(p, repo, FALSE) => r.decision = "block"
      BY <2>2, ResultsAreBlocks
    <3>2. Proper(Result("explain_policy_decision", Guidance(r.decision, repo.agent), {r.pkg}))
      BY <3>1, AnswerIsProper, GuidanceIsSound
    <3> QED BY <1>2, <2>2, <3>2, ReplyKeeps DEF ExplainPolicyDecision
  <2> QED BY <1>2, <2>1, <2>2 DEF ExplainPolicyDecision
<1>3. CASE GetAgentGuidance
  <2>1. CASE Reply(Refusal("get_agent_guidance"))
    BY <1>3, <2>1, ReplyKeeps, RefusalIsProper DEF GetAgentGuidance
  <2>2. ASSUME NEW r \in EvaluatePackages({pkg}, repo, Line.by, Line.by),
               Reply(Result("get_agent_guidance", ModeGuidance(r.decision, Line.by), {r.pkg}))
        PROVE  AgentInv'
    <3> DEFINE by == Line.by
    <3>1. \A p \in {r.pkg} : SecurityFinding(p, repo, FALSE) => r.decision = "block"
      <4> DEFINE pkgs == {pkg}
      <4>1. r \in EvaluatePackages(pkgs, repo, by, by)
        BY <2>2
      <4> HIDE DEF by, pkgs
      <4>2. \A x \in EvaluatePackages(pkgs, repo, by, by) : \A p \in {x.pkg} :
               SecurityFinding(p, repo, FALSE) => x.decision = "block"
        BY ResultsAreBlocks
      <4> QED BY <4>1, <4>2, Zenon
    <3>2. Proper(Result("get_agent_guidance", ModeGuidance(r.decision, Line.by), {r.pkg}))
      BY <3>1, AnswerIsProper, WordingIsSound
    <3> QED BY <1>3, <2>2, <3>2, ReplyKeeps DEF GetAgentGuidance
  <2> QED BY <1>3, <2>1, <2>2 DEF GetAgentGuidance
<1> QED BY <1>1, <1>2, <1>3

\* The tools that are asked about several: the worst of them decides.
LEMMA SetToolsKeep ==
  AgentInv /\ (CheckInstallCommand \/ ReviewDependencyDiff) => AgentInv'
<1> SUFFICES ASSUME AgentInv, CheckInstallCommand \/ ReviewDependencyDiff PROVE AgentInv'
  OBVIOUS
<1> DEFINE decided(pkgs) ==
             Worst(DecisionsOf(EvaluatePackages(pkgs, repo, "ai_agent", "ai_agent")))
<1>1. \A pkgs : \A p \in pkgs : SecurityFinding(p, repo, FALSE) => decided(pkgs) = "block"
  BY AmplifiedGuards, WorstBlocks
<1> HIDE DEF decided
<1>2. CASE CheckInstallCommand
  <2> DEFINE pkgs == ToSet(ParseInstallCommand(Line.words))
             answer == Result("check_install_command", Guidance(decided(pkgs), repo.agent), pkgs)
  <2>1. Reply(Refusal("check_install_command")) \/ Reply(answer)
    BY <1>2 DEF CheckInstallCommand, decided
  <2>2. Proper(answer)
    <3> HIDE DEF pkgs
    <3>1. \A p \in pkgs : SecurityFinding(p, repo, FALSE) => decided(pkgs) = "block"
      BY <1>1
    <3>2. /\ Harmless(Guidance(decided(pkgs), repo.agent))
          /\ decided(pkgs) = "block" => Halts(Guidance(decided(pkgs), repo.agent), repo.agent)
      BY GuidanceIsSound
    <3> QED BY <3>1, <3>2, AnswerIsProper
  <2>3. UNCHANGED setup
    BY <1>2 DEF CheckInstallCommand
  <2> HIDE DEF answer
  <2> QED BY <2>1, <2>2, <2>3, ReplyKeeps, RefusalIsProper
<1>3. CASE ReviewDependencyDiff
  <2> DEFINE answer(pkgs) ==
               Result("review_dependency_diff", DiffAdvice(decided(pkgs), repo.agent), pkgs)
  <2>1. Reply(Refusal("review_dependency_diff")) \/ \E pkgs : Reply(answer(pkgs))
    BY <1>3, Zenon DEF ReviewDependencyDiff, decided
  <2>2. ASSUME NEW pkgs PROVE Proper(answer(pkgs))
    <3>1. \A p \in pkgs : SecurityFinding(p, repo, FALSE) => decided(pkgs) = "block"
      BY <1>1
    <3>2. /\ Harmless(DiffAdvice(decided(pkgs), repo.agent))
          /\ decided(pkgs) = "block" => Halts(DiffAdvice(decided(pkgs), repo.agent), repo.agent)
      BY WordingIsSound
    <3> QED BY <3>1, <3>2, AnswerIsProper
  <2>3. UNCHANGED setup
    BY <1>3 DEF ReviewDependencyDiff
  <2> HIDE DEF answer
  <2> QED BY <2>1, <2>2, <2>3, ReplyKeeps, RefusalIsProper
<1> QED BY <1>2, <1>3

\* The tools with the older instruction.
LEMMA InstructingToolsKeep ==
  AgentInv /\ (ValidatePackageInstall \/ ValidateInstallCommand) => AgentInv'
<1> SUFFICES ASSUME AgentInv, ValidatePackageInstall \/ ValidateInstallCommand PROVE AgentInv'
  OBVIOUS
<1>1. CASE ValidatePackageInstall
  <2> DEFINE answer(r) == Result("validate_package_install",
                                 AgentInstruction(r.decision, ValidateAllowed(r, Line), Line.by),
                                 {r.pkg})
             results == EvaluatePackages({Line.words[1]}, repo, Line.by, Environment(Line.by))
  <2>1. Reply(Refusal("validate_package_install")) \/ \E r \in results : Reply(answer(r))
    BY <1>1, Zenon DEF ValidatePackageInstall
  <2>2. ASSUME NEW r \in results PROVE Proper(answer(r))
    <3>1. \A p \in {r.pkg} : SecurityFinding(p, repo, FALSE) => r.decision = "block"
      BY <2>2, ResultsAreBlocks
    <3>2. r.decision = "block" => ~ValidateAllowed(r, Line)
      BY BlockIsRefused DEF ValidateAllowed
    <3> QED BY <3>1, <3>2, AnswerIsProper, InstructionIsSound
  <2>3. UNCHANGED setup
    BY <1>1 DEF ValidatePackageInstall
  <2> HIDE DEF answer, results
  <2> QED BY <2>1, <2>2, <2>3, ReplyKeeps, RefusalIsProper
<1>2. CASE ValidateInstallCommand
  <2> DEFINE pkgs == {AsScanned(p) : p \in ToSet(ParseInstallCommand(Line.words))}
             decision == Worst(DecisionsOf(ScanPackages(pkgs, server, "human", "developer")))
             answer == Result("validate_install_command",
                              AgentInstruction(decision, DecisionAllows(decision, server, Line.by),
                                               Line.by),
                              pkgs)
  <2>1. Reply(Refusal("validate_install_command")) \/ Reply(answer)
    BY <1>2, Zenon DEF ValidateInstallCommand
  <2>2. Proper(answer)
    <3> HIDE DEF pkgs
    <3>1. \A p \in pkgs : SecurityFinding(p, server, FALSE) => decision = "block"
      BY ScanGuards, WorstBlocks
    <3> HIDE DEF decision
    <3>2. decision = "block" => ~DecisionAllows(decision, server, Line.by)
      BY BlockIsRefused
    <3> QED BY <3>1, <3>2, ResultIsProper, InstructionIsSound DEF PolicyOf
  <2>3. UNCHANGED setup
    BY <1>2 DEF ValidateInstallCommand
  <2> HIDE DEF answer
  <2> QED BY <2>1, <2>2, <2>3, ReplyKeeps, RefusalIsProper
<1> QED BY <1>1, <1>2

\* The tools that give no advice, and the lines that call none.
LEMMA OtherLinesKeep ==
  AgentInv /\ (\/ ExplainPackageRisk \/ ScoreLockfile \/ RecordAgentDecision
               \/ GetRecentPackageDecisions \/ Inform \/ SkipBlank \/ ParseError
               \/ TooLong \/ Send \/ Close \/ UNCHANGED agentVars)
    => AgentInv'
<1> DEFINE Unadvised == {"explain_package_risk", "score_lockfile", "record_agent_decision",
                         "get_recent_package_decisions", "inform", "parse"}
<1>1. ASSUME NEW tool \in Unadvised, NEW decision, NEW allowed, NEW scanned
      PROVE  Proper(Result(tool, Advice(decision, allowed, {}), scanned))
  BY ResultIsProper DEF Advice, Harmless, AdvisingTools
<1>2. Proper([Refusal("parse") EXCEPT !.id = 0])
  BY DEF Refusal, Proper, Harmless
<1> SUFFICES ASSUME AgentInv,
                    \/ ExplainPackageRisk \/ ScoreLockfile \/ RecordAgentDecision
                    \/ GetRecentPackageDecisions \/ Inform \/ SkipBlank \/ ParseError
                    \/ TooLong \/ Send \/ Close \/ UNCHANGED agentVars
             PROVE  AgentInv'
  OBVIOUS
<1>3. UNCHANGED setup
  BY DEF ExplainPackageRisk, ScoreLockfile, RecordAgentDecision, GetRecentPackageDecisions,
         Inform, SkipBlank, ParseError, TooLong, Send, Close, agentVars, setup
<1>4. \/ UNCHANGED answers
      \/ \E tool : Reply(Refusal(tool))
      \/ \E tool \in Unadvised : \E decision, allowed, scanned :
            Reply(Result(tool, Advice(decision, allowed, {}), scanned))
      \/ answers' = Append(answers, [Refusal("parse") EXCEPT !.id = 0])
  BY Zenon DEF ExplainPackageRisk, ScoreLockfile, RecordAgentDecision,
     GetRecentPackageDecisions, Inform, SkipBlank, ParseError, TooLong, Send, Close, agentVars
<1> QED BY <1>1, <1>2, <1>3, <1>4, ReplyKeeps, RefusalIsProper

\* Every answer of a session is proper.
LEMMA AgentInvHolds == AgentSpec => []AgentInv
<1>1. AgentInit => AgentInv
  <2>1. AgentInit => answers = <<>>
    BY Zenon DEF AgentInit
  <2>2. ToSet(<<>>) = {} /\ <<>> \in Seq({})
    BY DEF ToSet
  <2> QED BY <2>1, <2>2 DEF AgentInv
<1>2. AgentInv /\ [AgentNext]_agentVars => AgentInv'
  BY PackageToolsKeep, SetToolsKeep, InstructingToolsKeep, OtherLinesKeep DEF AgentNext, Handle
<1> QED BY <1>1, <1>2, PTL DEF AgentSpec

\* Whatever a package is asked about with, in whatever company and session, and
\* whatever the two policies say of agents: a security finding of its artifact stops
\* the agent (the tools of internal/mcp, GetAgentGuidance, agentInstruction).
THEOREM AgentStopsTheorem == AgentSpec => []SecurityFindingStopsAgent
<1>1. AgentInv => SecurityFindingStopsAgent
  BY DEF AgentInv, Proper, SecurityFindingStopsAgent, Answered
<1> QED BY <1>1, AgentInvHolds, PTL

\* No answer of any tool, in any session, lets the agent proceed and forbids it to
\* install (GetAgentGuidance cleans up after its switch, agentInstruction).
THEOREM AdviceTheorem == AgentSpec => []AdviceIsConsistent
<1>1. AgentInv => AdviceIsConsistent
  BY DEF AgentInv, Proper, Harmless, AdviceIsConsistent
<1> QED BY <1>1, AgentInvHolds, PTL

-----------------------------------------------------------------------------
(* Which line an answer is to.                                              *)

Asks(line) == line.kind \in {"call", "inform"} /\ line.id # 0

\* As long as the loop goes on, no request it has read is left without an answer.
NothingPassedOver ==
    status # "failed" =>
        \A i \in 1..(next - 1) : Asks(sent[i]) => \E k \in DOMAIN answers : answers[k].id = i

\* The answers to requests come in the order of the requests, one to each.
AnswersInOrder ==
    \A j, k \in DOMAIN answers :
        j < k /\ answers[j].id # 0 /\ answers[k].id # 0 => answers[j].id < answers[k].id

\* Lines are numbered, and no answer is to a line that has not been read.
Numbered ==
    /\ sent \in Seq(ToSet(sent)) /\ answers \in Seq(ToSet(answers))
    /\ next \in 1..(Len(sent) + 1)
    /\ \A i \in DOMAIN sent : sent[i].id \in {0, i}
    /\ \A k \in DOMAIN answers : answers[k].id \in 0..(next - 1)

OrderInv == Numbered /\ AnswersInOrder /\ NothingPassedOver

\* The turns of the loop: an answer to the line it has read, no answer where none is
\* due, and the end of the loop.
Written ==
    /\ next' = next + 1 /\ UNCHANGED status
    /\ \E a : /\ answers' = Append(answers, a)
              /\ a.id = Line.id \/ (a.id = 0 /\ ~Asks(Line))
Skipped == next' = next + 1 /\ UNCHANGED <<status, answers>> /\ ~Asks(Line)
Broken == status' = "failed" /\ next' \in {next, next + 1} /\ UNCHANGED answers

Turn == Read /\ UNCHANGED sent /\ (Written \/ Skipped \/ Broken)

LEMMA ReplyIsTurn ==
  ASSUME Read, UNCHANGED sent, NEW a, a.id = Line.id, Reply(a)
  PROVE  Turn
<1>1. CASE UNCHANGED status
  BY <1>1 DEF Reply, Replies, Turn, Written, Skipped, Broken, Asks
<1>2. CASE status' = "failed" /\ UNCHANGED answers /\ next' = next + 1
  BY <1>2 DEF Turn, Broken
<1> QED BY <1>1, <1>2 DEF Reply

\* Every handler takes one turn (Serve).
LEMMA HandleIsTurn == Handle => Turn
<1> SUFFICES ASSUME Handle PROVE Turn
  OBVIOUS
<1>1. Read /\ UNCHANGED sent
  BY DEF Handle, CheckPackage, CheckInstallCommand, ExplainPolicyDecision, GetAgentGuidance,
         ValidatePackageInstall, ValidateInstallCommand, ReviewDependencyDiff,
         ExplainPackageRisk, ScoreLockfile, RecordAgentDecision, GetRecentPackageDecisions,
         Inform, SkipBlank, ParseError, TooLong, Calls
<1>2. ASSUME \/ \E tool : Reply(Refusal(tool))
             \/ \E tool, advice, scanned : Reply(Result(tool, advice, scanned))
      PROVE  Turn
  <2>1. \A tool : Refusal(tool).id = Line.id
    BY DEF Refusal
  <2>2. \A tool, advice, scanned : Result(tool, advice, scanned).id = Line.id
    BY DEF Result
  <2> QED BY <1>1, <1>2, <2>1, <2>2, ReplyIsTurn
<1>3. CASE CheckPackage \/ ExplainPolicyDecision \/ GetAgentGuidance \/ ValidatePackageInstall
  BY <1>2, <1>3, Zenon
  DEF CheckPackage, ExplainPolicyDecision, GetAgentGuidance, ValidatePackageInstall
<1>4. CASE CheckInstallCommand \/ ValidateInstallCommand \/ ReviewDependencyDiff
  BY <1>2, <1>4, Zenon DEF CheckInstallCommand, ValidateInstallCommand, ReviewDependencyDiff
<1>5. CASE \/ ExplainPackageRisk \/ ScoreLockfile \/ RecordAgentDecision
           \/ GetRecentPackageDecisions \/ Inform
  BY <1>2, <1>5, Zenon
  DEF ExplainPackageRisk, ScoreLockfile, RecordAgentDecision, GetRecentPackageDecisions, Inform
<1>6. CASE SkipBlank
  BY <1>1, <1>6 DEF SkipBlank, Turn, Skipped, Asks
<1>7. CASE ParseError
  <2>1. [Refusal("parse") EXCEPT !.id = 0].id = 0
    BY DEF Refusal
  <2> QED BY <1>1, <1>7, <2>1 DEF ParseError, Turn, Written, Asks
<1>8. CASE TooLong
  BY <1>1, <1>8 DEF TooLong, Turn, Broken
<1> QED BY <1>3, <1>4, <1>5, <1>6, <1>7, <1>8 DEF Handle

\* A turn answers the line that was read, after those before it.
LEMMA TurnKeepsOrder == OrderInv /\ Turn => OrderInv'
<1> SUFFICES ASSUME OrderInv, Turn PROVE OrderInv'
  OBVIOUS
<1>1. /\ next \in DOMAIN sent /\ Line.id \in {0, next} /\ next \in Nat
      /\ Len(sent) \in Nat /\ DOMAIN sent = 1..Len(sent) /\ next <= Len(sent)
  BY DEF OrderInv, Numbered, Turn, Read, Line
<1>2. CASE Broken
  BY <1>1, <1>2 DEF Broken, Turn, OrderInv, Numbered, AnswersInOrder, NothingPassedOver
<1>3. CASE Skipped
  <2>1. Numbered' /\ AnswersInOrder'
    BY <1>1, <1>3 DEF Skipped, Turn, OrderInv, Numbered, AnswersInOrder
  <2>2. \A i \in 1..(next' - 1) : i \in 1..(next - 1) \/ sent[i] = Line
    BY <1>1, <1>3 DEF Skipped, Line
  <2>3. NothingPassedOver'
    BY <1>1, <1>3, <2>2 DEF Skipped, Turn, OrderInv, NothingPassedOver, Asks
  <2> QED BY <2>1, <2>3 DEF OrderInv
<1>4. CASE Written
  <2>1. PICK a : /\ answers' = Append(answers, a)
                 /\ a.id = Line.id \/ (a.id = 0 /\ ~Asks(Line))
    BY <1>4 DEF Written
  <2> DEFINE n == Len(answers)
  <2>2. /\ n \in Nat /\ DOMAIN answers = 1..n /\ DOMAIN answers' = 1..(n + 1)
        /\ answers'[n + 1] = a /\ \A k \in 1..n : answers'[k] = answers[k]
        /\ answers' \in Seq(ToSet(answers'))
    BY <2>1, AppendedAnswers DEF OrderInv, Numbered
  <2>3. a.id \in {0, next} /\ next' = next + 1 /\ sent' = sent
    BY <1>1, <1>4, <2>1 DEF Written, Turn
  <2> HIDE DEF n
  <2>4. \A k \in 1..n : answers[k].id \in 0..(next - 1)
    BY <2>2 DEF OrderInv, Numbered
  <2>5. \A k \in DOMAIN answers' : answers'[k].id \in 0..(next' - 1)
    BY <1>1, <2>2, <2>3, <2>4
  <2>6. Numbered'
    BY <1>1, <2>2, <2>3, <2>5 DEF OrderInv, Numbered
  <2>7. \A k \in 1..n : answers[k].id < next
    BY <1>1, <2>4
  <2>8. AnswersInOrder'
    BY <1>1, <2>2, <2>3, <2>7 DEF OrderInv, AnswersInOrder
  <2>9. ASSUME status' # "failed", NEW i \in 1..(next' - 1), Asks(sent'[i])
        PROVE  \E k \in DOMAIN answers' : answers'[k].id = i
    <3>1. CASE i \in 1..(next - 1)
      BY <1>4, <2>2, <2>3, <2>9, <3>1 DEF Written, OrderInv, NothingPassedOver
    <3>2. CASE i = next
      <4>1. a.id = next
        BY <1>1, <2>1, <2>3, <2>9, <3>2 DEF Line, Asks
      <4> QED BY <2>2, <3>2, <4>1
    <3> QED BY <1>1, <2>3, <3>1, <3>2
  <2> QED BY <2>6, <2>8, <2>9 DEF OrderInv, NothingPassedOver
<1> QED BY <1>2, <1>3, <1>4 DEF Turn

\* The client numbers its line, whatever the server has read.
LEMMA SendKeepsOrder == OrderInv /\ Send => OrderInv'
<1> SUFFICES ASSUME OrderInv, Send PROVE OrderInv'
  OBVIOUS
<1> DEFINE n == Len(sent)
<1>1. PICK line \in Lines, id \in {0, n + 1} : sent' = Append(sent, [line EXCEPT !.id = id])
  BY DEF Send
<1>2. [line EXCEPT !.id = id].id = id
  BY LinesHaveIds
<1>3. /\ n \in Nat /\ DOMAIN sent = 1..n /\ DOMAIN sent' = 1..(n + 1) /\ Len(sent') = n + 1
      /\ sent'[n + 1].id = id /\ \A k \in 1..n : sent'[k] = sent[k]
      /\ sent' \in Seq(ToSet(sent'))
  BY <1>1, <1>2, AppendedAnswers DEF OrderInv, Numbered
<1>4. UNCHANGED <<next, answers, status>>
  BY DEF Send
<1> HIDE DEF n
<1>5. next \in 1..(n + 1)
  BY DEF OrderInv, Numbered, n
<1>6. Numbered'
  BY <1>3, <1>4, <1>5 DEF OrderInv, Numbered
<1>7. \A i \in 1..(next - 1) : i \in 1..n
  BY <1>3, <1>5
<1>8. NothingPassedOver'
  BY <1>3, <1>4, <1>7 DEF OrderInv, NothingPassedOver, Asks
<1> QED BY <1>4, <1>6, <1>8 DEF OrderInv, AnswersInOrder

\* In every session each request that was read has one answer, and the answers come
\* in the order of the requests, whatever notifications, blank lines and garbage are
\* between them, unless the loop itself failed (Serve): what EveryRequestAnswered
\* needs besides that the loop goes on.
THEOREM AnswersTheorem == AgentSpec => [](NothingPassedOver /\ AnswersInOrder)
<1>1. AgentInit => OrderInv
  <2>1. AgentInit => answers = <<>> /\ sent = <<>> /\ next = 1
    BY Zenon DEF AgentInit
  <2>2. ToSet(<<>>) = {} /\ <<>> \in Seq({}) /\ Len(<<>>) = 0 /\ DOMAIN <<>> = {}
    BY DEF ToSet
  <2> QED BY <2>1, <2>2 DEF OrderInv, Numbered, AnswersInOrder, NothingPassedOver
<1>2. OrderInv /\ Close => OrderInv'
  BY DEF Close, OrderInv, Numbered, AnswersInOrder, NothingPassedOver, Asks
<1>3. OrderInv /\ UNCHANGED agentVars => OrderInv'
  BY DEF agentVars, OrderInv, Numbered, AnswersInOrder, NothingPassedOver, Asks
<1>4. OrderInv /\ [AgentNext]_agentVars => OrderInv'
  BY <1>2, <1>3, HandleIsTurn, TurnKeepsOrder, SendKeepsOrder DEF AgentNext
<1> QED BY <1>1, <1>4, PTL DEF AgentSpec, OrderInv
=============================================================================
