---------------------------- MODULE RiskDecision ----------------------------
(***************************************************************************)
(* The pure part of PkgSafe: how findings, a policy and a registry become  *)
(* a decision.  It translates risk.Evaluate (internal/risk/risk.go), the   *)
(* controls applied after it (internal/risk/policy_controls.go) and the    *)
(* policy look-ups both rely on (internal/policy).                         *)
(*                                                                         *)
(* Data.  A package is [eco, name, version]; version "" means unspecified. *)
(* A reason is [id, ev]: the rule it came from and its evidence; since     *)
(* every result is deduplicated by that key, a result's reasons are a set. *)
(* A name pattern of the policy is the set of names it matches, and a      *)
(* version range the set of versions it admits.  The rules and exceptions  *)
(* of a policy are those that have not expired.                            *)
(***************************************************************************)
EXTENDS Integers, Sequences, FiniteSets, FiniteSetsExt, SequencesExt

\* policy.SecurityBlockRuleIDs: the taxonomy no policy may weaken.
SecurityBlockRuleIDs ==
    {"known_malware_indicator", "credential_path_reference",
     "credential_canary_read", "credential_canary_exfiltration_attempt",
     "npm_token_access", "ssh_key_access", "env_secret_access",
     "pypi_setup_py_credential_access", "pypi_credential_path_access",
     "pypi_env_secret_access", "cloud_metadata_access",
     "pypi_cloud_metadata_access", "shell_download_execute",
     "pypi_setup_py_network_call", "dependency_confusion_candidate",
     "private_scope_public_registry", "private_prefix_public_registry",
     "unapproved_registry_url", "provenance_identity_mismatch",
     "archive_traversal_attempt"}

\* policy.RequiredSecurityBlockRuleIDs: those every valid policy keeps enabled.
RequiredSecurityBlockRuleIDs ==
    {"known_malware_indicator", "credential_path_reference",
     "credential_canary_read", "credential_canary_exfiltration_attempt",
     "cloud_metadata_access", "npm_token_access", "ssh_key_access",
     "env_secret_access", "shell_download_execute",
     "pypi_setup_py_network_call", "pypi_setup_py_credential_access",
     "dependency_confusion_candidate", "private_scope_public_registry",
     "unapproved_registry_url"}

NoVersion == ""
AnyRegistry == "*"

Reason(id, ev) == [id |-> id, ev |-> ev]

\* A reason that is given under a condition.
When(condition, reason) == IF condition THEN {reason} ELSE {}

\* The taxonomy first, then the class the policy declares; "" declares none.
EnforcementClassFor(pol, id) ==
    IF id \in SecurityBlockRuleIDs THEN "security_block"
    ELSE IF id = "blocked_package" THEN "policy_block"
    ELSE IF id \in DOMAIN pol.rules /\ pol.rules[id].class # ""
         THEN pol.rules[id].class
    ELSE "advisory"

IsSecurity(pol, reason) == EnforcementClassFor(pol, reason.id) = "security_block"

\* An enabled rule of the policy: policy.RuleFor succeeds.
RuleEnabled(pol, id) == id \in DOMAIN pol.rules /\ pol.rules[id].enabled

\* Policy lists exist for two ecosystems only; Go and Cargo have none.
Listed(names, pkg) == pkg.eco \in {"npm", "pypi"} /\ pkg.name \in names

-----------------------------------------------------------------------------
(* policy.Validate, as far as the decision depends on it.                  *)

\* The checks of the mode, the thresholds and the rules, with the hard blocks.
\* Unlike the last check they also hold of a policy merged from two files.
SoundPolicy(pol) ==
    /\ pol.mode \in {"audit", "warn", "block"}
    /\ {pol.allowMax, pol.warnMax, pol.blockMin} \subseteq 0..100
    /\ pol.allowMax < pol.warnMax /\ pol.warnMax < pol.blockMin
    /\ \A id \in DOMAIN pol.rules :
          /\ pol.rules[id].score \in -100..100
          /\ id \in SecurityBlockRuleIDs =>
                pol.rules[id].class \in {"", "security_block"}
    /\ \A id \in RequiredSecurityBlockRuleIDs \cup {"blocked_package"} :
          RuleEnabled(pol, id) /\ pol.rules[id].score >= pol.blockMin

\* No entry is in both lists; each file is checked, their merger is not.
ValidPolicy(pol) ==
    /\ SoundPolicy(pol)
    /\ \A t \in pol.trustedRules, b \in pol.blockedRules :
          t.names = b.names => t.versions # b.versions

-----------------------------------------------------------------------------
(* risk.Evaluate: score the findings, the block list and the trust list.   *)

\* A variant with a defect, which the properties must notice (so are all the
\* definitions below whose name ends in an underscore and the defect): the
\* forced block is forgotten.
Decide_ScoreOnly(score, forced, allowMax, warnMax, blockMin) ==
    IF score >= blockMin                         THEN "block"
    ELSE IF score > allowMax /\ score <= warnMax THEN "warn"
    ELSE "allow"

\* The score threshold ladder.  A score in the gap between warnMax and
\* blockMin is neither: it falls through to "allow".
Decide(score, forced, allowMax, warnMax, blockMin) ==
    IF forced \/ score >= blockMin           THEN "block"
    ELSE IF score > allowMax /\ score <= warnMax THEN "warn"
    ELSE "allow"

Clamp(v) == IF v < 0 THEN 0 ELSE IF v > 100 THEN 100 ELSE v

\* A finding whose rule forces a block whatever the score.
Forces(pol, f) ==
    \/ EnforcementClassFor(pol, f.id) \in {"security_block", "policy_block"}
    \/ pol.rules[f.id].strict /\ pol.mode = "block"

SumOfScores(pol, reasons) == MapThenSumSet(LAMBDA r : pol.rules[r.id].score, reasons)

\* The findings, and those of them that are reported a second time (as sandbox
\* findings of PyPI are): each report counts in the score, but the result names
\* what is the same only once.
EvaluateRepeated(pkg, findings, repeats, pol) ==
    LET kept    == {f \in findings : RuleEnabled(pol, f.id)}
        blocked == Listed(pol.blockedPackages, pkg)
        forced  == blocked \/ \E f \in kept : Forces(pol, f)
        listed  == When(blocked /\ RuleEnabled(pol, "blocked_package"),
                        Reason("blocked_package", "list"))
        trusted == When(/\ Listed(pol.trustedPackages, pkg) /\ ~forced
                        /\ RuleEnabled(pol, "trusted_package_reduction"),
                        Reason("trusted_package_reduction", "list"))
        reasons == kept \cup listed \cup trusted
        score   == Clamp(SumOfScores(pol, reasons) + SumOfScores(pol, kept \cap repeats))
    IN  [pkg      |-> pkg,
         score    |-> score,
         decision |-> Decide(score, forced, pol.allowMax, pol.warnMax, pol.blockMin),
         reasons  |-> reasons]

Evaluate(pkg, findings, pol) == EvaluateRepeated(pkg, findings, {}, pol)

-----------------------------------------------------------------------------
(* risk.ApplyPolicyControls.                                               *)

\* An unspecified version is in every range.
InRange(pkg, versions) == pkg.version = NoVersion \/ pkg.version \in versions

\* FindBlockedPackageRule and FindTrustedPackageRule match alike.
RuleMatches(rule, pkg, reg) ==
    /\ pkg.name \in rule.names
    /\ InRange(pkg, rule.versions)
    /\ rule.registry \in {AnyRegistry, reg.name}

\* FindActiveException: an exception limited to some environments also matches
\* a caller that states none.
ExceptionMatches(exc, pkg, env) ==
    /\ pkg.name \in exc.names
    /\ InRange(pkg, exc.versions)
    /\ exc.envs = {} \/ env = "" \/ env \in exc.envs

MatchScopedRule(rule, pkg, reg, by) ==
    /\ pkg.name \in rule.names
    /\ rule.registry \in {AnyRegistry, reg.name}
    /\ rule.by \in {"", by}

\* Findings about where the package was resolved from, with fixed impacts.
\* reg.claims holds the names that belong to another, private registry.
CheckPrivateRegistryRules(pkg, reg) ==
    LET public  == reg.type = "public" \/ reg.name = "default"
        claimed == public /\ pkg.eco \in {"npm", "pypi"} /\ pkg.name \in reg.claims
    IN  When(reg.http, Reason("http_registry_warning", reg.name))
          \cup When(claimed, Reason("private_scope_public_registry", "scope"))
          \cup When(claimed, Reason("dependency_confusion_candidate", "scope"))
          \cup When(reg.name = "", Reason("unapproved_registry_url", ""))

RegistryImpact(r) == IF r.id = "http_registry_warning" THEN 40 ELSE 100

UnknownRegistry(reg) == reg.name \in {"", "default"} \/ reg.type = "unknown"

\* The last matching scoped rule that sets a threshold decides it.
LastPositive(values, default) ==
    FoldLeft(LAMBDA acc, v : IF v > 0 THEN v ELSE acc, default, values)

BlockedByRule(pol, pkg, reg) == \E rule \in pol.blockedRules : RuleMatches(rule, pkg, reg)
TrustedByRule(pol, pkg, reg) == \E rule \in pol.trustedRules : RuleMatches(rule, pkg, reg)

MatchedScopes(pol, pkg, reg, by) ==
    SelectSeq(pol.scoped, LAMBDA rule : MatchScopedRule(rule, pkg, reg, by))

\* The reasons known when security reasons are looked for.
ControlReasons(res, pol, reg, by) ==
    LET matched == MatchedScopes(pol, res.pkg, reg, by)
        unknown == /\ UnknownRegistry(reg)
                   /\ \E i \in DOMAIN matched : matched[i].blockOnUnknown
    IN  res.reasons
          \cup CheckPrivateRegistryRules(res.pkg, reg)
          \cup When(BlockedByRule(pol, res.pkg, reg), Reason("blocked_package", "rule"))
          \cup When(unknown, Reason("unknown_registry_block", ""))

HasSecurity(pol, reasons) == \E r \in reasons : IsSecurity(pol, r)

\* A trusted-package rule counts neither against a blocked-package rule nor
\* against a security reason.
TrustApplies(res, pol, reg, by) ==
    /\ TrustedByRule(pol, res.pkg, reg)
    /\ ~BlockedByRule(pol, res.pkg, reg)
    /\ ~HasSecurity(pol, ControlReasons(res, pol, reg, by))

\* A registry finding adds its impact again even if the result already holds
\* it; a blocked-package rule and an unknown registry set the score.
ControlScore(res, pol, reg, by) ==
    LET base   == IF BlockedByRule(pol, res.pkg, reg) THEN 100
                  ELSE res.score + MapThenSumSet(RegistryImpact,
                                                 CheckPrivateRegistryRules(res.pkg, reg))
        scoped == FoldLeft(LAMBDA acc, rule :
                              IF rule.blockOnUnknown /\ UnknownRegistry(reg)
                              THEN 100 ELSE acc + rule.delta,
                           base, MatchedScopes(pol, res.pkg, reg, by))
    IN  Clamp(scoped - (IF TrustApplies(res, pol, reg, by) THEN 20 ELSE 0))

\* The decision on the score; the matching scopes may replace two thresholds.
ControlDecision(res, pol, reg, by) ==
    LET matched == MatchedScopes(pol, res.pkg, reg, by)
    IN  Decide(ControlScore(res, pol, reg, by),
               \/ BlockedByRule(pol, res.pkg, reg)
               \/ HasSecurity(pol, ControlReasons(res, pol, reg, by)),
               pol.allowMax,
               LastPositive([i \in DOMAIN matched |-> matched[i].warnMin], pol.warnMax),
               LastPositive([i \in DOMAIN matched |-> matched[i].blockMin], pol.blockMin))

\* Everything before the exceptions.
BeforeExceptions(res, pol, reg, by) ==
    [reasons  |-> ControlReasons(res, pol, reg, by)
                    \cup When(TrustApplies(res, pol, reg, by),
                              Reason("trusted_package_reduction", "rule")),
     score    |-> ControlScore(res, pol, reg, by),
     security |-> HasSecurity(pol, ControlReasons(res, pol, reg, by)),
     matched  |-> MatchedScopes(pol, res.pkg, reg, by),
     decision |-> ControlDecision(res, pol, reg, by)]

Excepted_SecurityToo(b, pkg, pol, env) ==
    /\ env = "ai_agent" => pol.agentExceptions
    /\ \E exc \in pol.exceptions : ExceptionMatches(exc, pkg, env)
    /\ b.decision = "block"

Excepted_AnyDecision(b, pkg, pol, env) ==
    /\ env = "ai_agent" => pol.agentExceptions
    /\ \E exc \in pol.exceptions : ExceptionMatches(exc, pkg, env)
    /\ ~b.security

Excepted_AgentsToo(b, pkg, pol, env) ==
    /\ \E exc \in pol.exceptions : ExceptionMatches(exc, pkg, env)
    /\ b.decision = "block" /\ ~b.security

\* A live exception turns a block into a warning unless a security reason
\* holds; an AI agent has exceptions only if the policy grants them.
Excepted(b, pkg, pol, env) ==
    /\ env = "ai_agent" => pol.agentExceptions
    /\ \E exc \in pol.exceptions : ExceptionMatches(exc, pkg, env)
    /\ b.decision = "block" /\ ~b.security

\* A scoped rule may refuse to install what is only warned about.
Refused(b, decision) ==
    /\ decision = "warn"
    /\ \E i \in DOMAIN b.matched : ~b.matched[i].warnInstallAllowed

Softened(b, pkg, pol, env) == IF Excepted(b, pkg, pol, env) THEN "warn" ELSE b.decision

Conclude(b, pkg, pol, env) ==
    [pkg      |-> pkg,
     score    |-> b.score,
     decision |-> IF Refused(b, Softened(b, pkg, pol, env)) THEN "block"
                  ELSE Softened(b, pkg, pol, env),
     reasons  |-> b.reasons
                    \cup When(Excepted(b, pkg, pol, env), Reason("active_exception", ""))
                    \cup When(Refused(b, Softened(b, pkg, pol, env)),
                              Reason("scoped_warn_block", ""))]

ApplyPolicyControls(res, pol, reg, by, env) ==
    Conclude(BeforeExceptions(res, pol, reg, by), res.pkg, pol, env)

-----------------------------------------------------------------------------
(* What the scanners drop from a result before they evaluate it again.     *)

StrippedRuleIDs ==
    {"trusted_package_reduction", "blocked_package",
     "known_vulnerability_critical", "known_vulnerability_high",
     "known_vulnerability_medium", "known_vulnerability_low",
     "known_malware_indicator"}

StripPolicyGeneratedReasons_Security(reasons) ==
    {r \in reasons : r.id \notin StrippedRuleIDs \cup SecurityBlockRuleIDs}

StripPolicyGeneratedReasons_Unavailable(reasons) ==
    {r \in reasons : r.id \notin StrippedRuleIDs \cup {"vulnerability_data_unavailable"}}

StripPolicyGeneratedReasons(reasons) ==
    {r \in reasons : r.id \notin StrippedRuleIDs}
=============================================================================
