-------------------------- MODULE DecisionPipeline --------------------------
(***************************************************************************)
(* One request taken through the decision pipeline of a scanner: resolve   *)
(* the policy, evaluate the findings, apply the policy controls, and, as   *)
(* an offline scan of the stored result does, strip that result, evaluate  *)
(* it again together with the advisories of the local database, and apply  *)
(* the controls again.  The policy files, registry and advisories do not   *)
(* change on the way: what varies is every combination of policy features  *)
(* and findings.                                                           *)
(***************************************************************************)
EXTENDS PolicyResolution

CONSTANTS Packages,      \* the packages asked about, records [eco, name, version]
          FindingSets,   \* what artifact analysis may report: sets of reasons
          RepeatSets,    \* which findings, if there, are reported twice
          AdvisorySets,  \* what advisories may report: sets of reasons
          RepoFiles,     \* what .pkgsafe/policy.yaml may be, NoFile included
          PolicyFiles,   \* what the --policy option may name, NoFile included
          ModeFlags,     \* what the --mode option may say, "" included
          Registries,    \* [name, type, http, claims]: where names resolve
          Environments,  \* "developer", "ci", "ai_agent"
          Requesters     \* "human", "ai_agent"

\* A request is decided under any policy the files and the flag resolve to; one
\* whose policy does not resolve ends before it is decided.
Policies ==
    {ResolvePolicy(choice[1], choice[2], choice[3]) :
        choice \in {c \in RepoFiles \X PolicyFiles \X ModeFlags : Resolves(c[2], c[3])}}

VARIABLES req,      \* the request and everything the decision depends on
          stage,    \* "evaluate" -> "control" -> "done" -> "recontrol" -> "redone"
          res,      \* the result so far
          known,    \* the advisories the latest evaluation was given
          first     \* the result of the first scan, once a second one started

vars == <<req, stage, res, known, first>>

None == [pkg |-> "none"]

Init ==
    /\ req \in [pkg : Packages, findings : FindingSets, advisories : AdvisorySets,
                repeats : RepeatSets, pol : Policies, reg : Registries,
                by : Requesters, env : Environments]
    /\ req.repeats \subseteq req.findings
    /\ stage = "evaluate"
    /\ res = None
    /\ known = {}
    /\ first = None

\* The tail of an online scan: findings of the artifact, some of them reported
\* twice, plus the advisories.
EvaluateScan ==
    /\ stage = "evaluate"
    /\ res' = EvaluateRepeated(req.pkg,
                               StripPolicyGeneratedReasons(req.findings) \cup req.advisories,
                               req.repeats, req.pol)
    /\ known' = req.advisories
    /\ stage' = "control"
    /\ UNCHANGED <<req, first>>

Control ==
    /\ stage \in {"control", "recontrol"}
    /\ res' = ApplyPolicyControls(res, req.pol, req.reg, req.by, req.env)
    /\ stage' = IF stage = "control" THEN "done" ELSE "redone"
    /\ UNCHANGED <<req, known, first>>

\* What OSV reported and the local database may report: never that the lookup was
\* unavailable.  It need not report all of it: an advisory that lists the affected
\* versions loses the list when it is stored, and matches no version afterwards.
OfflineAdvisories == {a \in req.advisories : a.id # "vulnerability_data_unavailable"}

\* The offline branch: the stored result is the input of the next evaluation.
EvaluateCached ==
    /\ stage = "done"
    /\ first' = res
    /\ known' \in SUBSET OfflineAdvisories
    /\ res' = Evaluate(res.pkg, StripPolicyGeneratedReasons(res.reasons) \cup known', req.pol)
    /\ stage' = "recontrol"
    /\ UNCHANGED req

Next == EvaluateScan \/ Control \/ EvaluateCached

Spec == Init /\ [][Next]_vars

-----------------------------------------------------------------------------
Finished == stage \in {"done", "redone"}

Severity(decision) == CASE decision = "allow" -> 0
                        [] decision = "warn"  -> 1
                        [] decision = "block" -> 2

\* The reason that trust gives, which a policy may misdeclare a security block.
TrustReasonID == "trusted_package_reduction"

\* A security reason is final: whatever trust, score reductions, scoped rules
\* and exceptions the policy holds, the result that carries it is a block.
\* (policy_controls.go: "Security blocks are centrally classified and
\* non-overridable".)
SecurityIsFinal ==
    Finished =>
        ((\E r \in res.reasons : r.id # TrustReasonID /\ IsSecurity(req.pol, r))
            => res.decision = "block")

\* A finding of a security rule is never lost between the artifact, or the
\* advisories that were looked up, and the decision, first scan or rescan: the
\* built-in rules under every policy that the files of a repository and of the
\* command line, merged and validated one by one, can make; the others if the
\* policy keeps them enabled.
SecurityFindingBlocks ==
    Finished =>
        ((\E f \in {x \in req.findings : x.id \notin StrippedRuleIDs} \cup known :
              \/ f.id \in RequiredSecurityBlockRuleIDs
              \/ IsSecurity(req.pol, f) /\ RuleEnabled(req.pol, f.id))
            => res.decision = "block")

\* What ApplyPolicyControls would decide if the policy had no exceptions.
WithoutExceptions(before) ==
    ApplyPolicyControls(before, [req.pol EXCEPT !.exceptions = {}],
                        req.reg, req.by, req.env).decision

\* An exception moves a block to a warning and nothing else: it never allows,
\* and where no block was decided it changes nothing.
ExceptionOnlySoftensBlock ==
    [][Control =>
         \/ res'.decision = WithoutExceptions(res)
         \/ WithoutExceptions(res) = "block" /\ res'.decision = "warn"]_vars

\* For the same request an AI agent is decided at least as strictly as a
\* developer, unless the policy grants agents exceptions.
AgentAtLeastAsStrict ==
    [][Control /\ req.env = "ai_agent" /\ ~req.pol.agentExceptions =>
         Severity(res'.decision)
           >= Severity(ApplyPolicyControls(res, req.pol, req.reg,
                                           req.by, "developer").decision)]_vars

\* What a stored result does not keep for its rescan: how often a finding was
\* reported, and the advisories, for which the local database is asked again.
LostToRescan == req.repeats # {} \/ known # OfflineAdvisories

\* Scanning a stored result again, with nothing changed, weakens it only by what
\* is known to be lost: with every finding reported once and every advisory in the
\* local database, the reasons a result keeps reach at least the same decision.
RescanWeakerOnlyByLoss ==
    stage = "redone" /\ ~LostToRescan => Severity(res.decision) >= Severity(first.decision)

\* The policy's own explanation of a block survives: a package under a live
\* blocked-package rule is blocked, or warned about under an exception whose
\* reason the result names.
BlockedRuleHolds ==
    Finished /\ (\E rule \in req.pol.blockedRules : RuleMatches(rule, req.pkg, req.reg))
        => \/ res.decision = "block"
           \/ /\ res.decision = "warn"
              /\ \E r \in res.reasons : r.id = "active_exception"
=============================================================================
