------------------------- MODULE MCDecisionPipeline -------------------------
(* Small instances of DecisionPipeline: one package per role, policy files  *)
(* that state one feature each, and their combinations.                     *)
EXTENDS DecisionPipeline

App == [eco |-> "npm", name |-> "app", version |-> "1.0"]
Mod == [eco |-> "go", name |-> "mod", version |-> "1.0"]
MCPackages == {App, Mod}

Finding(id) == Reason(id, "")
MCFindingSets ==
    {{}, {Finding("lifecycle_script_present")}, {Finding("shell_download_execute")},
     {Finding("typosquat_candidate"), Finding("lifecycle_script_present")},
     {Finding("shell_execution")}, {Finding("pypi_credential_path_access")}}
MCRepeatSets == {{}, {Finding("shell_execution")}}
Advisory(id) == Reason(id, "OSV")
MCAdvisorySets ==
    {{}, {Advisory("known_malware_indicator")}, {Advisory("known_vulnerability_critical")},
     {Advisory("known_vulnerability_high")}, {Finding("vulnerability_data_unavailable")}}

AppRule == [names |-> {"app"}, versions |-> {"1.0"}, registry |-> AnyRegistry]
AnyRule == [names |-> {"app", "mod"}, versions |-> {"1.0", "2.0"}, registry |-> AnyRegistry]
AppException == [names |-> {"app", "mod"}, versions |-> {"1.0"}, envs |-> {}]
CiException  == [AppException EXCEPT !.envs = {"ci"}]
AgentException == [AppException EXCEPT !.envs = {"ai_agent"}]

Scoped(delta, onUnknown, blockMin, warnMin, warnAllowed, by) ==
    [names |-> {"app"}, registry |-> AnyRegistry, by |-> by, delta |-> delta,
     blockOnUnknown |-> onUnknown, blockMin |-> blockMin, warnMin |-> warnMin,
     warnInstallAllowed |-> warnAllowed]
AgentStrict == Scoped(0, TRUE, 0, 0, FALSE, "ai_agent")
TeamTrust   == Scoped(-60, FALSE, 0, 0, TRUE, "")
LowBar      == Scoped(5, FALSE, 50, 40, TRUE, "")

\* What a repository says of packages, in every combination.
MCRepoFiles ==
    {[blockedPackages |-> bl, trustedRules |-> r[1], blockedRules |-> r[2]] :
        bl \in {{}, {"app"}},
        r \in {<<{}, {}>>, <<{AnyRule}, {}>>, <<{AnyRule}, {AppRule}>>}}
    \* a file that is passed over: its trust contradicts its block
    \cup {NoFile, [trustedRules |-> {AppRule}, blockedRules |-> {AppRule}]}

\* What the command line adds: trust, scopes and exceptions in every combination,
\* stricter thresholds, and files that may not be loaded: one contradicts the
\* repository's, one switches a security rule off, one moves the thresholds
\* above its score, one demotes it.
Malware == "known_malware_indicator"
MCPolicyFiles ==
    {[trustedPackages |-> tl, scoped |-> s, exceptions |-> x[1], agentExceptions |-> x[2]] :
        tl \in {{}, {"app"}},
        s \in {<<>>, <<AgentStrict>>, <<TeamTrust, LowBar>>},
        x \in {<<{}, FALSE>>, <<{AppException}, FALSE>>, <<{CiException}, TRUE>>,
               <<{AgentException}, FALSE>>}}
    \cup {NoFile,
          [malformed |-> TRUE],
          [blockedRules |-> {AnyRule}, garbled |-> TRUE],
          [blockedRules |-> {AnyRule}, trustedRules |-> {AppRule}, blockMin |-> 60,
           warnMax |-> 45, rules |-> (Malware :> [score |-> 60])],
          [rules |-> (Malware :> [enabled |-> FALSE])],
          [rules |-> (Malware :> [score |-> 60])],
          [rules |-> (Malware :> [class |-> "advisory"])]}

Registry(name, type, http, claims) ==
    [name |-> name, type |-> type, http |-> http, claims |-> claims]
MCRegistries ==
    {Registry("default", "private", FALSE, {"app"}), Registry("corp", "private", FALSE, {}),
     Registry("mirror", "private", TRUE, {}), Registry("", "unknown", FALSE, {})}
=============================================================================
