--------------------------- MODULE MCAgentServer ---------------------------
(* Small instances of AgentServer: a package that is asked about, and one    *)
(* that exists under the same name on npm and on crates.io; sessions of two  *)
(* lines; every kind of agent policy.                                        *)
EXTENDS AgentServer

Lib == [eco |-> "npm", name |-> "lib", version |-> "1.0"]
Mod == [eco |-> "cargo", name |-> "mod", version |-> "1.0"]
ModOnNpm == [Mod EXCEPT !.eco = "npm"]
MCPackages == {Lib, Mod, ModOnNpm}

F(id) == Reason(id, "")
World(lib, mod, other) == [p \in MCPackages |-> CASE p = Lib -> lib [] p = Mod -> mod
                                                  [] p = ModOnNpm -> other]
MCWorlds ==
    ("evil"    :> World({}, {F("shell_download_execute")}, {})) @@
    ("suspect" :> World({F("lifecycle_script_present"), F("typosquat_candidate")}, {}, {})) @@
    ("mixed"   :> World({F("shell_download_execute"), F("known_malware_indicator")},
                        {F("known_vulnerability_medium")}, {F("lifecycle_script_present")}))
MalwareWorlds ==
    "malware" :> World({F("known_malware_indicator")}, {F("known_vulnerability_critical")}, {})

Rule(score, class) == [enabled |-> TRUE, score |-> score, strict |-> FALSE, class |-> class]
DefaultRules ==
    [id \in RequiredSecurityBlockRuleIDs \cup {"blocked_package"} |-> Rule(100, "")]
    @@ ("lifecycle_script_present"     :> Rule(20, ""))
    @@ ("typosquat_candidate"          :> Rule(25, ""))
    @@ ("known_vulnerability_critical" :> Rule(70, "policy_block"))
    @@ ("known_vulnerability_medium"   :> Rule(25, ""))
    @@ ("trusted_package_reduction"    :> Rule(-20, ""))
    @@ (AgentReason.id                 :> Rule(15, ""))

Agent(mode, human, stop) == [mode |-> mode, warnRequiresHuman |-> human, blockInstall |-> stop]
Policy(mode, agent, onWarn, log) ==
    [mode |-> mode, allowMax |-> 29, warnMax |-> 69, blockMin |-> 70,
     rules |-> DefaultRules, blockedPackages |-> {}, trustedPackages |-> {},
     blockedRules |-> {}, trustedRules |-> {}, scoped |-> <<>>,
     exceptions |-> {}, agentExceptions |-> FALSE, agent |-> agent,
     mcp |-> [agentOnWarn |-> onWarn, humanOnWarn |-> TRUE], audit |-> log]
MCPolicies ==
    ("default" :> Policy("warn", Agent("warn", TRUE, TRUE), FALSE, "default")) @@
    ("observe" :> Policy("audit", Agent("observe", TRUE, TRUE), FALSE, "off")) @@
    ("lax"     :> Policy("warn", Agent("warn", FALSE, TRUE), TRUE, "custom")) @@
    ("strict"  :> [Policy("block", Agent("block", FALSE, FALSE), FALSE, "default")
                     EXCEPT !.blockedPackages = {"mod"}, !.trustedPackages = {"lib"}])
MCSettings == {<<"default", "strict">>, <<"observe", "default">>, <<"lax", "lax">>,
               <<"strict", "observe">>}
DefaultPolicies == "default" :> Policy("warn", Agent("warn", TRUE, TRUE), FALSE, "default")
DefaultSetting == {<<"default", "default">>}

Call(kind, tool, words, base, head, by, risky) ==
    [kind |-> kind, id |-> 0, tool |-> tool, words |-> words, base |-> base, head |-> head,
     by |-> by, risky |-> risky, limit |-> 2]
About(tool, pkg) == Call("call", tool, <<pkg>>, {}, {}, "ai_agent", FALSE)
Command(tool, words) == Call("call", tool, words, {}, {}, "ai_agent", FALSE)
Files(tool, base, head) == Call("call", tool, <<>>, base, head, "ai_agent", FALSE)
MCLines ==
    {About("check_package", Lib), About("explain_policy_decision", Mod),
     About("get_agent_guidance", Lib), About("validate_package_install", Lib),
     About("validate_package_install", Mod),
     About("explain_package_risk", Lib), About("record_agent_decision", Lib),
     About("get_recent_package_decisions", Lib),
     Call("call", "validate_package_install", <<Lib>>, {}, {}, "human", FALSE),
     Call("call", "validate_package_install", <<Lib>>, {}, {}, "ai_agent", TRUE),
     Call("call", "get_agent_guidance", <<Lib>>, {}, {}, "human", FALSE),
     Command("check_install_command", <<Flag, Lib, Mod>>),
     Command("check_install_command", <<ValueFlag, Lib>>),
     Command("validate_install_command", <<ValueFlag, Lib, Mod, Lib>>),
     Files("review_dependency_diff", {}, {Lib, Mod}),
     Files("review_dependency_diff", {Lib}, {Lib, Mod}),
     Files("score_lockfile", {}, {Lib, ModOnNpm}),
     Call("inform", "", <<>>, {}, {}, "human", FALSE),
     Call("blank", "", <<>>, {}, {}, "human", FALSE),
     Call("garbage", "", <<>>, {}, {}, "human", FALSE),
     Call("tooLong", "", <<>>, {}, {}, "human", FALSE)}
=============================================================================
