-------------------------- MODULE MCScanLifecycle --------------------------
(* Small instances of ScanLifecycle.                                        *)
EXTENDS ScanLifecycle

Finding(id) == Reason(id, "")
Rule(score, strict, class) ==
    [enabled |-> TRUE, score |-> score, strict |-> strict, class |-> class]

DefaultRules ==
    [id \in RequiredSecurityBlockRuleIDs \cup {"blocked_package"} |-> Rule(100, FALSE, "")]
    @@ ("lifecycle_script_present"       :> Rule(20, FALSE, ""))
    @@ ("vulnerability_data_unavailable" :> Rule(50, TRUE, ""))
    @@ ("known_vulnerability_high"       :> Rule(50, FALSE, ""))
    @@ ("http_registry_warning"          :> Rule(40, FALSE, ""))
    @@ ("trusted_package_reduction"      :> Rule(-20, FALSE, ""))

\* The default registry of npm is public; the others fall back to PyPI's.
PublicRegistry == [name |-> "default", type |-> "public", http |-> FALSE,
                   claims |-> {}, enabled |-> TRUE]

DefaultPolicy ==
    [mode |-> "warn", allowMax |-> 29, warnMax |-> 69, blockMin |-> 70,
     rules |-> DefaultRules, blockedPackages |-> {}, trustedPackages |-> {},
     blockedRules |-> {}, trustedRules |-> {}, scoped |-> <<>>,
     exceptions |-> {}, agentExceptions |-> FALSE,
     registryOf |-> [n \in Names |-> PublicRegistry]]

All == [names |-> Names, versions |-> Versions, registry |-> AnyRegistry]
Waiver == [names |-> Names, versions |-> Versions, envs |-> {}]

\* Trusting and forgiving as far as a valid policy can be.
LenientPolicy ==
    [DefaultPolicy EXCEPT !.trustedRules = {All}, !.trustedPackages = Names,
                          !.exceptions = {Waiver}]
\* Blocking the npm package by rule, the PyPI package by list, and refusing
\* the registry of the Go module.
StrictPolicy ==
    [DefaultPolicy EXCEPT !.blockedRules = {[All EXCEPT !.names = {"app"}]},
                          !.blockedPackages = {"lib"},
                          !.registryOf = [n \in Names |-> [PublicRegistry EXCEPT !.enabled = n # "mod"]]]
LenientAndStrict == {LenientPolicy, StrictPolicy}

EcosystemOf == [n \in Names |-> CASE n \in {"app", "fork"} -> "npm" [] n = "lib" -> "pypi" [] n = "mod" -> "go"]
LatestOf == [n \in Names |-> IF "2.0" \in Versions THEN "2.0" ELSE "1.0"]

\* Version 2.0 of everything downloads and runs a script; 1.0 is harmless.
Contents == [k \in Names \X Versions |->
                IF k[2] = "2.0" THEN {Finding("shell_download_execute")}
                                ELSE {Finding("lifecycle_script_present")}]
\* Version 1.0 of the fork, which is harmless, says that it is version 2.0 of the
\* package, which is not.
DeclaredBy == [k \in Names \X Versions |-> IF k = <<"fork", "1.0">> THEN <<"app", "2.0">> ELSE k]
\* Behavior analysis would see 1.0 read a credential file.
Behavior == [k \in Names \X Versions |->
                IF k[2] = "1.0" THEN {Finding("credential_canary_read")} ELSE {}]

Malware(name) == [name |-> name, versions |-> {"1.0"},
                  ranged |-> TRUE, reason |-> Reason("known_malware_indicator", "MAL-1")]
\* One advisory, published with ranges or with only a list of versions.
KnownMalware == {Malware("lib"), [Malware("lib") EXCEPT !.ranged = FALSE]}
Procs2Symmetry == Permutations(Procs)
=============================================================================
