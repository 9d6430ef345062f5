-------------------------- MODULE PolicyResolution --------------------------
(***************************************************************************)
(* Where the policy of a decision comes from: policy.Load reads a file     *)
(* over the built-in policy and validates it, policy.Merge lays one policy *)
(* over another, and policy.ResolvePolicy combines the built-in policy,    *)
(* the file of the repository, the file named on the command line and the  *)
(* mode flag (internal/policy/policy.go, resolver.go).                     *)
(*                                                                         *)
(* Data.  A file is a record with the fields it states, among those of a   *)
(* policy; "rules" maps the identifiers it mentions to the properties it   *)
(* states of them.  Two more fields say how it reads: "malformed", that    *)
(* the line parser or a check no decision depends on (severities, wording, *)
(* wildcards, settings of installations) refuses it; "garbled", that the   *)
(* YAML library cannot decode the governance lists.                        *)
(***************************************************************************)
EXTENDS RiskDecision

NoFile == [absent |-> TRUE]

RuleFields == {"enabled", "score", "strict", "class"}
GovernanceFields == {"trustedRules", "blockedRules", "exceptions", "scoped",
                     "agentMode", "agentExceptions"}
PolicyFields == {"mode", "allowMax", "warnMax", "blockMin", "rules",
                 "trustedPackages", "blockedPackages"} \cup GovernanceFields

-----------------------------------------------------------------------------
(* policy.Default.                                                         *)

\* The rules that are worth 100 points, and the others by their worth.
CriticalRules ==
    RequiredSecurityBlockRuleIDs
      \cup {"blocked_package", "pypi_base64_exec_payload", "env_secret_exfil",
            "pypi_credential_path_access", "pypi_cloud_metadata_access",
            "private_scope_public_registry"}
StrictRules == {"network_command_in_lifecycle", "vulnerability_data_unavailable",
                "shell_execution_in_build", "shell_execution", "init_side_effect"}

RulesWorth(score) ==
    CASE score = 100 -> CriticalRules
      [] score = 70 -> {"known_vulnerability_critical"}
      [] score = 60 -> {"pypi_build_requires_direct_reference"}
      [] score = 50 -> {"known_vulnerability_high", "vulnerability_data_unavailable",
                        "pypi_setup_py_shell_execution", "shell_execution_in_build"}
      [] score = 45 -> {"pypi_in_tree_build_backend", "pypi_eval_exec_usage"}
      [] score = 40 -> {"network_call_from_lifecycle", "encoded_payload_execution",
                        "pypi_yanked_release", "pypi_compiled_bytecode_payload",
                        "pypi_network_call", "pypi_env_secret_access",
                        "http_registry_warning", "encoded_payload",
                        "shell_execution", "init_side_effect"}
      [] score = 35 -> {"secret_keyword_reference", "pypi_wheel_record_unlisted_files"}
      [] score = 30 -> {"unresolved_dynamic_import", "network_command_in_lifecycle",
                        "unexpected_binary_write", "direct_url_dependency"}
      [] score = 25 -> {"obfuscated_script", "typosquat_candidate",
                        "known_vulnerability_medium", "ai_package_squatting_candidate",
                        "pypi_wheel_record_missing", "pypi_ai_package_squatting_candidate"}
      [] score = 20 -> {"lifecycle_script_present", "child_process_spawn",
                        "home_directory_enumeration", "environment_variable_enumeration",
                        "pypi_unknown_build_backend", "pypi_native_extension",
                        "suspicious_build_dependency", "artifact_oversized"}
      [] score = 15 -> {"undeclared_source_import", "direct_use_of_transitive_dependency",
                        "new_package", "ai_agent_requested_suspicious_package",
                        "pypi_source_distribution_only", "pypi_setup_py_present",
                        "unsafe_memory_operation"}
      [] score = 10 -> {"package_json_lockfile_mismatch", "missing_repository",
                        "known_vulnerability_low"}
      [] score = 5  -> {"missing_license"}
      [] score = -20 -> {"trusted_package_reduction"}

Scores == {100, 70, 60, 50, 45, 40, 35, 30, 25, 20, 15, 10, 5, -20}
KnownRules == UNION {RulesWorth(score) : score \in Scores}

DefaultRules ==
    [id \in KnownRules |->
        [enabled |-> TRUE,
         score   |-> CHOOSE score \in Scores : id \in RulesWorth(score),
         strict  |-> id \in StrictRules,
         class   |-> IF id = "known_vulnerability_critical" THEN "policy_block" ELSE ""]]

\* Names of both ecosystems in one set: no instance uses one of them elsewhere.
Default ==
    [mode |-> "warn", allowMax |-> 29, warnMax |-> 69, blockMin |-> 70,
     rules |-> DefaultRules,
     trustedPackages |-> {"lodash", "axios", "react", "express", "typescript",
                          "requests", "flask", "django", "fastapi", "numpy",
                          "pandas", "pydantic", "pytest"},
     blockedPackages |-> {}, trustedRules |-> {}, blockedRules |-> {},
     exceptions |-> {}, scoped |-> <<>>,
     agentMode |-> "warn", agentExceptions |-> FALSE]

-----------------------------------------------------------------------------
(* policy.Load.                                                            *)

Says(file, field) == field \in DOMAIN file

\* A rule that is mentioned keeps the properties the file does not state.
OverlayRule(rule, stated) ==
    [p \in RuleFields |-> IF p \in DOMAIN stated THEN stated[p] ELSE rule[p]]

OverlayRules(rules, stated) ==
    [id \in DOMAIN rules |->
        IF id \in DOMAIN stated THEN OverlayRule(rules[id], stated[id]) ELSE rules[id]]

\* What the sections of the file make of a field.
Stated(file, field) ==
    IF field = "rules" THEN OverlayRules(DefaultRules, file.rules) ELSE file[field]

\* The file over the built-in policy: a list that is stated replaces the
\* built-in one, even by an empty one; what cannot be decoded states nothing.
Overlay(file) ==
    [field \in PolicyFields |->
        IF \/ ~Says(file, field)
           \/ Says(file, "garbled") /\ field \in GovernanceFields
        THEN Default[field]
        ELSE Stated(file, field)]

Loads_Unchecked(file) ==
    /\ ~Says(file, "absent") /\ ~Says(file, "malformed")
    /\ Says(file, "rules") => DOMAIN file.rules \subseteq KnownRules

\* Load returns no error: the file is there, every line of it is understood,
\* it mentions rules of the built-in policy only, and the result is valid.
Loads(file) ==
    /\ ~Says(file, "absent") /\ ~Says(file, "malformed")
    /\ Says(file, "rules") => DOMAIN file.rules \subseteq KnownRules
    /\ ValidPolicy(Overlay(file))

-----------------------------------------------------------------------------
(* policy.Merge and policy.ResolvePolicy.                                  *)

Empty(field, value) == value = (IF field = "scoped" THEN <<>> ELSE {})

\* A list that is empty, a lowest blocking score of zero and an unnamed mode
\* leave what they would override; rules are replaced one by one.
MergedField(field, base, over) ==
    CASE field = "mode" -> IF over.mode # "" THEN over.mode ELSE base.mode
      [] field \in {"allowMax", "warnMax", "blockMin"} ->
            IF over.blockMin > 0 THEN over[field] ELSE base[field]
      [] field = "rules" ->
            [id \in DOMAIN base.rules \cup DOMAIN over.rules |->
                IF id \in DOMAIN over.rules THEN over.rules[id] ELSE base.rules[id]]
      [] field \in {"agentMode", "agentExceptions"} ->
            IF over.agentMode # "" THEN over[field] ELSE base[field]
      [] OTHER -> IF Empty(field, over[field]) THEN base[field] ELSE over[field]

\* A policy that was loaded has the fields of the built-in policy for what its
\* file does not state, and those override too: mode, thresholds, rules, agent
\* settings and the trust list of the base survive in no case but an empty list.
Merge(base, over) == [field \in PolicyFields |-> MergedField(field, base, over)]

\* The file of the repository is passed over when it cannot be loaded.
RepositoryPolicy(repo) == IF Loads(repo) THEN Merge(Default, Overlay(repo)) ELSE Default

\* policy.ParseMode knows three modes; no flag leaves the mode as it is.
ApplyMode(pol, flag) == IF flag = "" THEN pol ELSE [pol EXCEPT !.mode = flag]

\* The file of the command line and the flag must be right; the file may be
\* left out.  Nothing validates the outcome.
Resolves(cli, flag) ==
    /\ cli = NoFile \/ Loads(cli)
    /\ flag \in {"", "audit", "warn", "block"}

ResolvePolicy(repo, cli, flag) ==
    ApplyMode(IF cli = NoFile THEN RepositoryPolicy(repo)
              ELSE Merge(RepositoryPolicy(repo), Overlay(cli)), flag)
=============================================================================
