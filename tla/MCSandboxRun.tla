---------------------------- MODULE MCSandboxRun ----------------------------
(* Small instances of SandboxRun: packages of up to two scripts, each with a   *)
(* child it may leave behind, on hosts with and without bubblewrap.            *)
EXTENDS SandboxRun

Request(mode, offline, network, keep, blocked, scripts) ==
    [mode |-> mode, offline |-> offline, network |-> network, keep |-> keep,
     blocked |-> blocked, scripts |-> scripts]
Benign == {}
Steals == {"fetch", "pipe to shell", "npmrc", "spawn"}
MCRequests ==
    {Request(m, o, "disabled", FALSE, b, IF o THEN <<Steals>> ELSE <<Benign, Steals>>) :
        m \in {"disabled", "heuristic", "isolated"}, o, b \in BOOLEAN}
    \cup {Request("isolated", o, "host", TRUE, FALSE, <<Steals>>) : o \in BOOLEAN}
HeuristicRequests == {Request("heuristic", FALSE, "disabled", FALSE, FALSE, <<Benign>>)}
MCHosts == {[unix |-> TRUE, bwrap |-> TRUE], [unix |-> TRUE, bwrap |-> FALSE]}
MCCanaries == {"npmrc"}
MCRules == {"npm_token_access", "credential_canary_read", "lifecycle_script_nonzero_exit",
            "credential_canary_exfiltration_attempt", "shell_download_execute",
            "child_process_spawn", "unexpected_binary_write", "network_call_from_lifecycle"}
=============================================================================
