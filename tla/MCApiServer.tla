---------------------------- MODULE MCApiServer ----------------------------
(* Small instances of ApiServer: two connections, a local and a remote        *)
(* client, every configuration Serve tells apart.                             *)
EXTENDS ApiServer, TLC

Body(name, eco, policy, behavior, sandbox, offline) ==
    [decodes |-> TRUE, name |-> name, eco |-> eco, policy |-> policy,
     behavior |-> behavior, sandbox |-> sandbox, offline |-> offline]
Request(from, token, path, post, body) ==
    [from |-> from, token |-> token, path |-> path, post |-> post, body |-> body]

Plain == Body(TRUE, "", "", "", "", "")
TooBig == [Plain EXCEPT !.decodes = FALSE]
MCClients == {"local", "remote"}
MCLocal == {"local"}
MCRequests ==
    {Request("local", FALSE, "status", FALSE, Plain),
     Request("local", TRUE, "scan", TRUE, Body(TRUE, "npm", "strict", "isolated", "", "off")),
     Request("remote", FALSE, "scan", TRUE, Plain),
     Request("remote", TRUE, "policy", TRUE, TooBig)}
MCPolicies == ("" :> "disabled") @@ ("strict" :> "heuristic")

Config(loopback, token, tls) ==
    [loopback |-> loopback, token |-> token, tls |-> tls, offline |-> FALSE, policy |-> ""]
MCConfigs == {Config(TRUE, FALSE, FALSE), Config(TRUE, TRUE, FALSE), Config(FALSE, TRUE, TRUE),
              Config(FALSE, FALSE, TRUE), Config(FALSE, TRUE, FALSE)}

Symmetry == Permutations(Handlers)
=============================================================================
