---------------------------- MODULE MCInstallGate ----------------------------
(* Small instances of InstallGate: a package that is always clean, one whose  *)
(* second release goes bad in different ways, and one known as malware.       *)
EXTENDS InstallGate

Clean   == [decision |-> "allow", reasons |-> {}]
Warned  == [decision |-> "warn", reasons |-> {"lifecycle_script_present"}]
Stealer == [decision |-> "block", reasons |-> {"pypi_credential_path_access"}]
Canary  == [decision |-> "block", reasons |-> {"credential_canary_read"}]
Malware == [decision |-> "block", reasons |-> {"known_malware_indicator"}]

MCVerdict ==
    [k \in Names \X (1..MaxRelease) |->
        CASE k[1] = "lib"  -> IF k[2] = 1 THEN Clean ELSE Warned
          [] k[1] = "tool" -> IF k[2] = 1 THEN Stealer ELSE Canary
          [] k[1] = "evil" -> Malware]

Exact(name, release) == [name |-> name, kind |-> "exact", release |-> release]
Caret(name, release) == [name |-> name, kind |-> "caret", release |-> release]
Newest(name)         == [name |-> name, kind |-> "any", release |-> 0]

Command(manager, form, wants) == [manager |-> manager, form |-> form, wants |-> wants]
MCCommands ==
    {Command("npm", "packages", <<Exact("lib", 1)>>),
     Command("npm", "packages", <<Newest("tool"), Newest("lib")>>),
     Command("pip", "packages", <<Caret("lib", 1), Exact("evil", 1)>>),
     Command("python-pip", "packages", <<Newest("lib")>>),
     Command("pip", "requirements", <<>>), Command("npm", "project", <<>>),
     Command("npm", "advanced", <<Newest("evil")>>),
     Command("npm", "other", <<>>), Command("pip", "malformed", <<>>)}

MCManifests == {<<>>, <<Newest("lib")>>}

\* Unattended callers, and only they, ask for a report; an agent has no terminal,
\* a reason is given only for an override, and --yes and --dry-run are combined
\* with the override in its plain form only.
MCFlagSets ==
    {f \in [force : BOOLEAN, reason : BOOLEAN, yes : BOOLEAN, dryRun : BOOLEAN,
            agent : BOOLEAN, tty : BOOLEAN, json : BOOLEAN] :
        /\ f.json = ~f.tty
        /\ f.agent => ~f.tty
        /\ f.reason => f.force /\ ~f.dryRun
        /\ f.yes => ~f.force}

\* The built-in install_interception settings, and departures from them.
DefaultGate ==
    [enabled |-> TRUE, allowForce |-> TRUE, reasonRequired |-> TRUE,
     malwareAlways |-> TRUE, credentialsAlways |-> TRUE, allowYes |-> TRUE,
     confirm |-> TRUE, auditLog |-> TRUE, blocked |-> {}, realBinary |-> "unset"]
MCGatePolicies ==
    {DefaultGate,
     [DefaultGate EXCEPT !.enabled = FALSE],
     [DefaultGate EXCEPT !.blocked = {"evil"}, !.realBinary = "file"],
     [DefaultGate EXCEPT !.allowForce = FALSE, !.allowYes = FALSE, !.realBinary = "missing"],
     [DefaultGate EXCEPT !.confirm = FALSE, !.auditLog = FALSE]}
=============================================================================
