---------------------------- MODULE AgentServer ----------------------------
(***************************************************************************)
(* The MCP server (internal/mcp): one process that reads JSON-RPC lines    *)
(* from a coding agent, one after the other, and answers what the agent    *)
(* may do with a package.  Every tool scans, decides and words its advice  *)
(* in its own way; the decision itself is RiskDecision's.  Two logs        *)
(* outlive a call: the audit log, which the tools and the install gate     *)
(* append to, and the log of the agent's own decisions.                    *)
(*                                                                         *)
(* A line is a record [kind, id, tool, words, base, head, by, risky,       *)
(* limit]; id 0 marks a notification.  The words of a command are package  *)
(* records, Flag or ValueFlag, a flag that takes the next word.            *)
(***************************************************************************)
EXTENDS RiskDecision

CONSTANTS Worlds,         \* named functions from packages to the findings of a scan
          Dangerous,      \* packages whose behaviour analysis finds something critical
          AgentPolicies,  \* named valid policies with the fields agent, mcp, audit
          Settings,       \* the pairs of policy names of repository and server
          Lines,          \* the lines a client may send, with id 0
          MaxLines        \* bound on the lines of a session

ASSUME LinesHaveIds == \A line \in Lines : "id" \in DOMAIN line

ASSUME AgentPoliciesAreValid == \A n \in DOMAIN AgentPolicies : SoundPolicy(AgentPolicies[n])

VARIABLES case,      \* which world holds, fixed
          repoPolicy,   \* the name of the policy of the agent's repository
          serverPolicy, \* the name of the policy the server was started with
          sent,      \* every line the client has sent
          next,      \* index of the line the server reads next
          answers,   \* the answers, in the order they were written
          audit,     \* per log file, the audit entries: sequences of [pkg, decision]
          agentLog,  \* the decisions the agent recorded
          status     \* "serving", "closed" (end of input) or "failed"

agentVars ==
    <<case, repoPolicy, serverPolicy, sent, next, answers, audit, agentLog, status>>
setup == <<case, repoPolicy, serverPolicy>>

world  == Worlds[case]
repo   == AgentPolicies[repoPolicy]
server == AgentPolicies[serverPolicy]

CorpRegistry == [name |-> "corp", type |-> "private", http |-> FALSE, claims |-> {}]

-----------------------------------------------------------------------------
(* Scanning for an agent (eval.go).                                        *)

AgentReason == Reason("ai_agent_requested_suspicious_package", "")

\* ScanPackage of the scanners, as far as the decision goes: the results for a
\* set of packages.
Controlled(evaluated, pol, by, env) ==
    {ApplyPolicyControls(e, pol, CorpRegistry, by, env) : e \in evaluated}

ScanPackages(pkgs, pol, by, env) ==
    Controlled({Evaluate(p, world[p], pol) : p \in pkgs}, pol, by, env)

\* An environment that is not given follows from who asks.
Environment(by) == IF by = "ai_agent" THEN "ai_agent" ELSE "developer"

\* Any finding but the reduction for a trusted package makes it suspicious.
Suspicious(res, pol, by) ==
    /\ by = "ai_agent" /\ RuleEnabled(pol, AgentReason.id)
    /\ \E r \in res.reasons : r.id # "trusted_package_reduction"

AmplifiedFindings_AgentOnly(res) == {AgentReason}

\* The findings a suspicious result is evaluated again with: the agent's own
\* reason, without the reasons a policy generates.
AmplifiedFindings(res) ==
    StripPolicyGeneratedReasons(res.reasons) \cup {AgentReason}

EvaluatePackages(pkgs, pol, by, env) ==
    LET results == ScanPackages(pkgs, pol, by, env)
    IN  {r \in results : ~Suspicious(r, pol, by)}
          \cup Controlled({Evaluate(r.pkg, AmplifiedFindings(r), pol) :
                              r \in {x \in results : Suspicious(x, pol, by)}},
                          pol, by, env)

DecisionsOf(results) == {r.decision : r \in results}

\* Whether a decision lets an installation proceed without asking anybody.
WarnAllowed(pol, by) ==
    \/ pol.mode = "audit"
    \/ /\ pol.mode # "block"
       /\ IF by = "ai_agent" THEN pol.mcp.agentOnWarn ELSE pol.mcp.humanOnWarn

DecisionAllows(decision, pol, by) ==
    \/ decision = "allow"
    \/ decision = "warn" /\ WarnAllowed(pol, by)

\* The decision on several packages.
Worst(decisions) ==
    IF "block" \in decisions THEN "block"
    ELSE IF "warn" \in decisions THEN "warn" ELSE "allow"

-----------------------------------------------------------------------------
(* Wording the advice (agent_guidance.go).                                 *)

Advice(decision, allowed, prohibited) ==
    [decision |-> decision, allowed |-> allowed, prohibited |-> prohibited]

Stop == {"run_install", "execute_lifecycle_script"}

\* The agent policy may turn a warning into a block.
Escalated(decision, agent) ==
    IF agent.mode = "block" /\ decision = "warn" THEN "block" ELSE decision

Guidance_NoCleanUp(decision, agent) ==
    LET d == Escalated(decision, agent)
    IN  IF agent.mode = "observe" THEN Advice(decision, {"proceed"}, {})
        ELSE IF d = "allow" THEN Advice(d, {"proceed"}, {})
        ELSE IF d = "block"
        THEN Advice(d, {"suggest_alternative", "remove_dependency"}, Stop)
        ELSE IF agent.warnRequiresHuman
        THEN Advice(d, {"ask_user", "suggest_alternative", "remove_dependency"}, Stop)
        ELSE Advice(d, {"proceed", "suggest_alternative", "remove_dependency"},
                    IF agent.blockInstall THEN {"run_install"} ELSE {})

Guidance(decision, agent) ==
    LET d == Escalated(decision, agent)
        advice ==
            IF d = "allow" THEN Advice(d, {"proceed"}, {})
            ELSE IF d = "block"
            THEN Advice(d, {"suggest_alternative", "remove_dependency"}, Stop)
            ELSE IF agent.warnRequiresHuman
            THEN Advice(d, {"ask_user", "suggest_alternative", "remove_dependency"}, Stop)
            ELSE Advice(d, {"proceed", "suggest_alternative", "remove_dependency"}, {})
    IN  IF agent.mode = "observe" THEN Advice(decision, {"proceed"}, {})
        ELSE IF agent.blockInstall /\ d # "allow"
        THEN Advice(d, advice.allowed \ {"proceed"}, advice.prohibited \cup {"run_install"})
        ELSE advice

\* The older form: one action, and whether the installation is allowed.
AgentInstruction(decision, installAllowed, requestedBy) ==
    Advice(decision,
           IF decision = "warn" /\ (installAllowed \/ requestedBy = "ai_agent")
           THEN {"ask_human"}
           ELSE IF decision = "allow" /\ installAllowed THEN {"proceed"}
           ELSE {"stop"},
           IF installAllowed THEN {} ELSE {"run_install"})

-----------------------------------------------------------------------------
(* Commands and diffs.                                                     *)

Flag == [eco |-> "flag", name |-> "", version |-> ""]
ValueFlag == [Flag EXCEPT !.eco = "valueFlag"]

\* agent.ParseInstallCommand: flags are dropped, some with the word after them.
ParseInstallCommand(words) ==
    LET skipped(i) == /\ i > 1 /\ words[i - 1] = ValueFlag
                      /\ words[i] \notin {Flag, ValueFlag}
        kept == SelectSeq([i \in DOMAIN words |-> i],
                          LAMBDA i : words[i] \notin {Flag, ValueFlag} /\ ~skipped(i))
    IN  [k \in DOMAIN kept |-> words[kept[k]]]

\* The dependencies of the changed manifests that are new or have another
\* version; a manifest that cannot be parsed has none.
ChangedDependencies(base, head) ==
    {p \in head : ~\E q \in base : q.eco = p.eco /\ q.name = p.name
                                     /\ q.version = p.version}

-----------------------------------------------------------------------------
(* The server.                                                             *)

AgentInit ==
    /\ case \in DOMAIN Worlds
    /\ \E s \in Settings : repoPolicy = s[1] /\ serverPolicy = s[2]
    /\ sent = <<>> /\ next = 1 /\ answers = <<>>
    /\ audit = [file \in {"default", "custom"} |-> <<>>] /\ agentLog = <<>>
    /\ status = "serving"

\* The client sends a line; a request carries the number of its line as id.
Send ==
    /\ status = "serving" /\ Len(sent) < MaxLines
    /\ \E line \in Lines, request \in BOOLEAN :
          sent' = Append(sent, [line EXCEPT !.id = IF request THEN Len(sent) + 1 ELSE 0])
    /\ UNCHANGED <<setup, next, answers, audit, agentLog, status>>

Line == sent[next]
Read == status = "serving" /\ next <= Len(sent)
Calls(tool) == Read /\ Line.kind = "call" /\ Line.tool = tool

Result(tool, advice, scanned) ==
    [id |-> Line.id, tool |-> tool, error |-> FALSE, decision |-> advice.decision,
     allowed |-> advice.allowed, prohibited |-> advice.prohibited, scanned |-> scanned]
Refusal(tool) ==
    [id |-> Line.id, tool |-> tool, error |-> TRUE, decision |-> "none",
     allowed |-> {}, prohibited |-> {}, scanned |-> {}]

Replies_FirstOnly(line) == line.id = 1

\* Whether Serve answers a line: never a notification.
Replies(line) == line.id # 0

\* The tail of Serve: write the answer and read on; if writing fails, stop.
Reply(answer) ==
    \/ /\ answers' = IF Replies(Line) THEN Append(answers, answer) ELSE answers
       /\ next' = next + 1
       /\ UNCHANGED status
    \/ /\ Replies(Line)
       /\ status' = "failed"
       /\ next' = next + 1
       /\ UNCHANGED answers

\* LogAudit, whose error the tools drop.
LogAudit(pol, entry) ==
    \/ /\ pol.audit # "off"
       /\ audit' = [audit EXCEPT ![pol.audit] = Append(@, entry)]
    \/ UNCHANGED audit

\* check_package: the scan without the amplifier.
CheckPackage ==
    /\ Calls("check_package")
    /\ \/ Reply(Refusal("check_package"))
       \/ \E res \in ScanPackages({Line.words[1]}, repo, "ai_agent", "ai_agent") :
             Reply(Result("check_package", Guidance(res.decision, repo.agent), {res.pkg}))
    /\ UNCHANGED <<setup, sent, audit, agentLog>>

\* check_install_command: one failed scan refuses the whole command.
CheckInstallCommand ==
    /\ Calls("check_install_command")
    /\ LET pkgs == ToSet(ParseInstallCommand(Line.words))
       IN  \/ Reply(Refusal("check_install_command"))
           \/ /\ pkgs # {}
              /\ \E decision \in
                    {Worst(DecisionsOf(EvaluatePackages(pkgs, repo, "ai_agent", "ai_agent")))} :
                    Reply(Result("check_install_command",
                                 Guidance(decision, repo.agent), pkgs))
    /\ UNCHANGED <<setup, sent, audit, agentLog>>

\* explain_policy_decision
ExplainPolicyDecision ==
    /\ Calls("explain_policy_decision")
    /\ \/ Reply(Refusal("explain_policy_decision"))
       \/ \E res \in EvaluatePackages({Line.words[1]}, repo, "ai_agent", "ai_agent") :
             Reply(Result("explain_policy_decision",
                          Guidance(res.decision, repo.agent), {res.pkg}))
    /\ UNCHANGED <<setup, sent, audit, agentLog>>

\* What the mode refuses is not offered by get_agent_guidance.
ModeGuidance(decision, by) ==
    LET advice == Guidance(decision, repo.agent)
    IN  IF advice.decision = "allow" /\ ~DecisionAllows(decision, repo, by)
        THEN Advice("warn", {"ask_user"}, Stop) ELSE advice

\* get_agent_guidance: the environment is the requester.
GetAgentGuidance ==
    /\ Calls("get_agent_guidance")
    /\ \/ Reply(Refusal("get_agent_guidance"))
       \/ \E res \in EvaluatePackages({Line.words[1]}, repo, Line.by, Line.by) :
             Reply(Result("get_agent_guidance", ModeGuidance(res.decision, Line.by), {res.pkg}))
    /\ UNCHANGED <<setup, sent, audit, agentLog>>

\* A critical finding of the behaviour analysis stops an agent whatever the
\* decision; an agent gets that analysis only if it asks for it.
ValidateAllowed(res, line) ==
    /\ DecisionAllows(res.decision, repo, line.by)
    /\ ~(line.by = "ai_agent" /\ line.risky /\ res.pkg \in Dangerous)

\* validate_package_install
ValidatePackageInstall ==
    /\ Calls("validate_package_install")
    /\ \/ Reply(Refusal("validate_package_install")) /\ UNCHANGED audit
       \/ \E res \in EvaluatePackages({Line.words[1]}, repo, Line.by, Environment(Line.by)) :
             /\ res.pkg.eco \in {"npm", "pypi"}
             /\ Reply(Result("validate_package_install",
                             AgentInstruction(res.decision, ValidateAllowed(res, Line), Line.by),
                             {res.pkg}))
             /\ LogAudit(repo, <<[pkg |-> res.pkg, decision |-> res.decision]>>)
    /\ UNCHANGED <<setup, sent, agentLog>>

\* The packages of the command are looked up by two scanners only: what is
\* not a PyPI package is scanned as an npm package of that name.
AsScanned(p) == IF p.eco = "pypi" THEN p ELSE [p EXCEPT !.eco = "npm"]

\* validate_install_command: scanned as for a developer, whoever asks.
ValidateInstallCommand ==
    /\ Calls("validate_install_command")
    /\ LET seq  == ParseInstallCommand(Line.words)
           pkgs == {AsScanned(p) : p \in ToSet(seq)}
       IN  \/ Reply(Refusal("validate_install_command")) /\ UNCHANGED audit
           \/ \E results \in {ScanPackages(pkgs, server, "human", "developer")} :
                 LET decision == Worst(DecisionsOf(results))
                     entry(p) == [pkg |-> p, decision |->
                                    (CHOOSE r \in results : r.pkg = p).decision]
                 IN  /\ results # {}
                     /\ Reply(Result("validate_install_command",
                                     AgentInstruction(decision,
                                                      DecisionAllows(decision, server, Line.by),
                                                      Line.by),
                                     pkgs))
                     /\ LogAudit(server, [i \in DOMAIN seq |-> entry(AsScanned(seq[i]))])
    /\ UNCHANGED <<setup, sent, agentLog>>

\* The words for a diff replace the guidance's lists in part.
DiffAdvice(decision, agent) ==
    LET g == Guidance(decision, agent)
    IN  IF decision = "allow" THEN Advice(g.decision, {"proceed"}, {})
        ELSE IF decision = "warn"
        THEN Advice(g.decision, {"mark_review", "proceed_coding"} \cup g.allowed, g.prohibited)
        ELSE Advice(g.decision, {"suggest_alternative", "remove_dependency"} \cup g.allowed,
                    g.prohibited)

\* review_dependency_diff: packages that cannot be scanned are skipped.
ReviewDependencyDiff ==
    /\ Calls("review_dependency_diff")
    /\ LET changed == ChangedDependencies(Line.base, Line.head)
       IN  \/ Reply(Refusal("review_dependency_diff"))
           \/ \E failed \in SUBSET changed :
              \E decision \in {Worst(DecisionsOf(EvaluatePackages(changed \ failed, repo,
                                                                 "ai_agent", "ai_agent")))} :
                 Reply(Result("review_dependency_diff", DiffAdvice(decision, repo.agent),
                              changed \ failed))
    /\ UNCHANGED <<setup, sent, audit, agentLog>>

\* explain_package_risk: scanned as for a developer, without advice.
ExplainPackageRisk ==
    /\ Calls("explain_package_risk")
    /\ \/ Reply(Refusal("explain_package_risk"))
       \/ \E res \in ScanPackages({Line.words[1]}, server, "human", "developer") :
             /\ res.pkg.eco \in {"npm", "pypi"}
             /\ Reply(Result("explain_package_risk", Advice(res.decision, {}, {}), {res.pkg}))
    /\ UNCHANGED <<setup, sent, audit, agentLog>>

\* What score_lockfile makes of one package: the policy's list and the name,
\* then the advisories of the local database, if that could be opened.
VulnScore(r) ==
    IF r.id = "known_vulnerability_critical" THEN 70
    ELSE IF r.id = "known_vulnerability_high" THEN 50
    ELSE IF r.id = "known_vulnerability_medium" THEN 25 ELSE 10

LockDecision(pkg, pol, advised) ==
    LET found   == {r.id : r \in world[pkg]}
        listed  == Listed(pol.blockedPackages, pkg)
        typo    == "typosquat_candidate" \in found
        base    == IF listed THEN 100 ELSE IF typo THEN 25 ELSE 0
        vulns   == {r \in world[pkg] : r.id \in {"known_vulnerability_critical",
                       "known_vulnerability_high", "known_vulnerability_medium",
                       "known_vulnerability_low"}}
        worst   == IF advised /\ vulns # {} THEN Max({VulnScore(r) : r \in vulns}) ELSE 0
    IN  IF listed \/ (advised /\ "known_malware_indicator" \in found) THEN "block"
        ELSE IF worst > base THEN (IF worst >= 50 THEN "block" ELSE "warn")
        ELSE IF typo THEN "warn" ELSE "allow"

\* score_lockfile
ScoreLockfile ==
    /\ Calls("score_lockfile")
    /\ \/ Reply(Refusal("score_lockfile"))
       \/ \E advised \in BOOLEAN :
          \E decision \in {Worst({LockDecision(p, server, advised) : p \in Line.head})} :
             Reply(Result("score_lockfile", Advice(decision, {}, {}),
                          IF advised THEN Line.head ELSE {}))
    /\ UNCHANGED <<setup, sent, audit, agentLog>>

\* record_agent_decision: what the agent says is logged unchecked; the answer
\* is the same if the log cannot be written.
RecordAgentDecision ==
    /\ Calls("record_agent_decision")
    /\ \/ Reply(Refusal("record_agent_decision")) /\ UNCHANGED agentLog
       \/ /\ Reply(Result("record_agent_decision", Advice("recorded", {"proceed"}, {}), {}))
          /\ \/ agentLog' = Append(agentLog, Line.words[1])
             \/ UNCHANGED agentLog
    /\ UNCHANGED <<setup, sent, audit>>

\* The newest entries first, the packages of an entry in order, cut to the limit.
Recent(log, limit) ==
    LET all == FlattenSeq(Reverse(log))
    IN  SubSeq(all, 1, Min({Len(all), limit}))

\* get_recent_package_decisions reads the default log, wherever the policy has
\* the entries written.
GetRecentPackageDecisions ==
    /\ Calls("get_recent_package_decisions")
    /\ \/ Reply(Refusal("get_recent_package_decisions"))
       \/ Reply(Result("get_recent_package_decisions",
                       Advice("history", {}, {}),
                       ToSet(Recent(audit["default"], Line.limit))))
    /\ UNCHANGED <<setup, sent, audit, agentLog>>

\* Tools that change nothing the server keeps: suggest_safe_alternative,
\* get_policy_evidence, generate_governance_report; ping, initialize, tools/list
\* and unknown methods and tools.
Inform ==
    /\ Read /\ Line.kind = "inform"
    /\ \/ Reply(Result("inform", Advice("none", {}, {}), {}))
       \/ Reply(Refusal("inform"))
    /\ UNCHANGED <<setup, sent, audit, agentLog>>

\* Blank lines are skipped.
SkipBlank ==
    /\ Read /\ Line.kind = "blank"
    /\ next' = next + 1
    /\ UNCHANGED <<setup, sent, answers, audit, agentLog, status>>

\* A line that is no JSON is answered without an id, and no more is made of it.
ParseError ==
    /\ Read /\ Line.kind = "garbage"
    /\ answers' = Append(answers, [Refusal("parse") EXCEPT !.id = 0])
    /\ next' = next + 1
    /\ UNCHANGED <<setup, sent, audit, agentLog, status>>

\* A line longer than the buffer of bufio.Scanner ends the loop.
TooLong ==
    /\ Read /\ Line.kind = "tooLong"
    /\ status' = "failed"
    /\ UNCHANGED <<setup, sent, next, answers, audit, agentLog>>

\* The client closes its end; the server ends when it has read everything.
Close ==
    /\ status = "serving" /\ next > Len(sent)
    /\ status' = "closed"
    /\ UNCHANGED <<setup, sent, next, answers, audit, agentLog>>

Handle ==
    \/ CheckPackage \/ CheckInstallCommand \/ ExplainPolicyDecision \/ GetAgentGuidance
    \/ ValidatePackageInstall \/ ValidateInstallCommand \/ ReviewDependencyDiff
    \/ ExplainPackageRisk \/ ScoreLockfile \/ RecordAgentDecision
    \/ GetRecentPackageDecisions \/ Inform \/ SkipBlank \/ ParseError \/ TooLong

AgentNext == Send \/ Handle \/ Close

\* The loop handles whatever it has read: every scan ends, by its answer or by
\* the time-out of its HTTP client.
AgentSpec == AgentInit /\ [][AgentNext]_agentVars /\ WF_agentVars(Handle)

-----------------------------------------------------------------------------
Answered(tools) == {a \in ToSet(answers) : ~a.error /\ a.tool \in tools}

\* The tools that tell the agent what to do, and the policy each asks.
AdvisingTools ==
    {"check_package", "check_install_command", "explain_policy_decision",
     "get_agent_guidance", "validate_package_install", "validate_install_command",
     "review_dependency_diff"}
PolicyOf(tool) == IF tool = "validate_install_command" THEN server ELSE repo

SecurityFinding(p, pol, known) ==
    \E f \in world[p] :
       /\ IsSecurity(pol, f) /\ RuleEnabled(pol, f.id)
       /\ known \/ f.id \notin StrippedRuleIDs

\* The agent is told not to install: an observing policy tells it nothing else
\* than the decision.
Stops(a) ==
    /\ a.decision = "block"
    /\ "run_install" \in a.prohibited \/ repo.agent.mode = "observe"

\* A security finding of the artifact stops the agent whichever tool it asks,
\* in whatever company the package comes: through the amplifier, the guidance of
\* the agent policy and the older instruction alike.  (Advisories are the
\* subject of AgentRequestCannotDowngrade.)
SecurityFindingStopsAgent ==
    \A a \in Answered(AdvisingTools) :
       (\E p \in a.scanned : SecurityFinding(p, PolicyOf(a.tool), FALSE)) => Stops(a)

\* No answer lets the agent proceed and forbids it to install.
AdviceIsConsistent ==
    \A a \in ToSet(answers) : "proceed" \in a.allowed => "run_install" \notin a.prohibited

\* Every request is answered, in whatever order notifications, blank lines and
\* garbage surround it, unless the loop itself failed.
EveryRequestAnswered ==
    \A id \in 1..MaxLines :
       (\E i \in DOMAIN sent : sent[i].id = id /\ sent[i].kind \in {"call", "inform"})
          ~> (status = "failed" \/ \E a \in ToSet(answers) : a.id = id)

-----------------------------------------------------------------------------
(* What a document says and the code does not do.                          *)

\* docs/architecture/security-enforcement.md: agent requests cannot downgrade a
\* security block.
AgentRequestCannotDowngrade ==
    \A a \in Answered(AdvisingTools) :
       (\E p \in a.scanned : SecurityFinding(p, PolicyOf(a.tool), TRUE)) => Stops(a)
=============================================================================
