-------------------------- MODULE InstallGate_proofs --------------------------
(***************************************************************************)
(* What the install gate guarantees for any packages, verdicts, commands,  *)
(* flags and valid policies: no result escapes the aggregated decision,    *)
(* and a command reaches the package manager through the gate only if the  *)
(* gate said so about exactly the results it then stands by, which are     *)
(* those of the releases it was asked for.  And a command comes back to    *)
(* PkgSafe through PkgSafe's own wrapper only.                             *)
(***************************************************************************)
EXTENDS InstallGate, TLAPS

Decisions == {"allow", "warn", "block"}

Job == [cmd : Commands, flags : FlagSets, pol : GatePolicies, path : Paths,
        filesRead : BOOLEAN, pmWorks : BOOLEAN, guarded : BOOLEAN]

\* The rules a result may name.
RuleIDs ==
    {"blocked_package"} \cup UNION {Verdict[k].reasons : k \in Names \X (1..MaxRelease)}

Result == [name : Names, release : 0..MaxRelease, scanned : BOOLEAN,
           decision : Decisions, reasons : SUBSET RuleIDs]

\* The types the steps depend on.
Shape ==
    /\ published \in [Names -> Release] /\ manifest \in Manifests
    /\ job \in Job
    /\ todo \in Seq(Want) /\ results \in Seq(Result) /\ overall \in Decisions

\* A command that is not yet at the package manager, and not nested.
Pending == pc \in {"validate", "log", "output"} \/ (pc = "enter" /\ ~job.guarded)

\* What scans report of security reasons.
ScansAreSound ==
    \A i \in DOMAIN results :
        results[i].scanned /\ results[i].reasons \cap SecurityBlockRuleIDs # {}
            => results[i].decision = "block"

\* The aggregated decision is the worst of the results.
Aggregated ==
    /\ \A i \in DOMAIN results : Rank(results[i].decision) <= Rank(overall)
    /\ overall # "allow" => \E i \in DOMAIN results : results[i].decision = overall

\* The gate could have answered this about the results as they are.
Answered ==
    \E answer \in BOOLEAN :
        proceed = CanProceed(results, overall, job.flags, job.pol, answer)

IInv ==
    /\ Shape
    /\ ScansAreSound
    /\ Aggregated
    /\ Pending => route = "none"
    /\ pc \in {"log", "output"} \/ route = "screened" => Answered
    /\ route = "screened" => proceed.ok
-----------------------------------------------------------------------------
LEMMA RankOrder == Rank("allow") = 0 /\ Rank("warn") = 1 /\ Rank("block") = 2
  BY DEF Rank

LEMMA AggregateIsWorst ==
    ASSUME NEW c \in Decisions, NEW n \in Decisions
    PROVE  /\ Aggregate(c, n) \in {c, n} \cap Decisions
           /\ Rank(c) <= Rank(Aggregate(c, n)) /\ Rank(n) <= Rank(Aggregate(c, n))
  <1>1. Rank(c) \in Int /\ Rank(n) \in Int
    BY DEF Rank
  <1>2. CASE Rank(n) > Rank(c)
    BY <1>1, <1>2 DEF Aggregate
  <1>3. CASE ~(Rank(n) > Rank(c))
    BY <1>1, <1>3 DEF Aggregate
  <1> QED
    BY <1>2, <1>3

\* What the gate always refuses is a security reason.
LEMMA NeverForcedIsSecurity ==
    ASSUME NEW pol
    PROVE  NeverForced(pol) \subseteq SecurityBlockRuleIDs
  BY DEF NeverForced, CredentialAccessRules, SecurityBlockRuleIDs

-----------------------------------------------------------------------------
LEMMA InitIInv == Init => IInv
  <1> SUFFICES ASSUME Init PROVE IInv
    OBVIOUS
  <1>1. published \in [Names -> Release] /\ manifest \in Manifests
    BY CommandsAreParsed DEF Init, Release
  <1>2. job \in Job
    BY DEF Init, Job
  <1>3. todo \in Seq(Want) /\ results \in Seq(Result) /\ overall \in Decisions
    BY DEF Init, Decisions
  <1>4. ScansAreSound /\ Aggregated
    BY DEF Init, ScansAreSound, Aggregated
  <1> QED
    BY <1>1, <1>2, <1>3, <1>4 DEF Init, IInv, Shape, Pending

\* A command that ends keeps the invariant.
LEMMA EndKeepsIInv ==
    ASSUME IInv, NEW code, End(code)
    PROVE  IInv'
  BY DEF IInv, Shape, ScansAreSound, Aggregated, Pending, Answered, End, world, scanVars

\* So does one that is handed over without having met the gate.
LEMMA DelegateKeepsIInv ==
    ASSUME IInv, NEW how, Delegate(how),
           how = "screened" => Answered /\ proceed.ok
    PROVE  IInv'
  BY DEF IInv, Shape, ScansAreSound, Aggregated, Pending, Answered, Delegate, world, scanVars

\* A sound result keeps the aggregated decision the worst of the results.
LEMMA ScannedKeepsIInv ==
    ASSUME IInv, pc = "validate", todo # <<>>, NEW r \in Result, Scanned(r),
           r.scanned /\ r.reasons \cap SecurityBlockRuleIDs # {} => r.decision = "block"
    PROVE  IInv'
  <1>1. /\ results \in Seq(Result) /\ results' = Append(results, r)
        /\ Len(results') = Len(results) + 1 /\ results'[Len(results) + 1] = r
        /\ \A i \in 1..Len(results) : results'[i] = results[i]
        /\ DOMAIN results = 1..Len(results) /\ DOMAIN results' = 1..(Len(results) + 1)
    BY DEF IInv, Shape, Scanned
  <1>2. /\ overall' \in {overall, r.decision} \cap Decisions
        /\ Rank(overall) <= Rank(overall') /\ Rank(r.decision) <= Rank(overall')
    <2>1. overall \in Decisions /\ r.decision \in Decisions
      BY DEF IInv, Shape, Result
    <2> QED
      BY <2>1, AggregateIsWorst DEF Scanned
  <1>3. Shape'
    BY <1>1, <1>2 DEF IInv, Shape, Scanned, world
  <1>4. ScansAreSound'
    BY <1>1 DEF IInv, ScansAreSound
  <1>5. Aggregated'
    <2>1. ASSUME NEW i \in DOMAIN results'
          PROVE  Rank(results'[i].decision) <= Rank(overall')
      <3>1. CASE i = Len(results) + 1
        BY <1>1, <1>2, <3>1
      <3>2. CASE i \in 1..Len(results)
        <4>1. Rank(results[i].decision) <= Rank(overall)
          BY <1>1, <3>2 DEF IInv, Aggregated
        <4>2. /\ Rank(results[i].decision) \in Int /\ Rank(overall) \in Int
              /\ Rank(overall') \in Int
          <5>1. results[i].decision \in Decisions /\ overall \in Decisions
            <6>1. results[i] \in Result /\ overall \in Decisions
              BY <1>1, <3>2 DEF IInv, Shape
            <6> QED
              BY <6>1 DEF Result
          <5> QED
            BY <5>1, <1>2, RankOrder DEF Decisions
        <4> QED
          BY <1>1, <1>2, <3>2, <4>1, <4>2
      <3> QED
        BY <1>1, <3>1, <3>2
    <2>2. ASSUME overall' # "allow"
          PROVE  \E i \in DOMAIN results' : results'[i].decision = overall'
      <3>1. CASE overall' = r.decision
        BY <1>1, <3>1
      <3>2. CASE overall' = overall
        BY <1>1, <2>2, <3>2 DEF IInv, Aggregated
      <3> QED
        BY <1>2, <3>1, <3>2
    <2> QED
      BY <2>1, <2>2 DEF Aggregated
  <1>6. route = "none" /\ UNCHANGED <<pc, job, route, proceed>>
    BY DEF IInv, Pending, Scanned
  <1> QED
    BY <1>3, <1>4, <1>5, <1>6 DEF IInv, Pending

\* A want names a known package, and it is scanned at a release that exists.
LEMMA WantIsScannable ==
    ASSUME published \in [Names -> Release], NEW want \in Want
    PROVE  want.name \in Names /\ ScannedRelease(want) \in 1..MaxRelease
  <1>1. CASE want \in [name : Names, kind : {"exact", "caret"}, release : 1..MaxRelease]
    <2>1. want.name \in Names /\ want.release \in 1..MaxRelease /\ want.kind # "any"
      BY <1>1
    <2> QED
      BY <2>1 DEF ScannedRelease
  <1>2. CASE want \in [name : Names, kind : {"any"}, release : {0}]
    <2>1. want.name \in Names /\ want.kind = "any"
      BY <1>2
    <2> QED
      BY <2>1 DEF ScannedRelease, Release
  <1> QED
    BY <1>1, <1>2 DEF Want

LEMMA ScansKeepIInv ==
    ASSUME IInv, ScanListed \/ ScanPackage
    PROVE  IInv'
  <1>1. /\ todo \in Seq(Want) /\ published \in [Names -> Release]
        /\ MaxRelease \in Nat \ {0}
    BY CommandsAreParsed DEF IInv, Shape
  <1>2. Head(todo) \in Want
    BY <1>1 DEF ScanListed, ScanPackage
  <1>3. CASE ScanListed
    <2> DEFINE r == [name |-> Head(todo).name, release |-> Head(todo).release,
                     scanned |-> FALSE, decision |-> "block",
                     reasons |-> {"blocked_package"}]
    <2> DEFINE want == Head(todo)
    <2>1. want.name \in Names /\ want.release \in 0..MaxRelease
      <3>1. CASE want \in [name : Names, kind : {"exact", "caret"}, release : 1..MaxRelease]
        BY <1>1, <3>1
      <3>2. CASE want \in [name : Names, kind : {"any"}, release : {0}]
        BY <1>1, <3>2
      <3> QED
        BY <1>2, <3>1, <3>2 DEF Want
    <2>2. "block" \in Decisions
      BY DEF Decisions
    <2>3. {"blocked_package"} \in SUBSET RuleIDs
      BY DEF RuleIDs
    <2>4. r \in Result
      BY <2>1, <2>2, <2>3 DEF Result
    <2> QED
      BY <1>3, <2>4, ScannedKeepsIInv DEF ScanListed
  <1>4. CASE ScanPackage
    <2> DEFINE name    == Head(todo).name
               release == ScannedRelease(Head(todo))
               v       == Verdict[<<name, release>>]
               r == [name |-> name, release |-> release, scanned |-> TRUE,
                     decision |-> v.decision, reasons |-> v.reasons]
    <2>1. name \in Names /\ release \in 1..MaxRelease
      BY <1>1, <1>2, WantIsScannable
    <2>2. /\ v.decision \in Decisions /\ v.reasons \in SUBSET RuleIDs
          /\ v.reasons \cap SecurityBlockRuleIDs # {} => v.decision = "block"
      BY <2>1, VerdictsAreScans DEF Decisions, RuleIDs
    <2>3. pc = "validate" /\ todo # <<>> /\ Scanned(r)
      BY <1>4 DEF ScanPackage
    <2> HIDE DEF v
    <2>4. r \in Result
      BY <1>1, <2>1, <2>2 DEF Result
    <2> QED
      BY <2>2, <2>3, <2>4, ScannedKeepsIInv
  <1> QED
    BY <1>3, <1>4

\* The steps of the screening other than the scans.
LEMMA ScreeningKeepsIInv ==
    ASSUME IInv, Collect \/ Gate \/ LogAudit
    PROVE  IInv'
  <1>1. CASE Collect
    <2>1. todo' \in Seq(Want)
      BY <1>1, CommandsAreParsed DEF Collect, IInv, Shape, Job
    <2> QED
      BY <1>1, <2>1 DEF Collect, Parsing, IInv, Shape, ScansAreSound, Aggregated, Pending, world
  <1>2. CASE Gate
    <2>1. Answered'
      BY <1>2 DEF Gate, Answered, scanVars
    <2> QED
      BY <1>2, <2>1
      DEF Gate, IInv, Shape, ScansAreSound, Aggregated, Pending, world, scanVars
  <1>3. CASE LogAudit
    BY <1>3
    DEF LogAudit, IInv, Shape, ScansAreSound, Aggregated, Pending, Answered, world, scanVars
  <1> QED
    BY <1>1, <1>2, <1>3

LEMMA ExecutionKeepsIInv ==
    ASSUME IInv, ExecuteWrapper \/ Execute \/ ExecuteFails
    PROVE  IInv'
  <1>1. CASE ExecuteWrapper
    <2>1. job' \in Job /\ job'.guarded /\ job'.flags = job.flags /\ job'.pol = job.pol
      BY <1>1 DEF ExecuteWrapper, IInv, Shape, Job
    <2> QED
      BY <1>1, <2>1
      DEF ExecuteWrapper, IInv, Shape, ScansAreSound, Aggregated, Pending, Answered,
          world, scanVars
  <1>2. ASSUME NEW code, NEW got, Start(code, got)
        PROVE  IInv'
    BY <1>2 DEF Start, IInv, Shape, ScansAreSound, Aggregated, Pending, Answered, world, scanVars
  <1> QED
    BY <1>1, <1>2 DEF Execute, ExecuteFails

LEMMA NextKeepsIInv == IInv /\ [Next]_vars => IInv'
  <1> SUFFICES ASSUME IInv, [Next]_vars PROVE IInv'
    OBVIOUS
  <1>1. CASE Publish
    <2>1. published' \in [Names -> Release]
      BY <1>1, CommandsAreParsed DEF Publish, IInv, Shape, Release
    <2> QED
      BY <1>1, <2>1
      DEF Publish, IInv, Shape, ScansAreSound, Aggregated, Pending, Answered, scanVars
  <1>2. CASE EditManifest
    BY <1>2
    DEF EditManifest, IInv, Shape, ScansAreSound, Aggregated, Pending, Answered, scanVars
  <1>3. CASE EnterGuarded
    BY <1>3, DelegateKeepsIInv DEF EnterGuarded, IInv
  <1>4. CASE Bypass \/ ParseUnsupported
    BY <1>4, DelegateKeepsIInv DEF Bypass, ParseUnsupported
  <1>5. CASE Proceed
    BY <1>5, DelegateKeepsIInv DEF Proceed, IInv
  <1>6. CASE PolicyFails \/ ParseFails \/ CollectFails \/ ScanFails
              \/ OutputFails \/ Refuse \/ EndDryRun \/ ResolveFails \/ Crash
    BY <1>6, EndKeepsIInv
    DEF PolicyFails, ParseFails, CollectFails, ScanFails, OutputFails, Refuse, EndDryRun,
        ResolveFails, Crash
  <1>7. CASE UNCHANGED vars
    BY <1>7 DEF vars, IInv, Shape, ScansAreSound, Aggregated, Pending, Answered
  <1> QED
    BY <1>1, <1>2, <1>3, <1>4, <1>5, <1>6, <1>7, ScansKeepIInv, ScreeningKeepsIInv,
       ExecutionKeepsIInv DEF Next, Program, Validate

LEMMA Invariance == Spec => []IInv
  BY InitIInv, NextKeepsIInv, PTL DEF Spec

-----------------------------------------------------------------------------
\* No override reaches a result that names what the policy never lets through:
\* neither by itself, nor hidden among the other packages of a command.
THEOREM NeverForcedTheorem == Spec => []NeverForcedHolds
  <1>1. ASSUME IInv, Screened, NEW i \in DOMAIN results, results[i].scanned,
               results[i].reasons \cap NeverForced(job.pol) # {}
        PROVE  FALSE
    <2>1. results[i].decision = "block"
      BY <1>1, NeverForcedIsSecurity DEF IInv, ScansAreSound
    <2>2. overall = "block"
      BY <1>1, <2>1, RankOrder DEF IInv, Shape, Aggregated, Decisions
    <2>3. Answered /\ proceed.ok
      BY <1>1 DEF IInv, Screened
    <2>4. ForceAccepted(job.flags, job.pol, results)
      BY <2>2, <2>3 DEF Answered, CanProceed
    <2> QED
      BY <1>1, <2>1, <2>4 DEF ForceAccepted
  <1>2. IInv => NeverForcedHolds
    BY <1>1 DEF NeverForcedHolds
  <1> QED
    BY <1>2, Invariance, PTL

\* A command that runs past a blocked package was forced with a reason, and
\* past a warning agreed to as its caller must.
THEOREM EveryRiskTheorem == Spec => []EveryRiskIsAccepted
  <1>1. ASSUME IInv, Screened, NEW d \in Decisions, Worst(d)
        PROVE  overall = d
    <2>1. PICK i \in DOMAIN results : results[i].decision = d
      BY <1>1 DEF Worst
    <2>2. Rank(d) <= Rank(overall) /\ overall \in Decisions
      BY <1>1, <2>1 DEF IInv, Shape, Aggregated
    <2>3. overall # "allow" => Rank(overall) <= Rank(d)
      BY <1>1 DEF IInv, Aggregated, Worst
    <2> QED
      BY <2>2, <2>3, RankOrder DEF Decisions
  <1>2. ASSUME IInv, Screened
        PROVE  Answered /\ proceed.ok
    BY <1>2 DEF IInv, Screened
  <1>3. ASSUME IInv, Screened, Worst("block")
        PROVE  ~Worst("warn") /\ job.flags.force /\ job.flags.reason /\ job.pol.allowForce
    <2>1. overall = "block" /\ ~Worst("warn")
      BY <1>1, <1>3 DEF Decisions
    <2>2. job.flags.force /\ ForceAccepted(job.flags, job.pol, results)
      BY <1>2, <1>3, <2>1 DEF Answered, CanProceed
    <2>3. job.pol \in GatePolicies
      BY <1>3 DEF IInv, Shape, Job
    <2> QED
      BY <2>1, <2>2, <2>3, GatePoliciesAreValid DEF ForceAccepted
  <1>4. ASSUME IInv, Screened, Worst("warn")
        PROVE  /\ job.flags.agent => job.flags.force
               /\ ~job.flags.tty => job.flags.force \/ (job.flags.yes /\ job.pol.allowYes)
    <2>1. overall = "warn"
      BY <1>1, <1>4 DEF Decisions
    <2>2. PICK answer \in BOOLEAN : proceed = WarnGate(job.flags, job.pol, answer)
      BY <1>2, <1>4, <2>1 DEF Answered, CanProceed
    <2> QED
      BY <1>2, <1>4, <2>2 DEF WarnGate
  <1>5. IInv => EveryRiskIsAccepted
    BY <1>3, <1>4 DEF EveryRiskIsAccepted
  <1> QED
    BY <1>5, Invariance, PTL

-----------------------------------------------------------------------------
\* How far a command has come, and what its log says of it.  An entry, once
\* written, agrees with the gate's answer because the gate is not asked again.
Course ==
    /\ pc \in {"enter", "validate", "log", "output", "resolve", "done"}
    /\ route \in {"none", "bypass", "pass", "screened"}
    /\ ran => pc = "done"
    /\ exit \in NoCode..ExitPackageManagerNotFound
    /\ proceed.code \in {ExitSuccess, ExitBlocked, ExitDeclined}
    /\ pc \in {"validate", "log"} \/ (pc = "enter" /\ ~job.guarded) => log = <<>>
    /\ log = <<>> \/ log = <<Entry>>
    /\ route = "screened" => ~job.flags.dryRun

\* What the entry says, field by field.
LEMMA EntryFields ==
    /\ Entry.executed = (proceed.ok /\ ~job.flags.dryRun)
    /\ Entry.override = (job.flags.force /\ proceed.ok)
  BY DEF Entry

\* The only entry there can be.
LEMMA LoggedIsEntry ==
    ASSUME Course, NEW i \in DOMAIN log
    PROVE  log[i] = Entry
  <1>1. log # <<>>
    OBVIOUS
  <1>2. log = <<Entry>> /\ i = 1
    BY <1>1 DEF Course
  <1> QED
    BY <1>2

LEMMA InitCourse == Init => Course
  BY DEF Init, Course, NoCode, ExitPackageManagerNotFound, ExitBlocked

LEMMA ExitCodes ==
    {NoCode, ExitSuccess, ExitBlocked, ExitDeclined, ExitInstallFailed, ExitUsageError,
     ExitInternalError, ExitPolicyError, ExitPackageManagerNotFound, 1, 2}
        \subseteq NoCode..ExitPackageManagerNotFound
  BY DEF NoCode, ExitSuccess, ExitBlocked, ExitDeclined, ExitInstallFailed, ExitUsageError,
         ExitInternalError, ExitPolicyError, ExitPackageManagerNotFound

LEMMA EndKeepsCourse ==
    ASSUME Course, NEW code \in NoCode..ExitPackageManagerNotFound, End(code)
    PROVE  Course'
  BY DEF Course, End, Entry

LEMMA DelegateKeepsCourse ==
    ASSUME Course, pc # "done", NEW how \in {"none", "bypass", "pass", "screened"},
           Delegate(how), how = "screened" => ~job.flags.dryRun
    PROVE  Course'
  BY DEF Course, Delegate, Entry

LEMMA NextKeepsCourse == IInv /\ Course /\ [Next]_vars => Course'
  <1> SUFFICES ASSUME IInv, Course, [Next]_vars PROVE Course'
    OBVIOUS
  <1>1. CASE UNCHANGED vars \/ Publish \/ EditManifest
    BY <1>1 DEF vars, Publish, EditManifest, Course, Entry
  <1>2. CASE EnterGuarded
    BY <1>2, DelegateKeepsCourse DEF EnterGuarded, Course
  <1>3. CASE Bypass \/ ParseUnsupported
    BY <1>3, DelegateKeepsCourse DEF Bypass, ParseUnsupported, Parsing
  <1>4. CASE Proceed
    BY <1>4, DelegateKeepsCourse DEF Proceed
  <1>5. CASE PolicyFails \/ ParseFails \/ CollectFails \/ ScanFails
              \/ OutputFails \/ EndDryRun \/ ResolveFails \/ Crash
    BY <1>5, EndKeepsCourse, ExitCodes
    DEF PolicyFails, ParseFails, CollectFails, ScanFails, OutputFails, EndDryRun,
        ResolveFails, Crash
  <1>6. CASE Refuse
    BY <1>6, EndKeepsCourse, ExitCodes DEF Refuse, Course
  <1>7. CASE Collect
    BY <1>7 DEF Collect, Parsing, Course, Entry
  <1>8. ASSUME NEW result, pc = "validate", Scanned(result)
        PROVE  Course'
    BY <1>8 DEF Scanned, Course, Entry
  <1>9. CASE ScanListed \/ ScanPackage
    BY <1>8, <1>9 DEF ScanListed, ScanPackage
  <1>10. CASE Gate
    <2>1. proceed'.code \in {ExitSuccess, ExitBlocked, ExitDeclined}
      BY <1>10 DEF Gate, CanProceed, WarnGate
    <2>2. log' = <<>> /\ pc' = "log" /\ ~ran' /\ UNCHANGED <<job, route, exit>>
      BY <1>10 DEF Gate, Course
    <2> QED
      BY <2>1, <2>2 DEF Course
  <1>11. CASE LogAudit
    <2>1. log' = <<>> \/ log' = <<Entry>>
      BY <1>11 DEF LogAudit, Course
    <2> QED
      BY <1>11, <2>1 DEF LogAudit, Course, Entry
  <1>12. CASE ExecuteWrapper
    <2>1. job'.flags = job.flags /\ job'.guarded
      BY <1>12 DEF ExecuteWrapper, IInv, Shape, Job
    <2> QED
      BY <1>12, <2>1 DEF ExecuteWrapper, Course, Entry
  <1>13. ASSUME NEW code \in NoCode..ExitPackageManagerNotFound, NEW got, Start(code, got)
         PROVE  Course'
    BY <1>13 DEF Start, Course, Entry
  <1>14. CASE Execute \/ ExecuteFails
    BY <1>13, <1>14, ExitCodes DEF Execute, ExecuteFails
  <1> QED
    BY <1>1, <1>2, <1>3, <1>4, <1>5, <1>6, <1>7, <1>9, <1>10, <1>11, <1>12, <1>14
    DEF Next, Program, Validate

LEMMA CourseInvariance == Spec => [](IInv /\ Course)
  <1>1. Init => IInv /\ Course
    BY InitIInv, InitCourse
  <1>2. IInv /\ Course /\ [Next]_vars => (IInv /\ Course)'
    BY NextKeepsIInv, NextKeepsCourse
  <1> QED
    BY <1>1, <1>2, PTL DEF Spec

\* Every variable keeps its type, the package manager is started at most once,
\* and the command leaves at most one log entry.
THEOREM TypeTheorem == Spec => []TypeOK
  <1>1. ASSUME IInv, Course PROVE TypeOK
    <2>1. Len(log) <= 1
      <3>1. CASE log = <<>>
        BY <3>1
      <3>2. CASE log = <<Entry>>
        <4>1. Len(<<Entry>>) = 1
          OBVIOUS
        <4> QED
          BY <3>2, <4>1
      <3> QED
        BY <1>1, <3>1, <3>2 DEF Course
    <2>2. job.cmd \in Commands /\ job.flags \in FlagSets /\ job.pol \in GatePolicies
             /\ job.guarded \in BOOLEAN
      BY <1>1 DEF IInv, Shape, Job
    <2>3. job.cmd.form \in Form
      BY <2>2, CommandsAreParsed
    <2> QED
      BY <1>1, <2>1, <2>2, <2>3 DEF IInv, Shape, Course, TypeOK, Decisions
  <1> QED
    BY <1>1, CourseInvariance, PTL

\* The log entry, written before the package manager runs, never denies the
\* execution or the override that follows.
THEOREM LogTheorem == Spec => []LogIsHonest
  <1>1. ASSUME IInv, Course, Screened, NEW i \in DOMAIN log
        PROVE  log[i].executed /\ (job.flags.force => log[i].override)
    <2>1. log[i] = Entry
      BY <1>1, LoggedIsEntry
    <2>2. proceed.ok /\ ~job.flags.dryRun
      BY <1>1 DEF Screened, IInv, Course
    <2> QED
      BY <2>1, <2>2, EntryFields
  <1>2. IInv /\ Course => LogIsHonest
    BY <1>1 DEF LogIsHonest
  <1> QED
    BY <1>2, CourseInvariance, PTL

\* How a command comes to the package manager, and which ones may pass the gate by.
Ways ==
    /\ ran \/ pc = "resolve" \/ job.guarded => route # "none"
    /\ route = "bypass" => ~job.pol.enabled
    /\ route = "pass" => job.cmd.form \in {"advanced", "other"}

LEMMA NextKeepsWays == IInv /\ Ways /\ [Next]_vars => Ways'
  <1> SUFFICES ASSUME IInv, Ways, [Next]_vars PROVE Ways'
    OBVIOUS
  <1>1. CASE UNCHANGED vars \/ Publish \/ EditManifest
    BY <1>1 DEF vars, Publish, EditManifest, Ways
  <1>2. CASE EnterGuarded
    BY <1>2 DEF EnterGuarded, Delegate, Ways
  <1>3. CASE Bypass \/ ParseUnsupported \/ Proceed
    BY <1>3 DEF Bypass, ParseUnsupported, Proceed, Parsing, Delegate, Ways
  <1>4. CASE PolicyFails \/ ParseFails \/ CollectFails \/ ScanFails
              \/ OutputFails \/ Refuse \/ EndDryRun \/ ResolveFails \/ Crash
    BY <1>4 DEF PolicyFails, ParseFails, CollectFails, ScanFails, OutputFails, Refuse,
                EndDryRun, ResolveFails, Crash, End, Ways
  <1>5. CASE Collect \/ ScanListed \/ ScanPackage \/ Gate \/ LogAudit
    BY <1>5 DEF Collect, ScanListed, ScanPackage, Scanned, Gate, LogAudit, Ways
  <1>6. CASE ExecuteWrapper
    <2>1. job'.pol = job.pol /\ job'.cmd = job.cmd
      BY <1>6 DEF ExecuteWrapper, IInv, Shape, Job
    <2> QED
      BY <1>6, <2>1 DEF ExecuteWrapper, Ways
  <1>7. CASE Execute \/ ExecuteFails
    BY <1>7 DEF Execute, ExecuteFails, Resolved, Start, Ways
  <1> QED
    BY <1>1, <1>2, <1>3, <1>4, <1>5, <1>6, <1>7 DEF Next, Program, Validate

\* A dry run starts the package manager for none of the commands interception
\* applies to, and never claims that it did.
THEOREM DryRunTheorem == Spec => []DryRunIsDry
  <1>1. ASSUME IInv, Course, NEW i \in DOMAIN log, job.flags.dryRun
        PROVE  ~log[i].executed
    <2>1. log[i] = Entry
      BY <1>1, LoggedIsEntry
    <2> QED
      BY <1>1, <2>1, EntryFields
  <1>2. IInv /\ Course /\ Ways => DryRunIsDry
    BY <1>1 DEF DryRunIsDry, Course, Ways
  <1>3. Init => Ways
    BY DEF Init, Ways
  <1> QED
    BY <1>2, <1>3, NextKeepsWays, CourseInvariance, PTL DEF Spec

-----------------------------------------------------------------------------
(* What is pinned is what is scanned.                                      *)

\* The scan of a want that names its release, and is not on the block list.
Pinned(want) == want.kind = "exact" /\ want.name \notin job.pol.blocked

ScanOf(want, r) == r.scanned /\ r.name = want.name /\ r.release = want.release

IsScanned(want) == \E j \in DOMAIN results : ScanOf(want, results[j])
IsDue(want)     == \E j \in DOMAIN todo : todo[j] = want

\* No pinned package of a command line is forgotten: while packages are scanned
\* it has been or will be, and afterwards it has.
Progress ==
    job.cmd.form = "packages" =>
      \A i \in DOMAIN job.cmd.wants : Pinned(job.cmd.wants[i]) =>
        /\ pc = "validate" => IsScanned(job.cmd.wants[i]) \/ IsDue(job.cmd.wants[i])
        /\ pc \in {"log", "output"} \/ route = "screened" => IsScanned(job.cmd.wants[i])

LEMMA InitProgress == Init => Progress
  BY DEF Init, Progress

\* Steps that neither scan nor begin the screening.
LEMMA ProgressKept ==
    ASSUME Progress, UNCHANGED <<results, todo>>,
           job'.cmd = job.cmd, job'.pol = job.pol,
           pc' = "validate" => pc = "validate",
           pc' \in {"log", "output"} \/ route' = "screened" =>
               pc \in {"log", "output"} \/ route = "screened"
    PROVE  Progress'
  BY DEF Progress, Pinned, IsScanned, IsDue, ScanOf

\* A scan takes its want off the list and puts a result of it among the others.
LEMMA ScannedKeepsProgress ==
    ASSUME IInv, Progress, pc = "validate", todo # <<>>, NEW r, Scanned(r),
           Pinned(Head(todo)) => ScanOf(Head(todo), r)
    PROVE  Progress'
  <1>1. /\ results' = Append(results, r) /\ todo' = Tail(todo)
        /\ UNCHANGED <<pc, job, route>> /\ route = "none"
    BY DEF Scanned, IInv, Pending
  <1>2. todo \in Seq(Want) /\ results \in Seq(Result)
    BY DEF IInv, Shape
  <1>3. ASSUME NEW want, IsScanned(want) PROVE IsScanned(want)'
    <2>1. PICK j \in DOMAIN results : ScanOf(want, results[j])
      BY <1>3 DEF IsScanned
    <2>2. j \in DOMAIN results' /\ results'[j] = results[j]
      BY <1>1, <1>2
    <2> QED
      BY <2>1, <2>2 DEF IsScanned, ScanOf
  <1>4. ASSUME NEW want, IsDue(want), Pinned(want) PROVE (IsScanned(want) \/ IsDue(want))'
    <2>1. PICK j \in DOMAIN todo : todo[j] = want
      BY <1>4 DEF IsDue
    <2>2. CASE j = 1
      <3>1. want = Head(todo)
        BY <1>2, <2>1, <2>2
      <3>2. Len(results) + 1 \in DOMAIN results' /\ results'[Len(results) + 1] = r
        BY <1>1, <1>2
      <3>3. ScanOf(want, r)
        BY <1>4, <3>1
      <3> QED
        BY <3>2, <3>3 DEF IsScanned, ScanOf
    <2>3. CASE j # 1
      <3>1. j - 1 \in DOMAIN todo' /\ todo'[j - 1] = todo[j]
        BY <1>1, <1>2, <2>3
      <3> QED
        BY <2>1, <3>1 DEF IsDue
    <2> QED
      BY <2>2, <2>3
  <1>5. ASSUME NEW want PROVE Pinned(want)' = Pinned(want)
    BY <1>1 DEF Pinned
  <1> QED
    BY <1>1, <1>3, <1>4, <1>5 DEF Progress

LEMMA NextKeepsProgress == IInv /\ Progress /\ [Next]_vars => Progress'
  <1> SUFFICES ASSUME IInv, Progress, [Next]_vars PROVE Progress'
    OBVIOUS
  <1>1. CASE UNCHANGED vars \/ Publish \/ EditManifest
    BY <1>1, ProgressKept DEF vars, Publish, EditManifest, scanVars
  <1>2. ASSUME NEW code, End(code) PROVE Progress'
    BY <1>2, ProgressKept DEF End, scanVars
  <1>3. ASSUME NEW how, Delegate(how), how = "screened" => pc = "output" \/ route = "screened"
        PROVE  Progress'
    BY <1>3, ProgressKept DEF Delegate, scanVars
  <1>4. CASE Collect
    <2>1. /\ pc' = "validate" /\ route' = "none" /\ job' = job
          /\ job.cmd.form = "packages" => todo' = job.cmd.wants
      BY <1>4 DEF Collect, Parsing, IInv, Pending
    <2> QED
      BY <2>1 DEF Progress, IsDue
  <1>5. CASE ScanListed
    BY <1>5, ScannedKeepsProgress DEF ScanListed, Pinned
  <1>6. CASE ScanPackage
    <2> DEFINE release == ScannedRelease(Head(todo))
               r == [name |-> Head(todo).name, release |-> release, scanned |-> TRUE,
                     decision |-> Verdict[<<Head(todo).name, release>>].decision,
                     reasons |-> Verdict[<<Head(todo).name, release>>].reasons]
    <2>1. Scanned(r) /\ pc = "validate" /\ todo # <<>>
      BY <1>6 DEF ScanPackage
    <2>2. Pinned(Head(todo)) => ScanOf(Head(todo), r)
      BY DEF Pinned, ScanOf, ScannedRelease
    <2> HIDE DEF r
    <2> QED
      BY <2>1, <2>2, ScannedKeepsProgress
  <1>7. CASE Gate
    <2>1. pc = "validate" /\ pc' = "log" /\ todo = <<>> /\ UNCHANGED <<job, results>>
      BY <1>7 DEF Gate, scanVars
    <2>2. \A want : ~IsDue(want)
      BY <2>1 DEF IsDue
    <2> QED
      BY <2>1, <2>2 DEF Progress, Pinned, IsScanned, ScanOf
  <1>8. CASE LogAudit
    BY <1>8, ProgressKept DEF LogAudit, scanVars
  <1>9. CASE ExecuteWrapper
    <2>1. job'.cmd = job.cmd /\ job'.pol = job.pol
      BY <1>9 DEF ExecuteWrapper, IInv, Shape, Job
    <2> QED
      BY <1>9, <2>1, ProgressKept DEF ExecuteWrapper, scanVars
  <1>10. CASE Execute \/ ExecuteFails
    <2>1. UNCHANGED <<job, route, scanVars>> /\ pc' = "done"
      BY <1>10 DEF Execute, ExecuteFails, Start
    <2> QED
      BY <2>1, ProgressKept DEF scanVars
  <1>11. CASE EnterGuarded \/ Bypass \/ ParseUnsupported \/ Proceed
    BY <1>3, <1>11 DEF EnterGuarded, Bypass, ParseUnsupported, Proceed
  <1>12. CASE PolicyFails \/ ParseFails \/ CollectFails \/ ScanFails
              \/ OutputFails \/ Refuse \/ EndDryRun \/ ResolveFails \/ Crash
    BY <1>2, <1>12
    DEF PolicyFails, ParseFails, CollectFails, ScanFails, OutputFails, Refuse, EndDryRun,
        ResolveFails, Crash
  <1> QED
    BY <1>1, <1>4, <1>5, <1>6, <1>7, <1>8, <1>9, <1>10, <1>11, <1>12 DEF Next, Program, Validate

\* Of a package given by its exact release, the release the package manager is
\* asked for was scanned, whatever is published and edited in the meantime.
THEOREM PinnedTheorem == Spec => []PinnedIsScanned
  <1>1. Progress => PinnedIsScanned
    BY DEF Progress, PinnedIsScanned, Screened, Pinned, IsScanned, ScanOf
  <1> QED
    BY <1>1, InitProgress, NextKeepsProgress, Invariance, PTL DEF Spec

-----------------------------------------------------------------------------
\* What exit code 0 says: only an ended command has a code, and one that ended
\* well was a dry run that started nothing or has what it asked for.
Success == (exit # NoCode => pc = "done") /\ SuccessIsReal

\* A negative answer of the gate has a code other than 0.
LEMMA RefusalHasCode ==
    ASSUME Answered, ~proceed.ok
    PROVE  proceed.code # ExitSuccess
  <1>1. PICK answer \in BOOLEAN :
            proceed = CanProceed(results, overall, job.flags, job.pol, answer)
    BY DEF Answered
  <1> QED
    BY <1>1 DEF CanProceed, WarnGate, ExitSuccess, ExitBlocked, ExitDeclined

\* While the command runs, nothing is claimed.
LEMMA RunningKeepsSuccess ==
    ASSUME Success, pc # "done", exit' = exit
    PROVE  Success'
  BY DEF Success, SuccessIsReal, NoCode, ExitSuccess

\* A command that ends with an error claims nothing.
LEMMA ErrorKeepsSuccess ==
    ASSUME NEW code, code # ExitSuccess, End(code)
    PROVE  Success'
  BY DEF End, Success, SuccessIsReal

\* The package manager that ends well has installed a release for every want.
LEMMA ExecuteDelivers ==
    ASSUME IInv, Execute, job.cmd.form = "packages", NEW i \in DOMAIN job.cmd.wants
    PROVE  \E release \in Release : <<job.cmd.wants[i].name, release>> \in installed'
  <1> DEFINE want == job.cmd.wants[i]
  <1>1. job.cmd \in Commands /\ published \in [Names -> Release]
    BY DEF IInv, Shape, Job
  <1>2. job.cmd.wants \in Seq(Want)
    BY <1>1, CommandsAreParsed
  <1>3. want \in Want
    BY <1>2
  <1>4. InstalledRelease(want) \in Release
    BY <1>1, <1>3 DEF InstalledRelease, Want, Release
  <1>5. want \in Range(job.cmd.wants)
    BY DEF Range
  <1>6. installed' = {<<w.name, InstalledRelease(w)>> : w \in Range(job.cmd.wants)}
    BY DEF Execute, Start, Wanted
  <1> QED
    BY <1>4, <1>5, <1>6

LEMMA NextKeepsSuccess == IInv /\ Course /\ Success /\ [Next]_vars => Success'
  <1> SUFFICES ASSUME IInv, Course, Success, [Next]_vars PROVE Success'
    OBVIOUS
  <1>1. CASE UNCHANGED vars \/ Publish \/ EditManifest
    <2>1. UNCHANGED <<pc, job, ran, installed, exit>>
      BY <1>1 DEF vars, Publish, EditManifest
    <2> QED
      BY <2>1 DEF Success, SuccessIsReal
  <1>2. CASE EnterGuarded \/ Bypass \/ ParseUnsupported \/ Proceed
    BY <1>2, RunningKeepsSuccess
    DEF EnterGuarded, Bypass, ParseUnsupported, Proceed, Parsing, Delegate
  <1>3. CASE PolicyFails \/ ParseFails \/ CollectFails \/ ScanFails
              \/ OutputFails \/ ResolveFails \/ Crash
    BY <1>3, ErrorKeepsSuccess
    DEF PolicyFails, ParseFails, CollectFails, ScanFails, OutputFails, ResolveFails, Crash,
        NoCode, ExitSuccess, ExitUsageError, ExitInternalError, ExitPolicyError,
        ExitPackageManagerNotFound
  <1>4. CASE Refuse
    <2>1. proceed.code # ExitSuccess
      BY <1>4, RefusalHasCode DEF Refuse, IInv
    <2> QED
      BY <1>4, <2>1, ErrorKeepsSuccess DEF Refuse
  <1>5. CASE EndDryRun
    BY <1>5 DEF EndDryRun, End, Course, Success, SuccessIsReal
  <1>6. CASE Collect \/ ScanListed \/ ScanPackage \/ Gate \/ LogAudit \/ ExecuteWrapper
    BY <1>6, RunningKeepsSuccess
    DEF Collect, Parsing, ScanListed, ScanPackage, Scanned, Gate, LogAudit, ExecuteWrapper
  <1>7. CASE Execute
    <2>1. /\ pc' = "done" /\ job' = job
          /\ job.cmd.form = "packages" =>
                \A i \in DOMAIN job.cmd.wants :
                   \E release \in Release : <<job.cmd.wants[i].name, release>> \in installed'
      BY <1>7, ExecuteDelivers DEF Execute, Start
    <2> QED
      BY <2>1 DEF Success, SuccessIsReal
  <1>8. CASE ExecuteFails
    <2>1. pc' = "done" /\ exit' # ExitSuccess
      BY <1>8 DEF ExecuteFails, Start, ExitSuccess, ExitInstallFailed
    <2> QED
      BY <2>1 DEF Success, SuccessIsReal
  <1> QED
    BY <1>1, <1>2, <1>3, <1>4, <1>5, <1>6, <1>7, <1>8 DEF Next, Program, Validate

\* An installation of named packages that ends with code 0 either was a dry run
\* and started nothing, or has installed a release of every package it named.
THEOREM SuccessTheorem == Spec => []SuccessIsReal
  <1>1. Init => Success
    BY DEF Init, Success, SuccessIsReal, NoCode, ExitSuccess
  <1>2. Success => SuccessIsReal
    BY DEF Success
  <1> QED
    BY <1>1, <1>2, CourseInvariance, NextKeepsSuccess, PTL DEF Spec

-----------------------------------------------------------------------------
(* The install gate implements its contract: its initial states are         *)
(* initial states of the contract, and each of its steps is a step of the   *)
(* contract or leaves what the contract sees alone.                         *)

\* Only a command interception applies to is being screened.
Screening ==
    pc \in {"validate", "log", "output"} =>
        /\ job.pol.enabled /\ ~job.guarded
        /\ job.cmd.form \in {"packages", "requirements"}

LEMMA InitScreening == Init => Screening
  BY DEF Init, Screening

LEMMA NextKeepsScreening == Screening /\ [Next]_vars => Screening'
  <1> SUFFICES ASSUME Screening, [Next]_vars PROVE Screening'
    OBVIOUS
  <1>1. CASE UNCHANGED vars \/ Publish \/ EditManifest
    BY <1>1 DEF vars, Publish, EditManifest, Screening
  <1>2. CASE EnterGuarded \/ Bypass \/ ParseUnsupported \/ Proceed
    BY <1>2 DEF EnterGuarded, Bypass, ParseUnsupported, Proceed, Delegate, Screening
  <1>3. CASE PolicyFails \/ ParseFails \/ CollectFails \/ ScanFails
              \/ OutputFails \/ Refuse \/ EndDryRun \/ ResolveFails \/ Crash
    BY <1>3 DEF PolicyFails, ParseFails, CollectFails, ScanFails, OutputFails, Refuse,
                EndDryRun, ResolveFails, Crash, End, Screening
  <1>4. CASE Collect
    BY <1>4 DEF Collect, Parsing, Screening
  <1>5. CASE ScanListed \/ ScanPackage
    BY <1>5 DEF ScanListed, ScanPackage, Scanned, Screening
  <1>6. CASE Gate \/ LogAudit
    BY <1>6 DEF Gate, LogAudit, Screening
  <1>7. CASE ExecuteWrapper \/ Execute \/ ExecuteFails
    BY <1>7 DEF ExecuteWrapper, Execute, ExecuteFails, Start, Screening
  <1> QED
    BY <1>1, <1>2, <1>3, <1>4, <1>5, <1>6, <1>7 DEF Next, Program, Validate

\* All that the steps need.
Inv == IInv /\ Course /\ Screening

LEMMA InvHolds == Spec => []Inv
  <1>1. Init => Inv
    BY InitIInv, InitCourse, InitScreening DEF Inv
  <1>2. Inv /\ [Next]_vars => Inv'
    BY NextKeepsIInv, NextKeepsCourse, NextKeepsScreening DEF Inv
  <1> QED
    BY <1>1, <1>2, PTL DEF Spec

-----------------------------------------------------------------------------
\* Whatever the user answers, a positive answer of the gate is a consent.
LEMMA GateConsents ==
    ASSUME Inv, NEW answer \in BOOLEAN,
           CanProceed(results, overall, job.flags, job.pol, answer).ok
    PROVE  Contract!Consented
  <1>1. job.pol \in GatePolicies /\ overall \in Decisions
    BY DEF Inv, IInv, Shape, Job
  <1>2. CASE overall = "block"
    <2>1. job.flags.force /\ ForceAccepted(job.flags, job.pol, results)
      BY <1>2 DEF CanProceed
    <2> QED
      BY <1>1, <1>2, <2>1, GatePoliciesAreValid DEF ForceAccepted, Contract!Consented
  <1>3. CASE overall = "warn"
    <2>1. WarnGate(job.flags, job.pol, answer).ok
      BY <1>3 DEF CanProceed
    <2> QED
      BY <1>3, <2>1 DEF WarnGate, Contract!Consented
  <1>4. CASE overall = "allow"
    BY <1>4 DEF Contract!Consented
  <1> QED
    BY <1>1, <1>2, <1>3, <1>4 DEF Decisions

\* An end of the command, at any stage, is an end for the contract.
LEMMA EndIsEnd ==
    ASSUME pc # "done", NEW code, End(code)
    PROVE  Contract!End
  BY DEF End, scanVars, Stage, Contract!End

\* Considering one more package never lessens the risk.
LEMMA ScannedIsConsider ==
    ASSUME Inv, pc = "validate", NEW r, r.decision \in Decisions, Scanned(r)
    PROVE  [Contract!Next]_Contract!vars
  <1>1. overall \in Decisions
    BY DEF Inv, IInv, Shape
  <1>2. /\ Stage = "open" /\ Stage' = "open" /\ UNCHANGED <<job, ran>>
        /\ job.pol.enabled /\ job.cmd.form \notin {"advanced", "other"}
    BY DEF Inv, Screening, Stage, Scanned
  <1>3. overall' = overall \/ overall' = "block" \/ (overall' = "warn" /\ overall = "allow")
    BY <1>1 DEF Scanned, Aggregate, Rank, Decisions
  <1> QED
    BY <1>2, <1>3 DEF Contract!Next, Contract!vars, Contract!Consider, Contract!Applies

LEMMA InitRefines == Init => Contract!Init
  <1> SUFFICES ASSUME Init PROVE Contract!Init
    OBVIOUS
  <1>1. job.flags \in FlagSets /\ job.pol \in GatePolicies /\ job.cmd \in Commands
    BY DEF Init
  <1>2. job.cmd.form \in Form
    BY <1>1, CommandsAreParsed
  <1>3. Stage = "open" /\ overall = "allow" /\ ~ran
    BY DEF Init, Stage
  <1> QED
    BY <1>1, <1>2, <1>3 DEF Contract!Init

LEMMA NextRefines == Inv /\ [Next]_vars => [Contract!Next]_Contract!vars
  <1> SUFFICES ASSUME Inv, [Next]_vars PROVE [Contract!Next]_Contract!vars
    OBVIOUS
  <1>1. CASE UNCHANGED vars \/ Publish \/ EditManifest
    BY <1>1 DEF vars, Publish, EditManifest, scanVars, Stage, Contract!vars
  <1>2. CASE EnterGuarded
    BY <1>2 DEF EnterGuarded, Delegate, scanVars, Stage, Contract!vars
  <1>3. CASE Bypass \/ ParseUnsupported
    BY <1>3 DEF Bypass, ParseUnsupported, Parsing, Delegate, scanVars, Stage,
                Contract!Next, Contract!Exempt, Contract!Applies
  <1>4. CASE PolicyFails \/ ParseFails \/ CollectFails \/ ScanFails
              \/ OutputFails \/ Refuse \/ EndDryRun \/ ResolveFails \/ Crash
    BY <1>4, EndIsEnd
    DEF PolicyFails, ParseFails, CollectFails, ScanFails, OutputFails, Refuse, EndDryRun,
        ResolveFails, Crash, Parsing, Contract!Next
  <1>5. CASE Collect
    BY <1>5 DEF Collect, Parsing, Stage, Contract!vars
  <1>6. CASE ScanListed
    BY <1>6, ScannedIsConsider DEF ScanListed, Decisions
  <1>7. CASE ScanPackage
    <2> DEFINE name    == Head(todo).name
               release == ScannedRelease(Head(todo))
    <2>1. name \in Names /\ release \in 1..MaxRelease
      <3>1. todo \in Seq(Want) /\ published \in [Names -> Release]
        BY DEF Inv, IInv, Shape
      <3>2. Head(todo) \in Want
        BY <1>7, <3>1 DEF ScanPackage
      <3> QED
        BY <3>1, <3>2, WantIsScannable
    <2>2. Verdict[<<name, release>>].decision \in Decisions
      BY <2>1, VerdictsAreScans DEF Decisions
    <2> QED
      BY <1>7, <2>2, ScannedIsConsider DEF ScanPackage
  <1>8. CASE Gate
    <2>1. PICK answer \in BOOLEAN :
              proceed' = CanProceed(results, overall, job.flags, job.pol, answer)
      BY <1>8 DEF Gate
    <2>2. /\ Stage = "open" /\ UNCHANGED <<job, overall, ran>>
          /\ Stage' = IF proceed'.ok THEN "accepted" ELSE "refused"
          /\ job.pol.enabled /\ job.cmd.form \notin {"advanced", "other"}
      BY <1>8 DEF Gate, Inv, Screening, Stage, scanVars
    <2>3. proceed'.ok => Contract!Consented
      BY <2>1, GateConsents
    <2> QED
      BY <2>2, <2>3
      DEF Contract!Next, Contract!Accept, Contract!Refuse, Contract!Applies
  <1>9. CASE LogAudit
    BY <1>9 DEF LogAudit, scanVars, Stage, Contract!vars
  <1>10. CASE Proceed
    <2>1. Stage = "accepted" /\ Stage' = "through" /\ UNCHANGED <<job, overall, ran>>
      BY <1>10 DEF Proceed, Delegate, scanVars, Inv, Screening, Stage
    <2> QED
      BY <1>10, <2>1 DEF Proceed, Contract!Next, Contract!HandOver
  <1>11. CASE ExecuteWrapper
    <2>1. /\ job'.guarded /\ job'.flags = job.flags
          /\ job'.pol = job.pol /\ job'.cmd = job.cmd
      BY <1>11 DEF ExecuteWrapper, Inv, IInv, Shape, Job
    <2> QED
      BY <1>11, <2>1 DEF ExecuteWrapper, scanVars, Stage, Contract!vars
  <1>12. CASE Execute \/ ExecuteFails
    BY <1>12
    DEF Execute, ExecuteFails, Resolved, Start, scanVars, Stage, Contract!Next, Contract!Start
  <1> QED
    BY <1>1, <1>2, <1>3, <1>4, <1>5, <1>6, <1>7, <1>8, <1>9, <1>10, <1>11, <1>12
    DEF Next, Program, Validate

\* The gate keeps the contract of install interception: the risk of a command
\* only grows while its packages are scanned, and a package manager starts once
\* at most, for a command that was accepted or that interception leaves alone.
THEOREM GateKeepsContract == Spec => KeepsContract
  <1>1. Spec => []Inv
    BY InvHolds
  <1> QED
    BY <1>1, InitRefines, NextRefines, PTL DEF Spec, KeepsContract, Contract!Spec
-----------------------------------------------------------------------------
(* Progress.                                                               *)

\* How far a command is from its end.
Place ==
    [enter |-> 5, validate |-> 4, log |-> 3, output |-> 2, resolve |-> 1, done |-> 0][pc]

EndIsFinite == Place \in Nat /\ Len(todo) \in Nat

\* A step of the program takes it nearer, or it has one package fewer to scan.
Nearer ==
    \/ Place' < Place
    \/ pc = "validate" /\ pc' = "validate" /\ Len(todo') < Len(todo)

\* What hands a command to PkgSafe again: the first program of the package
\* manager's name on PATH is its own wrapper, and no other is configured.
WrapperIsNext == pc = "resolve" /\ RealBinary = "unset" /\ job.path = "wrapper"

\* What the world does meanwhile does not set it back.
GoesOn == Nearer \/ WrapperIsNext \/ (~Program /\ UNCHANGED <<pc, todo>>)
EachStepGoesOn == [][GoesOn]_vars

LEMMA EndIsNearer == ASSUME Course, pc # "done", NEW code, End(code) PROVE Place' < Place
  BY DEF Course, End, Place

\* A command never goes round but through PkgSafe's own wrapper, whatever is
\* published, edited or answered meanwhile: everything that CommandEnds needs but
\* fairness, and the reason why it excludes such a PATH.
THEOREM GoesOnTheorem == Spec => []EndIsFinite /\ EachStepGoesOn
  <1>1. ASSUME IInv, Course, Program PROVE Nearer \/ WrapperIsNext
    <2>1. CASE EnterGuarded \/ Bypass \/ ParseUnsupported \/ Proceed
      BY <2>1 DEF EnterGuarded, Bypass, ParseUnsupported, Parsing, Proceed, Delegate,
                  Nearer, Place
    <2>2. CASE PolicyFails \/ ParseFails \/ CollectFails \/ ScanFails \/ OutputFails
                \/ Refuse \/ EndDryRun \/ ResolveFails
      BY <1>1, <2>2, EndIsNearer
      DEF PolicyFails, ParseFails, CollectFails, Parsing, ScanFails, OutputFails, Refuse,
          EndDryRun, ResolveFails, Nearer
    <2>3. CASE Collect \/ Gate \/ LogAudit
      BY <2>3 DEF Collect, Parsing, Gate, LogAudit, Nearer, Place
    <2>4. ASSUME NEW result, pc = "validate", todo # <<>>, Scanned(result)
          PROVE  Nearer
      <3>1. todo \in Seq(Want) /\ todo' = Tail(todo) /\ pc' = pc
        BY <1>1, <2>4 DEF IInv, Shape, Scanned
      <3>2. Len(todo') < Len(todo)
        BY <2>4, <3>1
      <3> QED
        BY <2>4, <3>1, <3>2 DEF Nearer
    <2>5. CASE ScanListed \/ ScanPackage
      BY <2>4, <2>5 DEF ScanListed, ScanPackage
    <2>6. CASE ExecuteWrapper
      BY <2>6 DEF ExecuteWrapper, WrapperIsNext
    <2>7. CASE Execute \/ ExecuteFails
      BY <2>7 DEF Execute, ExecuteFails, Resolved, Start, Nearer, Place
    <2> QED
      BY <1>1, <2>1, <2>2, <2>3, <2>5, <2>6, <2>7 DEF Program, Validate
  <1>2. ASSUME IInv, Course, Crash PROVE Nearer
    BY <1>2, EndIsNearer DEF Crash, Nearer
  <1>3. Publish \/ EditManifest => UNCHANGED <<pc, todo>>
    BY DEF Publish, EditManifest, scanVars
  <1>4. IInv /\ Course /\ [Next]_vars => [GoesOn]_vars
    BY <1>1, <1>2, <1>3 DEF Next, GoesOn
  <1>5. IInv /\ Course => EndIsFinite
    BY DEF IInv, Shape, Course, Place, EndIsFinite
  <1> QED
    BY <1>4, <1>5, CourseInvariance, PTL DEF EachStepGoesOn, Spec
=============================================================================
