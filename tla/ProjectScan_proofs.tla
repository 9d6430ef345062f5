-------------------------- MODULE ProjectScan_proofs --------------------------
(***************************************************************************)
(* What the commands answer, for any commands, trees, findings, databases  *)
(* and policies, and for any order of the files and of the rows.           *)
(*                                                                         *)
(* explain does not take a package for the one of the same name in the     *)
(* other registry (EcosystemIsNotConfused): the answers of the registries  *)
(* come in any order, may fail, and may come after the timer; the          *)
(* ecosystem is settled only once both have been received.                 *)
(*                                                                         *)
(* The exit tells the worst verdict (ExitMatchesVerdicts), and malware in  *)
(* a lockfile stops a scan (MalwareStopsScan).  Neither is inductive: the  *)
(* first needs that the messages told so far are those of the verdicts     *)
(* reached so far, the second that no row or file still to come has lost   *)
(* the malware.                                                            *)
(*                                                                         *)
(* inventory-diff tells what has changed (DiffTellsChanges): whichever row *)
(* a map keeps under a key, it is the last of those of its file and name.  *)
(***************************************************************************)
EXTENDS ProjectScan, FiniteSetTheorems, SequenceTheorems, WellFoundedInduction, TLAPS

\* Only explain asks the registries, and no other command settles anything.
OnlyExplainSettles ==
    /\ cmd \in Commands
    /\ pc \in {"detect", "probing"} => cmd.op = "explain"
    /\ pc \notin {"package", "done"} => eco = None
    /\ pc \in {"start", "detect"} => heard = {}

\* What has been received is the truth, unless the registry could not be asked.
AnswersAreTrue ==
  /\ heard \subseteq Ecosystems
  /\ \A e \in heard : \/ probes[e] = "found" /\ e \in cmd.hosts
                      \/ probes[e] = "missing" /\ e \notin cmd.hosts
                      \/ probes[e] = "failed"

\* The same of every answer that is under way.
ProbesAreTrue ==
    /\ DOMAIN probes = Ecosystems
    /\ \A e \in Ecosystems : /\ probes[e] = "found" => e \in cmd.hosts
                             /\ probes[e] = "missing" => e \notin cmd.hosts

IInv == OnlyExplainSettles /\ AnswersAreTrue /\ ProbesAreTrue /\ EcosystemIsNotConfused

LEMMA InitIInv == Init => IInv
<1> SUFFICES ASSUME Init PROVE IInv
  OBVIOUS
<1>1. /\ cmd \in Commands /\ pc = "start" /\ eco = None /\ heard = {}
      /\ probes = [e \in Ecosystems |-> "none"]
  BY Zenon DEF Init
<1>2. OnlyExplainSettles /\ AnswersAreTrue /\ ProbesAreTrue
  BY <1>1 DEF OnlyExplainSettles, AnswersAreTrue, ProbesAreTrue, Ecosystems
<1>3. EcosystemIsNotConfused
  BY <1>1, EcosystemsAreKnown DEF EcosystemIsNotConfused, Ecosystems
<1> QED BY <1>2, <1>3 DEF IInv

\* The steps that have nothing to do with the registries.
LEMMA Frame ==
  ASSUME IInv, UNCHANGED <<cmd, probeVars>>,
         pc' \in {"detect", "probing"} => cmd.op = "explain",
         pc' \in {"start", "detect"} => heard = {},
         pc' = "package" \/ pc' = "done" \/ eco = None
  PROVE  IInv'
<1>1. OnlyExplainSettles'
  BY DEF IInv, OnlyExplainSettles, probeVars
<1>2. AnswersAreTrue' /\ ProbesAreTrue'
  BY DEF IInv, AnswersAreTrue, ProbesAreTrue, probeVars
<1>3. EcosystemIsNotConfused'
  BY DEF IInv, EcosystemIsNotConfused, Founded, probeVars
<1> QED BY <1>1, <1>2, <1>3 DEF IInv

\* The commands that read a project's files (main.go cmdScan, cmdScanLockfile,
\* cmdTree, cmdVerify, cmdInventoryDiff).
LEMMA FilesKeep == IInv /\ Files => IInv'
<1> SUFFICES ASSUME IInv, Files PROVE IInv'
  OBVIOUS
<1>1. UNCHANGED <<cmd, probeVars>>
  BY Zenon DEF Files, ReadLockfile, ReadPackageJSON, SkipFile, OpenDependencies, ScanDependency,
               DependencyFails, CloseDependencies, Report, ShowTree, VerifyLockfile,
               DiffInventory, DiffFails
<1>2. pc \in {"files", "deps", "inventory"}
  BY Zenon DEF Files, AtFile, ReadLockfile, ReadPackageJSON, SkipFile, OpenDependencies,
               ScanDependency, DependencyFails, CloseDependencies, Report, ShowTree,
               VerifyLockfile, DiffInventory, DiffFails
<1>3. pc' = pc \/ pc' \in {"files", "deps", "done"}
  BY Zenon DEF Files, AtFile, ReadLockfile, ReadPackageJSON, SkipFile, OpenDependencies,
               ScanDependency, DependencyFails, CloseDependencies, Report, ShowTree,
               VerifyLockfile, DiffInventory, DiffFails, Exit
<1>4. eco = None
  BY <1>2 DEF IInv, OnlyExplainSettles
<1>5. pc' \notin {"start", "detect", "probing"}
  BY <1>2, <1>3
<1> QED BY <1>1, <1>4, <1>5, Frame

\* The commands for one package: they end with the process.
LEMMA OnePackageKeeps == IInv /\ OnePackage => IInv'
<1> SUFFICES ASSUME IInv, OnePackage PROVE IInv'
  OBVIOUS
<1>1. UNCHANGED <<cmd, probeVars>>
  BY Zenon DEF OnePackage, ScanPackage, NPMInstall, Explain, PackageFails, ExplainPanics
<1>2. pc' = "done"
  BY Zenon DEF OnePackage, ScanPackage, NPMInstall, Explain, PackageFails, ExplainPanics, Exit
<1> QED BY <1>1, <1>2, Frame

\* detectEcosystem before it asks: a prefix, a single stored verdict, or off line.
LEMMA DetectKeeps == IInv /\ Detect => IInv'
<1> SUFFICES ASSUME IInv, Detect PROVE IInv'
  OBVIOUS
<1>1. /\ cmd \in Commands /\ cmd.op = "explain" /\ eco = None
      /\ UNCHANGED <<cmd, heard, asked>>
  BY DEF Detect, IInv, OnlyExplainSettles
<1>2. cmd.cached \subseteq Ecosystems /\ cmd.prefix \in Ecosystems \cup {None}
  BY <1>1, EcosystemsAreKnown
<1>3. CASE /\ probes' = [e \in Ecosystems |-> "flying"]
           /\ pc' = "probing" /\ eco' = eco
  <2>1. heard = {}
    BY DEF Detect, IInv, OnlyExplainSettles
  <2>2. OnlyExplainSettles' /\ AnswersAreTrue' /\ ProbesAreTrue'
    BY <1>1, <1>3, <2>1 DEF OnlyExplainSettles, AnswersAreTrue, ProbesAreTrue
  <2>3. EcosystemIsNotConfused'
    BY <1>1, <1>3, EcosystemsAreKnown DEF EcosystemIsNotConfused, Ecosystems
  <2> QED BY <2>2, <2>3 DEF IInv
<1>4. ASSUME NEW e, Settled(e), UNCHANGED probes,
             cmd.prefix = e \/ cmd.cached = {e} \/ (cmd.offline /\ e = "npm")
      PROVE  IInv'
  <2>1. OnlyExplainSettles'
    BY <1>1, <1>4 DEF Settled, OnlyExplainSettles
  <2>2. AnswersAreTrue' /\ ProbesAreTrue'
    BY <1>1, <1>4 DEF IInv, AnswersAreTrue, ProbesAreTrue
  <2>3. EcosystemIsNotConfused'
    BY <1>1, <1>4 DEF Settled, EcosystemIsNotConfused, Founded
  <2> QED BY <2>1, <2>2, <2>3 DEF IInv
<1>5. Cardinality(cmd.cached) = 1 => cmd.cached = {CHOOSE e \in cmd.cached : TRUE}
  <2>1. IsFiniteSet(Ecosystems)
    <3>1. IsFiniteSet({"npm"})
      BY FS_Singleton
    <3>2. IsFiniteSet({"npm"} \cup {"pypi"})
      BY <3>1, FS_AddElement
    <3>3. Ecosystems = {"npm"} \cup {"pypi"}
      BY DEF Ecosystems
    <3> QED BY <3>2, <3>3
  <2>2. IsFiniteSet(cmd.cached)
    BY <1>2, <2>1, FS_Subset
  <2> SUFFICES ASSUME Cardinality(cmd.cached) = 1
               PROVE  cmd.cached = {CHOOSE e \in cmd.cached : TRUE}
    OBVIOUS
  <2>3. PICK x : cmd.cached = {x}
    BY <2>2, FS_Singleton
  <2> QED BY <2>3
<1>6. \/ /\ probes' = [e \in Ecosystems |-> "flying"]
         /\ pc' = "probing" /\ eco' = eco
      \/ \E e : /\ Settled(e) /\ UNCHANGED probes
                /\ cmd.prefix = e \/ cmd.cached = {e} \/ (cmd.offline /\ e = "npm")
  BY <1>5, Zenon DEF Detect
<1> QED BY <1>3, <1>4, <1>6

\* An answer that comes in is what the registry has (main.go detectEcosystem,
\* the two goroutines).
LEMMA ProbeKeeps ==
  ASSUME IInv, NEW e \in Ecosystems, ProbeAnswers(e) \/ ProbeFails(e)
  PROVE  IInv'
<1>1. /\ UNCHANGED <<cmd, pc, heard, eco, asked>> /\ probes[e] = "flying"
      /\ \/ probes' = [probes EXCEPT ![e] = IF e \in cmd.hosts THEN "found" ELSE "missing"]
         \/ probes' = [probes EXCEPT ![e] = "failed"]
  BY Zenon DEF ProbeAnswers, ProbeFails
<1>2. OnlyExplainSettles'
  BY <1>1 DEF IInv, OnlyExplainSettles
<1>3. e \notin heard
  BY <1>1 DEF IInv, AnswersAreTrue
<1>4. AnswersAreTrue'
  BY <1>1, <1>3 DEF IInv, AnswersAreTrue, ProbesAreTrue
<1>5. ProbesAreTrue'
  BY <1>1 DEF IInv, ProbesAreTrue
<1>6. \A o \in Ecosystems : probes[o] = "failed" => probes'[o] = "failed"
  BY <1>1 DEF IInv, ProbesAreTrue
<1>7. EcosystemIsNotConfused'
  BY <1>1, <1>6 DEF IInv, EcosystemIsNotConfused, Founded, Ecosystems
<1> QED BY <1>2, <1>4, <1>5, <1>7 DEF IInv

\* Receiving an answer: each is received once.
LEMMA ReceiveKeeps == ASSUME IInv, NEW e \in Ecosystems, Receive(e) PROVE IInv'
<1>1. /\ UNCHANGED <<cmd, pc, probes, eco, asked>> /\ pc = "probing"
      /\ probes[e] \in {"found", "missing", "failed"} /\ heard' = heard \cup {e}
  BY Zenon DEF Receive
<1>2. OnlyExplainSettles' /\ ProbesAreTrue'
  BY <1>1 DEF IInv, OnlyExplainSettles, ProbesAreTrue
<1>3. AnswersAreTrue'
  BY <1>1 DEF IInv, AnswersAreTrue, ProbesAreTrue
<1>4. EcosystemIsNotConfused'
  BY <1>1 DEF IInv, EcosystemIsNotConfused, Founded
<1> QED BY <1>2, <1>3, <1>4 DEF IInv

\* Once both answers are there the name is settled; only both registries
\* having it is a question for the user.
LEMMA SettleKeeps == IInv /\ Settle => IInv'
<1> SUFFICES ASSUME IInv, Settle PROVE IInv'
  OBVIOUS
<1>1. /\ UNCHANGED <<cmd, probes, heard>> /\ pc = "probing" /\ pc' = "package"
      /\ heard = Ecosystems
  BY DEF Settle, Settled
<1>2. OnlyExplainSettles' /\ AnswersAreTrue' /\ ProbesAreTrue'
  BY <1>1 DEF IInv, OnlyExplainSettles, AnswersAreTrue, ProbesAreTrue
<1>3. \/ asked'
      \/ eco' = (IF Found("pypi") /\ ~Found("npm") THEN "pypi" ELSE "npm")
  BY DEF Settle, Settled
<1>4. \A e \in Ecosystems :
         /\ Found(e) <=> probes[e] = "found"
         /\ probes[e] # "found" => (e \in cmd.hosts => probes[e] = "failed")
  BY <1>1 DEF IInv, AnswersAreTrue, Found
<1>5. EcosystemIsNotConfused'
  <2>1. CASE asked'
    <3>1. \/ Found("npm") /\ Found("pypi")
          \/ eco' = (IF Found("pypi") /\ ~Found("npm") THEN "pypi" ELSE "npm")
      BY DEF Settle, Settled
    <3> QED BY <1>1, <1>4, <2>1, <3>1 DEF EcosystemIsNotConfused, Founded, Ecosystems, IInv,
                                          AnswersAreTrue
  <2>2. CASE ~asked'
    <3>1. eco' = "pypi" => Found("pypi") /\ ~Found("npm")
      BY <1>3, <2>2
    <3>2. eco' = "npm" => ~Found("pypi") \/ Found("npm")
      BY <1>3, <2>2
    <3>3. eco' = "pypi" /\ "npm" \in cmd.hosts => probes["npm"] = "failed"
      BY <1>4, <3>1 DEF Ecosystems
    <3>4. eco' = "npm" /\ cmd.hosts = {"pypi"} => probes["pypi"] = "failed"
      <4>1. Found("npm") => "npm" \in cmd.hosts
        BY <1>1 DEF IInv, ProbesAreTrue, Found, Ecosystems
      <4> QED BY <1>4, <3>2, <4>1 DEF Ecosystems
    <3> QED BY <1>1, <3>3, <3>4 DEF EcosystemIsNotConfused, Founded
  <2> QED BY <2>1, <2>2
<1> QED BY <1>2, <1>5 DEF IInv

\* A name npm has is PyPI's only if the user chose so, or one of the two is
\* stated, stored or could not be asked; a name only PyPI has is npm's only off
\* line or likewise.  The timer has no part in it.
THEOREM EcosystemTheorem == Spec => []EcosystemIsNotConfused
<1>1. Init => IInv
  BY InitIInv
<1>2. IInv /\ [Next]_vars => IInv'
  <2> SUFFICES ASSUME IInv, [Next]_vars PROVE IInv'
    OBVIOUS
  <2>1. CASE Start
    <3>1. UNCHANGED <<cmd, probeVars>> /\ pc = "start" /\ pc' = Begin(cmd)
      BY <2>1 DEF Start
    <3>2. pc' \in {"detect", "probing"} => cmd.op = "explain"
      BY <3>1 DEF Begin
    <3>3. eco = None /\ heard = {}
      BY <3>1 DEF IInv, OnlyExplainSettles
    <3> QED BY <3>1, <3>2, <3>3, Frame
  <2>2. CASE Synchronise \/ Done \/ TimerFires \/ UNCHANGED vars
    <3>1. UNCHANGED <<cmd, pc, probes, heard, eco, asked>>
      BY <2>2, Zenon DEF Synchronise, Done, TimerFires, vars, probeVars
    <3>2. OnlyExplainSettles'
      BY <3>1 DEF IInv, OnlyExplainSettles
    <3>3. AnswersAreTrue' /\ ProbesAreTrue'
      BY <3>1 DEF IInv, AnswersAreTrue, ProbesAreTrue
    <3>4. EcosystemIsNotConfused'
      BY <3>1 DEF IInv, EcosystemIsNotConfused, Founded
    <3> QED BY <3>2, <3>3, <3>4 DEF IInv
  <2> QED BY <2>1, <2>2, FilesKeep, OnePackageKeeps, DetectKeeps, ProbeKeeps, ReceiveKeeps,
             SettleKeeps DEF Next, Probing
<1>3. IInv => EcosystemIsNotConfused
  BY DEF IInv
<1> QED BY <1>1, <1>2, <1>3, PTL DEF Spec

-----------------------------------------------------------------------------
(* The exit status of a gate command.                                      *)

DecisionsMade == {"allow", "warn", "block"}

Thresholds == {"none", "warn", "block"}

IsSeq(s) == Len(s) \in Nat /\ s = [i \in 1..Len(s) |-> s[i]]

LEMMA AppendToSeq ==
    ASSUME NEW s, IsSeq(s), NEW x
    PROVE  /\ IsSeq(Append(s, x))
           /\ DOMAIN s = 1..Len(s) /\ DOMAIN Append(s, x) = 1..(Len(s) + 1)
           /\ \A i \in 1..Len(s) : Append(s, x)[i] = s[i]
           /\ Append(s, x)[Len(s) + 1] = x
<1> DEFINE S == {s[i] : i \in 1..Len(s)} \cup {x}
<1>1. s \in Seq(S) /\ x \in S
  <2>1. [i \in 1..Len(s) |-> s[i]] \in [1..Len(s) -> S]
    OBVIOUS
  <2>2. s \in [1..Len(s) -> S] /\ Len(s) \in Nat
    BY <2>1 DEF IsSeq
  <2> HIDE DEF S
  <2>3. s \in Seq(S)
    BY <2>2, SeqDef
  <2> QED BY <2>3 DEF S
<1>2. s \in Seq(S) /\ Len(s) \in Nat
  BY <1>1, LenProperties
<1> HIDE DEF S
<1>3. /\ Append(s, x) \in Seq(S) /\ Len(Append(s, x)) = Len(s) + 1
      /\ \A i \in 1..Len(s) : Append(s, x)[i] = s[i]
      /\ Append(s, x)[Len(s) + 1] = x
  BY <1>1, AppendProperties
<1>4. /\ DOMAIN s = 1..Len(s) /\ DOMAIN Append(s, x) = 1..(Len(s) + 1)
  BY <1>1, <1>3, LenProperties
<1>5. IsSeq(Append(s, x))
  <2> DEFINE a == Append(s, x)
  <2>1. Len(a) \in Nat /\ a \in [1..Len(a) -> S]
    BY <1>3, LenProperties
  <2> HIDE DEF a
  <2>2. a = [i \in 1..Len(a) |-> a[i]]
    BY <2>1
  <2> QED BY <2>1, <2>2 DEF IsSeq, a
<1> QED BY <1>3, <1>4, <1>5

\* worstDecision: what is worst among some decisions reaches a threshold if one
\* of them does.
LEMMA WorstIsReached ==
    ASSUME NEW D \in SUBSET DecisionsMade, NEW t \in Thresholds
    PROVE  /\ WorstDecision(D) \in DecisionsMade
           /\ Reaches(WorstDecision(D), t) <=> \E d \in D : Reaches(d, t)
<1> DEFINE A == D \cup {"allow"}
           IsWorst(d) == d \in A /\ \A other \in A : Rank[other] <= Rank[d]
<1>1. \E d \in A : \A other \in A : Rank[other] <= Rank[d]
  <2>1. CASE "block" \in D
    <3>1. IsWorst("block")
      BY <2>1 DEF Rank, DecisionsMade
    <3> QED BY <3>1
  <2>2. CASE "block" \notin D /\ "warn" \in D
    <3>1. IsWorst("warn")
      BY <2>2 DEF Rank, DecisionsMade
    <3> QED BY <3>1
  <2>3. CASE "block" \notin D /\ "warn" \notin D
    <3>1. IsWorst("allow")
      BY <2>3 DEF Rank, DecisionsMade
    <3> QED BY <3>1
  <2> QED BY <2>1, <2>2, <2>3
<1>2. IsWorst(WorstDecision(D))
  BY <1>1 DEF WorstDecision
<1>3. A \subseteq DecisionsMade
  BY DEF DecisionsMade
<1>4. WorstDecision(D) \in DecisionsMade
  BY <1>2, <1>3
<1>5. /\ WorstDecision(D) # "allow" => WorstDecision(D) \in D
      /\ "block" \in D => WorstDecision(D) = "block"
      /\ "warn" \in D => WorstDecision(D) \in {"warn", "block"}
  BY <1>2, <1>4 DEF Rank, DecisionsMade
<1> QED BY <1>4, <1>5 DEF Reaches, DecisionsMade, Thresholds

\* A valid command's threshold is one of the three.
LEMMA ThresholdIsOne == ASSUME NEW c, ValidFailOn(c) PROVE Threshold(c) \in Thresholds
  BY DEF Threshold, ValidFailOn, Thresholds

\* What the report has been told so far: by the files done, and by the file
\* whose dependencies are being scanned.
Told(t) == \/ \E i \in DOMAIN rows : Reaches(rows[i].decision, t)
           \/ pc = "deps" /\ Reaches(Lower[summary], t)

Judged(t) == \E v \in verdicts : Reaches(v.decision, t)

GateShape ==
    /\ IsSeq(rows) /\ summary \in {"ALLOW", "WARN", "BLOCK"}
    /\ \A i \in DOMAIN rows : rows[i].decision \in DecisionsMade
    /\ cmd.op \in Gates => \A v \in verdicts : v.decision \in DecisionsMade
    /\ pc \in {"start", "inventory", "detect", "probing", "package"} =>
          verdicts = {} /\ rows = <<>>
    /\ pc = "inventory" => cmd.op = "inventory-diff"
    /\ pc \in {"files", "deps"} => cmd.op \notin {"package", "npm-install"}
    /\ pc = "deps" => cmd.op \in {"scan", "scan-deps"}
    /\ pc # "done" => exit = "none" /\ ~installed

\* Neither aggregation, of a file in upper case or of the project in lower
\* case, forgets a verdict or invents one.
NothingForgotten ==
    pc # "done" /\ cmd.op \in Gates =>
        \A t \in {"warn", "block"} : Told(t) <=> Judged(t)

EInv == cmd \in Commands /\ GateShape /\ NothingForgotten /\ ExitMatchesVerdicts

\* Before the end there is no exit status to be wrong.
LEMMA StillRunning ==
    ASSUME pc' # "done", ~installed' PROVE ExitMatchesVerdicts'
  BY DEF ExitMatchesVerdicts

LEMMA InitEInv == Init => EInv
<1> SUFFICES ASSUME Init PROVE EInv
  OBVIOUS
<1>1. /\ cmd \in Commands /\ pc = "start" /\ rows = <<>> /\ summary = "ALLOW" /\ verdicts = {}
      /\ exit = "none" /\ installed = FALSE
  BY Zenon DEF Init
<1>2. Len(<< >>) = 0 /\ DOMAIN << >> = {}
  OBVIOUS
<1>3. IsSeq(rows)
  BY <1>1, <1>2 DEF IsSeq
<1>4. GateShape /\ NothingForgotten /\ ExitMatchesVerdicts
  BY <1>1, <1>2, <1>3 DEF GateShape, NothingForgotten, ExitMatchesVerdicts, Told, Judged
<1> QED BY <1>1, <1>4 DEF EInv

\* The steps that touch nothing the exit status is made of.
LEMMA FrameEInv ==
    ASSUME EInv, UNCHANGED <<cmd, rows, summary, verdicts, installed, exit>>, pc # "done",
           pc' # "done", pc' = "deps" => pc = "deps",
           pc = "deps" => pc' = "deps",
           pc' \in {"start", "inventory", "detect", "probing", "package"} =>
               pc \in {"start", "inventory", "detect", "probing", "package"},
           pc' = "inventory" => cmd.op = "inventory-diff",
           pc' \in {"files", "deps"} => cmd.op \notin {"package", "npm-install"}
    PROVE  EInv'
<1>1. GateShape'
  BY DEF EInv, GateShape
<1>2. NothingForgotten'
  BY DEF EInv, NothingForgotten, Told, Judged
<1>3. ExitMatchesVerdicts'
  BY StillRunning DEF EInv, GateShape
<1> QED BY <1>1, <1>2, <1>3 DEF EInv

\* The end of a command that failed, or of one whose exit status tells nothing.
LEMMA EndsUntold ==
    ASSUME EInv, UNCHANGED <<cmd, rows, summary, installed>>, pc # "done", pc' = "done",
           UNCHANGED verdicts \/ cmd.op \notin Gates,
           exit' \notin {"ok", "failed"} \/ cmd.op \notin Gates
    PROVE  EInv'
<1>1. GateShape'
  BY DEF EInv, GateShape
<1>2. NothingForgotten'
  BY DEF NothingForgotten
<1>3. ExitMatchesVerdicts'
  BY DEF EInv, GateShape, ExitMatchesVerdicts
<1> QED BY <1>1, <1>2, <1>3 DEF EInv

\* A verdict on a whole file, reported at once.
LEMMA RowIsTold ==
    ASSUME EInv, UNCHANGED <<cmd, pc, summary, installed, exit>>, pc = "files",
           NEW f, NEW d \in DecisionsMade, NEW subject,
           rows' = Append(rows, [file |-> f, decision |-> d]), Verdict(subject, d)
    PROVE  EInv'
<1> DEFINE r == [file |-> f, decision |-> d]
           v == [subject |-> subject, decision |-> d]
<1>1. r.decision = d /\ v.decision = d
  OBVIOUS
<1>2. rows' = Append(rows, r) /\ verdicts' = verdicts \cup {v}
  BY DEF Verdict
<1> HIDE DEF r, v
<1>3. IsSeq(rows)
  BY DEF EInv, GateShape
<1>4. /\ IsSeq(rows') /\ DOMAIN rows = 1..Len(rows) /\ DOMAIN rows' = 1..(Len(rows) + 1)
      /\ \A i \in 1..Len(rows) : rows'[i] = rows[i]
      /\ rows'[Len(rows) + 1] = r /\ Len(rows) \in Nat
  BY <1>2, <1>3, AppendToSeq DEF IsSeq
<1>5. \A i \in DOMAIN rows' : rows'[i].decision \in DecisionsMade
  BY <1>1, <1>4 DEF EInv, GateShape
<1>6. GateShape'
  BY <1>1, <1>2, <1>4, <1>5 DEF EInv, GateShape
<1>7. NothingForgotten'
  BY <1>1, <1>2, <1>4 DEF EInv, NothingForgotten, Told, Judged
<1>8. ExitMatchesVerdicts'
  BY StillRunning DEF EInv, GateShape
<1> QED BY <1>6, <1>7, <1>8 DEF EInv

\* The decisions of the analysers are decisions (risk.go Evaluate and
\* policy_controls.go).
LEMMA EvaluateDecides ==
    ASSUME NEW pkg, NEW findings, NEW pol
    PROVE  Evaluate(pkg, findings, pol).decision \in DecisionsMade
  BY DEF Evaluate, EvaluateRepeated, Decide, DecisionsMade

LEMMA ControlsDecide ==
    ASSUME NEW res, NEW pol, NEW reg, NEW by, NEW env
    PROVE  ApplyPolicyControls(res, pol, reg, by, env).decision \in DecisionsMade
<1> DEFINE b == BeforeExceptions(res, pol, reg, by)
<1>1. b.decision \in DecisionsMade
  BY DEF BeforeExceptions, ControlDecision, Decide, DecisionsMade
<1> HIDE DEF b
<1>2. Conclude(b, res.pkg, pol, env).decision \in DecisionsMade
  BY <1>1 DEF Conclude, Softened, DecisionsMade
<1> QED BY <1>2 DEF ApplyPolicyControls, b

LEMMA ReadingKeepsEInv ==
    ASSUME EInv, ReadLockfile \/ ReadPackageJSON \/ SkipFile PROVE EInv'
<1>1. CASE ReadLockfile
  <2>1. /\ UNCHANGED <<cmd, pc, summary, installed, exit>> /\ pc = "files"
        /\ \E f, subject : \E d \in DecisionsMade :
              /\ rows' = Append(rows, [file |-> f, decision |-> d])
              /\ Verdict(subject, d)
    <3>1. PICK pins, found : \E result \in {AnalyzeLockfile(cmd.project[Head(todo)], pins, found,
                                                             db, cmd.pol)} :
             /\ rows' = Append(rows, [file |-> Head(todo), decision |-> result.decision])
             /\ Verdict(<<Head(todo)>>, result.decision)
      BY <1>1, Zenon DEF ReadLockfile
    <3> DEFINE result == AnalyzeLockfile(cmd.project[Head(todo)], pins, found, db, cmd.pol)
    <3>2. result.decision \in DecisionsMade
      BY EvaluateDecides DEF AnalyzeLockfile
    <3> HIDE DEF result
    <3>3. /\ rows' = Append(rows, [file |-> Head(todo), decision |-> result.decision])
          /\ Verdict(<<Head(todo)>>, result.decision)
      BY <3>1, Zenon DEF result
    <3> QED BY <1>1, <3>2, <3>3, Zenon DEF ReadLockfile, AtFile
  <2> QED BY <2>1, RowIsTold
<1>2. CASE ReadPackageJSON
  <2>1. /\ UNCHANGED <<cmd, pc, summary, installed, exit>> /\ pc = "files"
        /\ \E f, subject : \E d \in DecisionsMade :
              /\ rows' = Append(rows, [file |-> f, decision |-> d])
              /\ Verdict(subject, d)
    <3> DEFINE result == ScanLocalPackage(cmd.project[Head(todo)], cmd.pol)
    <3>1. result.decision \in DecisionsMade
      BY ControlsDecide DEF ScanLocalPackage
    <3> HIDE DEF result
    <3>2. /\ rows' = Append(rows, [file |-> Head(todo), decision |-> result.decision])
          /\ Verdict(<<Head(todo)>>, result.decision)
      BY <1>2, Zenon DEF ReadPackageJSON, result
    <3> QED BY <1>2, <3>1, <3>2, Zenon DEF ReadPackageJSON, AtFile
  <2> QED BY <2>1, RowIsTold
<1>3. CASE SkipFile
  <2>1. /\ UNCHANGED <<cmd, rows, summary, verdicts, installed>> /\ pc = "files"
        /\ UNCHANGED <<pc, exit>> \/ Exit("error")
    BY <1>3, Zenon DEF SkipFile
  <2>2. CASE UNCHANGED <<pc, exit>>
    BY <2>1, <2>2, FrameEInv DEF EInv, GateShape
  <2>3. CASE Exit("error")
    BY <2>1, <2>3, EndsUntold DEF Exit
  <2> QED BY <2>1, <2>2, <2>3
<1> QED BY <1>1, <1>2, <1>3

\* A file of dependencies is opened with nothing to tell of it yet.
LEMMA OpeningKeepsEInv == ASSUME EInv, OpenDependencies PROVE EInv'
<1>1. /\ UNCHANGED <<cmd, rows, verdicts, installed, exit>> /\ pc = "files" /\ pc' = "deps"
      /\ summary' = "ALLOW" /\ cmd.op \in {"scan", "scan-deps"}
  BY Zenon DEF OpenDependencies, AtFile
<1>2. \A t : ~Reaches(Lower["ALLOW"], t)
  BY DEF Reaches, Lower
<1>3. GateShape'
  BY <1>1 DEF EInv, GateShape
<1>4. NothingForgotten'
  BY <1>1, <1>2 DEF EInv, NothingForgotten, Told, Judged
<1>5. ExitMatchesVerdicts'
  BY <1>1, StillRunning DEF EInv, GateShape
<1> QED BY <1>1, <1>3, <1>4, <1>5 DEF EInv

\* aggregateSummaryDecision keeps the worst so far.
LEMMA SummaryTells ==
    ASSUME NEW s \in {"ALLOW", "WARN", "BLOCK"}, NEW d \in DecisionsMade
    PROVE  /\ Summarize(s, d) \in {"ALLOW", "WARN", "BLOCK"}
           /\ \A t \in {"warn", "block"} :
                 Reaches(Lower[Summarize(s, d)], t) <=> Reaches(Lower[s], t) \/ Reaches(d, t)
  BY DEF Summarize, Reaches, Lower, DecisionsMade

LEMMA ScanningKeepsEInv == ASSUME EInv, ScanDependency \/ DependencyFails PROVE EInv'
<1>1. CASE ScanDependency
  <2>1. PICK d \in DecisionsMade : /\ verdicts' = verdicts \cup {[subject |-> Subject, decision |-> d]}
                                   /\ summary' = Summarize(summary, d)
    BY <1>1, Zenon DEF ScanDependency, Verdict, DecisionsMade
  <2>2. UNCHANGED <<cmd, pc, rows, installed, exit>> /\ pc = "deps"
    BY <1>1, Zenon DEF ScanDependency
  <2> DEFINE v == [subject |-> Subject, decision |-> d]
  <2>3. v.decision = d /\ verdicts' = verdicts \cup {v}
    BY <2>1
  <2> HIDE DEF v
  <2>4. /\ summary' \in {"ALLOW", "WARN", "BLOCK"}
        /\ \A t \in {"warn", "block"} :
              Reaches(Lower[summary'], t) <=> Reaches(Lower[summary], t) \/ Reaches(d, t)
    BY <2>1, SummaryTells DEF EInv, GateShape
  <2>5. GateShape'
    BY <2>2, <2>3, <2>4 DEF EInv, GateShape
  <2>6. NothingForgotten'
    BY <2>2, <2>3, <2>4 DEF EInv, NothingForgotten, Told, Judged
  <2>7. ExitMatchesVerdicts'
    BY <2>2, StillRunning DEF EInv, GateShape
  <2> QED BY <2>2, <2>5, <2>6, <2>7 DEF EInv
<1>2. CASE DependencyFails
  <2>1. /\ UNCHANGED <<cmd, rows, summary, verdicts, installed>> /\ pc = "deps"
        /\ UNCHANGED <<pc, exit>> \/ Exit("error")
    BY <1>2, Zenon DEF DependencyFails
  <2>2. CASE UNCHANGED <<pc, exit>>
    BY <2>1, <2>2, FrameEInv DEF EInv, GateShape
  <2>3. CASE Exit("error")
    BY <2>1, <2>3, EndsUntold DEF Exit
  <2> QED BY <2>1, <2>2, <2>3
<1> QED BY <1>1, <1>2

\* The file's row takes over what its summary told.
LEMMA ClosingKeepsEInv == ASSUME EInv, CloseDependencies PROVE EInv'
<1> DEFINE r == [file |-> Head(todo), decision |-> Lower[summary]]
<1>1. /\ UNCHANGED <<cmd, summary, verdicts, installed, exit>> /\ pc = "deps" /\ pc' = "files"
      /\ rows' = Append(rows, r)
  BY Zenon DEF CloseDependencies
<1>2. r.decision = Lower[summary] /\ Lower[summary] \in DecisionsMade
  BY DEF EInv, GateShape, Lower, DecisionsMade
<1> HIDE DEF r
<1>3. IsSeq(rows)
  BY DEF EInv, GateShape
<1>4. /\ IsSeq(rows') /\ DOMAIN rows = 1..Len(rows) /\ DOMAIN rows' = 1..(Len(rows) + 1)
      /\ \A i \in 1..Len(rows) : rows'[i] = rows[i]
      /\ rows'[Len(rows) + 1] = r /\ Len(rows) \in Nat
  BY <1>1, <1>3, AppendToSeq DEF IsSeq
<1>5. \A i \in DOMAIN rows' : rows'[i].decision \in DecisionsMade
  BY <1>2, <1>4 DEF EInv, GateShape
<1>6. GateShape'
  BY <1>1, <1>4, <1>5 DEF EInv, GateShape
<1>7. NothingForgotten'
  BY <1>1, <1>2, <1>4 DEF EInv, NothingForgotten, Told, Judged
<1>8. ExitMatchesVerdicts'
  BY <1>1, StillRunning DEF EInv, GateShape
<1> QED BY <1>1, <1>6, <1>7, <1>8 DEF EInv

\* What the report looks at: the rows of a project scan, the verdicts of the
\* other commands.
Weighed ==
    IF cmd.op = "scan" THEN {rows[i].decision : i \in DOMAIN rows}
                       ELSE {v.decision : v \in verdicts}

LEMMA WeighedIsJudged ==
    ASSUME EInv, pc = "files", cmd.op \in Gates, NEW t \in Thresholds
    PROVE  /\ Weighed \in SUBSET DecisionsMade
           /\ (\E d \in Weighed : Reaches(d, t)) <=> Judged(t)
<1>1. Weighed \in SUBSET DecisionsMade
  BY DEF EInv, GateShape, Weighed
<1>2. CASE t = "none"
  BY <1>1, <1>2 DEF Reaches, Judged
<1>3. CASE t \in {"warn", "block"} /\ cmd.op = "scan"
  BY <1>1, <1>3 DEF EInv, NothingForgotten, Told, Weighed
<1>4. CASE cmd.op # "scan"
  BY <1>1, <1>4 DEF Weighed, Judged
<1> QED BY <1>1, <1>2, <1>3, <1>4 DEF Thresholds

\* Nothing reported, or nothing judged, is nothing that reaches a threshold.
LEMMA ReportKeepsEInv == ASSUME EInv, Report PROVE EInv'
<1>1. /\ UNCHANGED <<cmd, rows, summary, verdicts, installed>> /\ pc = "files" /\ pc' = "done"
  BY Zenon DEF Report, fileVars, Exit
<1>2. \/ /\ exit' = "ok"
         /\ (cmd.op = "scan" /\ rows = <<>>) \/ (cmd.op = "scan-deps" /\ verdicts = {})
      \/ exit' = ExitIfScanFails(WorstDecision(Weighed), cmd)
  BY Zenon DEF Report, Exit, Weighed
<1>3. GateShape'
  BY <1>1 DEF EInv, GateShape
<1>4. NothingForgotten'
  BY <1>1 DEF NothingForgotten
<1>5. ASSUME cmd.op \in Gates, ValidFailOn(cmd), exit' \in {"ok", "failed"}
      PROVE  (exit' = "failed") <=> \E v \in verdicts : Reaches(v.decision, Threshold(cmd))
  <2>1. Threshold(cmd) \in Thresholds
    BY <1>5, ThresholdIsOne
  <2>2. /\ Weighed \in SUBSET DecisionsMade
        /\ (\E d \in Weighed : Reaches(d, Threshold(cmd))) <=> Judged(Threshold(cmd))
    BY <1>1, <1>5, <2>1, WeighedIsJudged
  <2>3. CASE exit' = ExitIfScanFails(WorstDecision(Weighed), cmd)
    <3>1. (exit' = "failed") <=> Reaches(WorstDecision(Weighed), Threshold(cmd))
      BY <1>5, <2>3 DEF ExitIfScanFails
    <3> QED BY <2>1, <2>2, <3>1, WorstIsReached DEF Judged
  <2>4. CASE /\ exit' = "ok"
             /\ (cmd.op = "scan" /\ rows = <<>>) \/ (cmd.op = "scan-deps" /\ verdicts = {})
    <3>1. DOMAIN << >> = {}
      OBVIOUS
    <3>2. Weighed = {}
      BY <2>4, <3>1 DEF Weighed
    <3> QED BY <2>2, <2>4, <3>2 DEF Judged
  <2> QED BY <1>2, <2>3, <2>4
<1>6. ~installed'
  BY <1>1 DEF EInv, GateShape
<1>7. ExitMatchesVerdicts'
  BY <1>1, <1>5, <1>6 DEF ExitMatchesVerdicts, ValidFailOn, Threshold
<1> QED BY <1>1, <1>3, <1>4, <1>7 DEF EInv

\* tree, verify and inventory-diff are no gates.
LEMMA LookingKeepsEInv ==
    ASSUME EInv, ShowTree \/ VerifyLockfile \/ DiffInventory \/ DiffFails PROVE EInv'
<1>1. /\ UNCHANGED <<cmd, rows, summary, installed>> /\ pc \in {"files", "inventory"}
      /\ pc' = "done"
      /\ pc = "inventory" \/ cmd.op \in {"tree", "verify"}
  BY Zenon DEF ShowTree, VerifyLockfile, DiffInventory, DiffFails, AtFile, Exit, fileVars
<1>2. cmd.op \notin Gates
  BY <1>1 DEF EInv, GateShape, Gates
<1> QED BY <1>1, <1>2, EndsUntold

\* The commands for one package.  npm-install runs npm for no block.
LEMMA PackageKeepsEInv == ASSUME EInv, OnePackage PROVE EInv'
<1>1. /\ UNCHANGED <<cmd, rows, summary>> /\ pc = "package" /\ pc' = "done"
      /\ verdicts = {} /\ ~installed
  BY Zenon DEF OnePackage, ScanPackage, NPMInstall, Explain, PackageFails, ExplainPanics, AtPackage,
               Exit, fileVars, EInv, GateShape
<1>2. CASE ScanPackage
  <2>1. PICK d \in DecisionsMade : /\ verdicts' = verdicts \cup {[subject |-> Package, decision |-> d]}
                                   /\ exit' = ExitIfScanFails(d, cmd) /\ UNCHANGED installed
    BY <1>2, Zenon DEF ScanPackage, Verdict, Exit, DecisionsMade
  <2> DEFINE v == [subject |-> Package, decision |-> d]
  <2>2. v.decision = d /\ verdicts' = {v}
    BY <1>1, <2>1
  <2> HIDE DEF v
  <2>3. GateShape'
    BY <1>1, <2>1, <2>2 DEF EInv, GateShape
  <2>4. NothingForgotten'
    BY <1>1 DEF NothingForgotten
  <2>5. ExitMatchesVerdicts'
    BY <1>1, <2>1, <2>2 DEF ExitMatchesVerdicts, ExitIfScanFails, ValidFailOn, Threshold
  <2> QED BY <1>1, <2>3, <2>4, <2>5 DEF EInv
<1>3. CASE NPMInstall
  <2>1. PICK d \in DecisionsMade : /\ verdicts' = verdicts \cup {[subject |-> Package, decision |-> d]}
                                   /\ installed' = (cmd.pol.mode # "audit" /\ d # "block")
    BY <1>3, Zenon DEF NPMInstall, Verdict, DecisionsMade
  <2> DEFINE v == [subject |-> Package, decision |-> d]
  <2>2. v.decision = d /\ verdicts' = {v}
    BY <1>1, <2>1
  <2> HIDE DEF v
  <2>3. installed' => d # "block"
    BY <2>1
  <2>4. cmd.op \notin Gates
    BY <1>3 DEF NPMInstall, AtPackage, Gates
  <2>5. GateShape'
    BY <1>1, <2>2, <2>4 DEF EInv, GateShape
  <2>6. NothingForgotten'
    BY <1>1 DEF NothingForgotten
  <2>7. ExitMatchesVerdicts'
    BY <1>1, <2>2, <2>3, <2>4 DEF ExitMatchesVerdicts
  <2> QED BY <1>1, <2>5, <2>6, <2>7 DEF EInv
<1>4. CASE Explain \/ PackageFails \/ ExplainPanics
  <2>1. UNCHANGED installed
    BY <1>4, Zenon DEF Explain, PackageFails, ExplainPanics
  <2>2. UNCHANGED verdicts \/ cmd.op \notin Gates
    BY <1>4, Zenon DEF Explain, PackageFails, ExplainPanics, AtPackage, Gates
  <2>3. exit' \notin {"ok", "failed"} \/ cmd.op = "explain"
    BY <1>4, Zenon DEF Explain, PackageFails, ExplainPanics, AtPackage, Exit
  <2> QED BY <1>1, <2>1, <2>2, <2>3, EndsUntold DEF Gates
<1> QED BY <1>2, <1>3, <1>4 DEF OnePackage

LEMMA EInvHolds == Spec => []EInv
<1>1. EInv /\ [Next]_vars => EInv'
  <2> SUFFICES ASSUME EInv, [Next]_vars PROVE EInv'
    OBVIOUS
  <2>1. CASE Start
    <3>1. /\ UNCHANGED <<cmd, rows, summary, verdicts, installed, exit>> /\ pc = "start"
          /\ pc' = Begin(cmd)
      BY <2>1, Zenon DEF Start
    <3>2. /\ pc' \in {"detect", "package", "inventory", "files"}
          /\ pc' = "inventory" => cmd.op = "inventory-diff"
          /\ pc' = "files" => cmd.op \notin {"package", "npm-install"}
      BY <3>1 DEF Begin
    <3> QED BY <3>1, <3>2, FrameEInv
  <2>2. CASE Synchronise
    <3>1. UNCHANGED <<cmd, pc, rows, summary, verdicts, installed, exit>> /\ pc # "done"
      BY <2>2, Zenon DEF Synchronise, fileVars
    <3> QED BY <3>1, FrameEInv DEF EInv, GateShape
  <2>3. CASE Probing
    <3>1. /\ UNCHANGED <<cmd, rows, summary, verdicts, installed, exit>>
          /\ \/ pc \in {"detect", "probing"} /\ pc' \in {"package", "probing"}
             \/ UNCHANGED pc
      BY <2>3, Zenon DEF Probing, Detect, TimerFires, Settle, ProbeAnswers, ProbeFails, Receive,
                         Settled, fileVars
    <3>2. CASE pc = "done"
      BY <3>1, <3>2 DEF EInv, GateShape, NothingForgotten, ExitMatchesVerdicts, ValidFailOn,
                        Threshold
    <3>3. CASE pc # "done"
      BY <3>1, <3>3, FrameEInv DEF EInv, GateShape
    <3> QED BY <3>2, <3>3
  <2>4. CASE Done \/ UNCHANGED vars
    <3>1. UNCHANGED <<cmd, pc, rows, summary, verdicts, installed, exit>>
      BY <2>4, Zenon DEF Done, vars, fileVars
    <3> QED BY <3>1 DEF EInv, GateShape, NothingForgotten, Told, Judged, ExitMatchesVerdicts,
                        ValidFailOn, Threshold
  <2> QED BY <2>1, <2>2, <2>3, <2>4, ReadingKeepsEInv, OpeningKeepsEInv, ScanningKeepsEInv,
             ClosingKeepsEInv, ReportKeepsEInv, LookingKeepsEInv, PackageKeepsEInv
          DEF Next, Files
<1> QED BY InitEInv, <1>1, PTL DEF Spec

\* The exit status of a gate command tells the worst of everything it judged,
\* for every project and threshold, through both aggregations of the code; and
\* npm-install runs npm for nothing it found to be a block.
THEOREM ExitTheorem == Spec => []ExitMatchesVerdicts
<1>1. EInv => ExitMatchesVerdicts
  BY DEF EInv
<1> QED BY EInvHolds, <1>1, PTL

-----------------------------------------------------------------------------
(* Malware the database knows.                                             *)

\* A finding of known malware is enforced whatever the policy makes of it.
LEMMA MalwareIsForced ==
    ASSUME NEW pkg, NEW findings, NEW pol, SoundPolicy(pol),
           NEW f \in findings, f.id = "known_malware_indicator"
    PROVE  Evaluate(pkg, findings, pol).decision = "block"
<1>1. RuleEnabled(pol, f.id)
  BY DEF SoundPolicy, RequiredSecurityBlockRuleIDs
<1>2. Forces(pol, f)
  BY DEF Forces, EnforcementClassFor, SecurityBlockRuleIDs
<1> QED BY <1>1, <1>2 DEF Evaluate, EvaluateRepeated, Decide

\* The version kept for a name is the only one listed, where there is only one,
\* whichever order the Go map is ranged over in.
LEMMA OnlyVersionIsKept ==
    ASSUME NEW file, NEW e \in LockEntries(file), e.version # NoVersion,
           OnlyVersion(file, e.name, e.version), NEW pins \in PinChoices(file)
    PROVE  pins[e.name] = e.version
<1>1. e.name \in PinnedNames(file)
  BY DEF PinnedNames, Pinned
<1>2. pins[e.name] \in LastVersions(file, e.name)
  BY <1>1 DEF PinChoices
<1>3. \A x \in Pinned(file) : x.name = e.name => x.version = e.version
  <2>1. CASE file.form = "package-lock"
    BY <2>1 DEF OnlyVersion, Pinned, LockEntries, Visible, Outermost
  <2>2. CASE file.form # "package-lock"
    BY <2>2 DEF OnlyVersion, Pinned, LockEntries
  <2> QED BY <2>1, <2>2
<1>4. LastVersions(file, e.name)
        \subseteq {x.version : x \in {y \in Pinned(file) : y.name = e.name}}
  BY DEF LastVersions
<1> QED BY <1>2, <1>3, <1>4

\* What is installed under its own name and in a plain key is listed so.
LEMMA InstalledIsListed ==
    ASSUME NEW file, NEW e \in Installed(file), e.plain
    PROVE  \E l \in LockEntries(file) : l.name = e.name /\ l.version = e.version
<1>1. CASE file.form = "package-lock"
  <2>1. PICK p \in Visible(file.lock) :
           e = [name |-> p.installs, version |-> p.version, plain |-> p.installs = p.name]
    BY <1>1 DEF Installed
  <2>2. p \in LockEntries(file) /\ p.name = e.name /\ p.version = e.version
    BY <1>1, <2>1 DEF LockEntries
  <2> QED BY <2>2
<1>2. CASE file.form # "package-lock"
  <2>1. file.form # "berry"
    BY <1>2 DEF Installed
  <2>2. PICK i \in DOMAIN file.entries :
           e = [name |-> file.entries[i].name, version |-> file.entries[i].version,
                plain |-> ~file.entries[i].suffixed]
    BY <1>2, <2>1 DEF Installed, ToSet
  <2>3. ReadKey(file.entries[i]) = file.entries[i]
    BY <2>2 DEF ReadKey
  <2> DEFINE l == file.entries[i]
  <2>4. l \in LockEntries(file)
    BY <1>2, <2>1, <2>2, <2>3 DEF LockEntries, ParseLock, ToSet
  <2>5. l.name = e.name /\ l.version = e.version
    BY <2>2
  <2> QED BY <2>4, <2>5
<1> QED BY <1>1, <1>2

\* AnalyzeLockfile blocks a lockfile with malware that the database knew before
\* the command started, if it could be asked about the name.
LEMMA LockMalwareBlocks ==
    ASSUME Known \subseteq db, NEW pol, SoundPolicy(pol),
           NEW file, NEW pins \in PinChoices(file), NEW found \in SUBSET DOMAIN pins,
           NEW e \in LockEntries(file), KnownMalware(e.name, e.version),
           OnlyVersion(file, e.name, e.version), e.name \in found
    PROVE  AnalyzeLockfile(file, pins, found, db, pol).decision = "block"
<1>1. PICK a \in Known : /\ a.reason.id = "known_malware_indicator"
                         /\ a.name = e.name /\ e.version \in a.versions
  BY DEF KnownMalware
<1>2. pins[a.name] \in a.versions
  BY <1>1, AdvisoriesNameVersions, OnlyVersionIsKept
<1> DEFINE f == Reason(a.reason.id, <<a.name, pins[a.name]>>)
<1>3. f \in LockFindings(file, pins, found, db, pol)
  <2>1. a \in {b \in db : b.name \in found /\ pins[b.name] \in b.versions}
    BY <1>1, <1>2
  <2>2. f \in AdvisoryFindings(pins, found, db)
    BY <2>1 DEF AdvisoryFindings
  <2> HIDE DEF f
  <2> QED BY <2>2 DEF LockFindings
<1>4. f.id = "known_malware_indicator"
  BY <1>1 DEF Reason
<1> HIDE DEF f
<1> QED BY <1>3, <1>4, MalwareIsForced DEF AnalyzeLockfile

\* A set of numbers up to some bound has a greatest one.
LEMMA MaxIsOne ==
    ASSUME NEW n \in Nat, NEW S \in SUBSET (0..n), S # {}
    PROVE  Max(S) \in S
<1> DEFINE R == OpToRel(<, Nat)
           T == {n - x : x \in S}
<1>1. \A x, y \in Nat : x < y => <<x, y>> \in R
  BY DEF OpToRel
<1>2. IsWellFoundedOn(R, Nat)
  BY NatLessThanWellFounded
<1>3. T \subseteq Nat /\ T # {}
  <2>1. \A x \in S : n - x \in Nat
    OBVIOUS
  <2> QED BY <2>1
<1> HIDE DEF R, T
<1>4. PICK m \in T : \A y \in T : ~(<<y, m>> \in R)
  BY <1>2, <1>3, WFMin
<1>5. \A y \in T : m <= y
  <2>1. m \in Nat /\ \A y \in T : y \in Nat /\ ~(y < m)
    BY <1>1, <1>3, <1>4
  <2> QED BY <2>1
<1>6. PICK x \in S : m = n - x
  BY DEF T
<1>7. \A y \in S : x >= y
  BY <1>5, <1>6 DEF T
<1> QED BY <1>6, <1>7 DEF Max

\* A package listed at some depth is not deeper than its chain is long.
LEMMA DepthIsBounded ==
    ASSUME NEW packages, NEW c, Len(c) \in Nat \ {0}
    PROVE  Depth(packages, c) \in Int /\ Depth(packages, c) <= Len(c)
<1>1. Gaps(packages, c) \in SUBSET (0..Len(c)) /\ Gaps(packages, c) # {}
  BY DEF Gaps
<1>2. Max(Gaps(packages, c)) \in 0..Len(c)
  BY <1>1, MaxIsOne
<1> QED BY <1>2 DEF Depth

\* The advisories on a package, if its name was found.
Affecting(found, p) == {a.reason : a \in {b \in db : /\ b.name \in found \cap {p.name}
                                                    /\ p.version \in b.versions}}

\* tree shows malware at any depth it is asked for, for nothing prunes it.
LEMMA MalwareIsShown ==
    ASSUME Known \subseteq db, NEW packages, NEW pol, NEW found,
           NEW onlyRisky, NEW limit \in Nat,
           NEW p \in packages, p.within \in Seq(STRING), p.name \in STRING,
           KnownMalware(p.name, p.version), p.name \in found, Len(p.within) < limit,
           NEW decision,
           decision[p] = NodeDecision(p, pol, Lookalikes, Affecting(found, p))
    PROVE  p \in Shown(packages, decision, onlyRisky, limit) /\ decision[p] = "block"
<1>1. decision[p] = "block"
  <2>1. PICK a \in Known : /\ a.reason.id = "known_malware_indicator"
                           /\ a.name = p.name /\ p.version \in a.versions
    BY DEF KnownMalware
  <2>2. a \in {b \in db : b.name \in found \cap {p.name} /\ p.version \in b.versions}
    BY <2>1
  <2> QED BY <2>1, <2>2 DEF NodeDecision, Severe, Affecting
<1> DEFINE c == Chain(p)
<1>2. c \in Seq(STRING) /\ Len(c) = Len(p.within) + 1 /\ Len(p.within) \in Nat
  BY AppendProperties, LenProperties DEF Chain
<1>3. c \in Chains(packages)
  BY DEF Chains
<1> HIDE DEF c
<1>4. Depth(packages, c) <= limit
  <2>1. Len(c) \in Nat \ {0} /\ Len(c) <= limit
    BY <1>2
  <2>2. Depth(packages, c) \in Int /\ Depth(packages, c) <= Len(c)
    BY <2>1, DepthIsBounded
  <2> QED BY <2>1, <2>2
<1>5. c \in Below(packages, c)
  <2>1. SubSeq(c, 1, Len(c)) = c /\ Len(c) \in Nat
    BY <1>2, SubSeqFull
  <2>2. IsPrefix(c, c)
    BY <2>1 DEF IsPrefix
  <2>3. \A n \in Len(c)..Len(c) : n = Len(c)
    <3>1. \A k \in Nat : \A n \in k..k : n = k
      OBVIOUS
    <3> QED BY <2>1, <3>1, Zenon
  <2>4. \A n \in Len(c)..Len(c) : SubSeq(c, 1, n) \in Chains(packages)
    BY <1>3, <2>1, <2>3
  <2> QED BY <1>3, <2>2, <2>4 DEF Below
<1> QED BY <1>1, <1>4, <1>5 DEF Shown, c

\* A lockfile row is a block if its lockfile lists malware the database knew,
\* and was asked about.
TellsMalware(r) ==
    LET file == cmd.project[r.file]
    IN  file.form \in LockForms =>
          \A e \in Installed(file) :
             /\ KnownMalware(e.name, e.version) /\ e.plain /\ OnlyVersion(file, e.name, e.version)
             /\ <<r.file, e.name>> \notin missed
             => r.decision = "block"

RowsTellMalware ==
    cmd.op \in {"scan", "scan-lockfile"} => \A i \in DOMAIN rows : TellsMalware(rows[i])

\* Where a command is: no other file is open, and one that reads a single file
\* has either read it or still has it to read.
MalwareShape ==
    /\ Known \subseteq db
    /\ pc = "deps" => cmd.project[Head(todo)].form \notin LockForms
    /\ pc = "start" => rows = <<>>
    /\ pc \in {"inventory", "detect", "probing", "package"} =>
          cmd.op \notin {"scan", "scan-lockfile", "tree"}
    /\ cmd.op = "scan-lockfile" => rows = <<>> \/ todo = <<>>
    /\ cmd.op = "scan-lockfile" /\ pc # "start" => todo \in {<<>>, <<cmd.target>>}
    /\ cmd.op = "tree" /\ pc # "start" => todo = <<cmd.target>>

MInv == EInv /\ MalwareShape /\ RowsTellMalware /\ MalwareStopsScan

LEMMA OneTail == ASSUME NEW x PROVE Tail(<<x>>) = <<>> /\ Head(<<x>>) = x
  OBVIOUS

\* The files of a command are read, and none of them reported: no row changes,
\* and more may be missed.
LEMMA FrameMInv ==
    ASSUME MInv, EInv', UNCHANGED <<cmd, db, rows>>, missed \subseteq missed', pc # "done",
           pc' = "done" => /\ exit' = "error" \/ cmd.op \notin {"scan-lockfile", "tree"}
                           /\ cmd.op # "scan",
           pc' = "deps" => /\ cmd.project[Head(todo')].form \notin LockForms
                           /\ cmd.op \in {"scan", "scan-deps"},
           pc' = "start" => pc = "start",
           pc' \in {"inventory", "detect", "probing", "package"} =>
               cmd.op \notin {"scan", "scan-lockfile", "tree"},
           cmd.op \in {"scan-lockfile", "tree"} => UNCHANGED todo,
           cmd.op = "scan-lockfile" /\ pc' = "done" => todo # <<>>,
           pc = "start" => pc' = "start"
    PROVE  MInv'
<1>1. MalwareShape'
  BY DEF MInv, MalwareShape, EInv, GateShape
<1>2. RowsTellMalware'
  BY DEF MInv, RowsTellMalware, TellsMalware
<1>3. pc' = "done" /\ cmd.op \in {"scan", "scan-lockfile"} => rows' = <<>>
  BY DEF MInv, MalwareShape
<1>4. DOMAIN << >> = {}
  OBVIOUS
<1>5. MalwareStopsScan'
  BY <1>3, <1>4 DEF MalwareStopsScan
<1> QED BY <1>1, <1>2, <1>5 DEF MInv

\* What the command tells has not changed.
LEMMA StillMInv ==
    ASSUME MInv, EInv', UNCHANGED <<cmd, pc, db, rows, missed, todo, verdicts, exit>>
    PROVE  MInv'
<1>1. MalwareShape'
  BY Zenon DEF MInv, MalwareShape
<1>2. RowsTellMalware'
  BY Zenon DEF MInv, RowsTellMalware, TellsMalware
<1>3. MalwareStopsScan'
  BY DEF MInv, MalwareStopsScan
<1> QED BY <1>1, <1>2, <1>3 DEF MInv

\* A file is reported.
LEMMA RowKeepsMInv ==
    ASSUME MInv, EInv', UNCHANGED <<cmd, db>>, missed \subseteq missed', cmd.op # "tree",
           pc \in {"files", "deps"}, pc' = "files",
           cmd.op = "scan-lockfile" => todo' = <<>>,
           NEW r, rows' = Append(rows, r), TellsMalware(r)'
    PROVE  MInv'
<1>1. IsSeq(rows)
  BY DEF MInv, EInv, GateShape
<1>2. /\ DOMAIN rows = 1..Len(rows) /\ DOMAIN rows' = 1..(Len(rows) + 1)
      /\ \A i \in 1..Len(rows) : rows'[i] = rows[i]
      /\ rows'[Len(rows) + 1] = r /\ Len(rows) \in Nat
  BY <1>1, AppendToSeq DEF IsSeq
<1>3. MalwareShape'
  BY DEF MInv, MalwareShape
<1>4. \A x : TellsMalware(x) => TellsMalware(x)'
  BY DEF TellsMalware
<1>5. RowsTellMalware'
  BY <1>2, <1>4 DEF MInv, RowsTellMalware
<1>6. MalwareStopsScan'
  BY DEF MalwareStopsScan
<1> QED BY <1>3, <1>5, <1>6 DEF MInv

\* The row of a lockfile tells of the malware in it.
LEMMA LockfileKeepsMInv == ASSUME MInv, EInv', ReadLockfile PROVE MInv'
<1> DEFINE file == cmd.project[Head(todo)]
<1>1. PICK pins \in PinChoices(file) : \E found \in SUBSET DOMAIN pins :
        \E result \in {AnalyzeLockfile(file, pins, found, db, cmd.pol)} :
           /\ rows' = Append(rows, [file |-> Head(todo), decision |-> result.decision])
           /\ missed' = missed \cup {<<Head(todo), n>> : n \in DOMAIN pins \ found}
  BY Zenon DEF ReadLockfile
<1>2. PICK found \in SUBSET DOMAIN pins :
        \E result \in {AnalyzeLockfile(file, pins, found, db, cmd.pol)} :
           /\ rows' = Append(rows, [file |-> Head(todo), decision |-> result.decision])
           /\ missed' = missed \cup {<<Head(todo), n>> : n \in DOMAIN pins \ found}
  BY <1>1, Zenon
<1> DEFINE d == AnalyzeLockfile(file, pins, found, db, cmd.pol).decision
<1>3. PICK r : rows' = Append(rows, r) /\ r.file = Head(todo) /\ r.decision = d
  BY <1>2
<1>4. /\ UNCHANGED <<cmd, db, pc>> /\ pc = "files" /\ todo' = Tail(todo) /\ todo # <<>>
      /\ cmd.op \in {"scan", "scan-lockfile"}
  BY Zenon DEF ReadLockfile, AtFile
<1>5. cmd.op = "scan-lockfile" => todo' = <<>>
  BY <1>4, OneTail DEF MInv, MalwareShape
<1>6. SoundPolicy(cmd.pol) /\ Known \subseteq db
  BY CommandPoliciesAreValid DEF MInv, EInv, MalwareShape
<1>7. ASSUME NEW x \in Installed(file), KnownMalware(x.name, x.version), x.plain,
             OnlyVersion(file, x.name, x.version), <<Head(todo), x.name>> \notin missed'
      PROVE  d = "block"
  <2> PICK e \in LockEntries(file) : e.name = x.name /\ e.version = x.version
    BY <1>7, InstalledIsListed
  <2>1. e.version # NoVersion
    BY <1>7, AdvisoriesNameVersions DEF KnownMalware
  <2>2. e.name \in DOMAIN pins
    <3>1. e.name \in PinnedNames(file)
      BY <2>1 DEF PinnedNames, Pinned
    <3> QED BY <3>1 DEF PinChoices
  <2>3. e.name \in found
    BY <1>2, <1>7, <2>2
  <2> QED BY <1>6, <1>7, <2>3, LockMalwareBlocks
<1> HIDE DEF d
<1>8. TellsMalware(r)'
  BY <1>3, <1>4, <1>7 DEF TellsMalware, KnownMalware, OnlyVersion
<1>9. missed \subseteq missed'
  BY <1>2
<1> QED BY <1>3, <1>4, <1>5, <1>8, <1>9, RowKeepsMInv

\* package.json and the files of dependencies are no lockfiles.
LEMMA OtherFilesKeepMInv ==
    ASSUME MInv, EInv', ReadPackageJSON \/ CloseDependencies PROVE MInv'
<1>1. /\ UNCHANGED <<cmd, db, missed>> /\ pc \in {"files", "deps"} /\ pc' = "files"
      /\ cmd.project[Head(todo)].form \notin LockForms
      /\ cmd.op \in {"scan", "scan-deps"}
  <2>1. CASE ReadPackageJSON
    BY <2>1 DEF ReadPackageJSON, AtFile, LockForms
  <2>2. CASE CloseDependencies
    BY <2>2 DEF CloseDependencies, MInv, MalwareShape, EInv, GateShape
  <2> QED BY <2>1, <2>2
<1>2. PICK d : rows' = Append(rows, [file |-> Head(todo), decision |-> d])
  BY Zenon DEF ReadPackageJSON, CloseDependencies
<1>3. PICK r : r.file = Head(todo) /\ rows' = Append(rows, r)
  BY <1>2
<1>4. TellsMalware(r)'
  BY <1>1, <1>3 DEF TellsMalware
<1> QED BY <1>1, <1>3, <1>4, RowKeepsMInv

LEMMA ReadingKeepsMInv ==
    ASSUME MInv, EInv', SkipFile \/ OpenDependencies \/ ScanDependency \/ DependencyFails
    PROVE  MInv'
<1>1. CASE SkipFile
  <2>1. /\ UNCHANGED <<cmd, db, rows>> /\ pc = "files" /\ todo # <<>> /\ missed \subseteq missed'
        /\ \/ cmd.op = "scan" /\ UNCHANGED pc
           \/ cmd.op # "scan" /\ pc' = "done" /\ exit' = "error" /\ UNCHANGED todo
    BY <1>1 DEF SkipFile, Exit
  <2> QED BY <2>1, FrameMInv
<1>2. CASE OpenDependencies
  <2>1. /\ UNCHANGED <<cmd, db, rows, missed, todo>> /\ pc = "files" /\ pc' = "deps"
        /\ cmd.project[Head(todo)].form \notin LockForms
        /\ cmd.op \in {"scan", "scan-deps"}
    BY <1>2 DEF OpenDependencies, AtFile, LockForms
  <2> QED BY <2>1, FrameMInv
<1>3. CASE ScanDependency \/ DependencyFails
  <2>1. /\ UNCHANGED <<cmd, db, rows, todo>> /\ pc = "deps" /\ missed \subseteq missed'
        /\ UNCHANGED pc \/ (pc' = "done" /\ exit' = "error" /\ cmd.op # "scan")
    BY <1>3 DEF ScanDependency, DependencyFails, Exit
  <2>2. cmd.op \in {"scan", "scan-deps"} /\ cmd.project[Head(todo)].form \notin LockForms
    BY <2>1 DEF MInv, MalwareShape, EInv, GateShape
  <2> QED BY <2>1, <2>2, FrameMInv
<1> QED BY <1>1, <1>2, <1>3

\* A block among the rows fails the command, unless nothing is to fail.
LEMMA ReportKeepsMInv == ASSUME MInv, EInv', Report PROVE MInv'
<1>1. /\ UNCHANGED <<cmd, db, rows, missed, todo, verdicts>>
      /\ pc = "files" /\ todo = <<>> /\ pc' = "done"
  BY Zenon DEF Report, fileVars, Exit
<1>2. cmd.op # "tree"
  <2>1. \A x : <<x>> # << >>
    OBVIOUS
  <2> QED BY <1>1, <2>1 DEF MInv, MalwareShape
<1>3. MalwareShape'
  BY <1>1, <1>2 DEF MInv, MalwareShape
<1>4. RowsTellMalware'
  BY <1>1 DEF MInv, RowsTellMalware, TellsMalware
<1>5. ASSUME NEW i \in DOMAIN rows, rows[i].decision = "block",
             cmd.op \in {"scan", "scan-lockfile"}, Threshold(cmd) # "none"
      PROVE  exit' \in {"failed", "usage"}
  <2>1. DOMAIN << >> = {} /\ rows # <<>>
    OBVIOUS
  <2>2. exit' = ExitIfScanFails(WorstDecision(Weighed), cmd)
    BY <1>5, <2>1, Zenon DEF Report, Exit, Weighed
  <2>3. CASE ~ValidFailOn(cmd)
    BY <2>2, <2>3 DEF ExitIfScanFails
  <2>4. CASE ValidFailOn(cmd)
    <3>1. Threshold(cmd) \in {"warn", "block"} /\ Threshold(cmd) \in Thresholds
      BY <1>5, <2>4, ThresholdIsOne DEF Thresholds
    <3>2. Reaches("block", Threshold(cmd))
      BY <3>1 DEF Reaches
    <3>3. Told(Threshold(cmd))
      BY <1>5, <3>2 DEF Told
    <3>4. Judged(Threshold(cmd))
      BY <1>1, <1>5, <3>1, <3>3 DEF MInv, EInv, NothingForgotten, Gates
    <3>5. /\ Weighed \in SUBSET DecisionsMade
          /\ \E d \in Weighed : Reaches(d, Threshold(cmd))
      BY <1>1, <1>5, <3>1, <3>4, WeighedIsJudged DEF MInv, Gates
    <3>6. Reaches(WorstDecision(Weighed), Threshold(cmd))
      BY <3>1, <3>5, WorstIsReached
    <3> QED BY <2>2, <3>6 DEF ExitIfScanFails
  <2> QED BY <2>3, <2>4
<1>6. MalwareStopsScan'
  <2>1. ASSUME NEW i \in DOMAIN rows, cmd.op \in {"scan", "scan-lockfile"},
               Threshold(cmd) # "none", cmd.project[rows[i].file].form \in LockForms,
               NEW e \in Installed(cmd.project[rows[i].file]),
               KnownMalware(e.name, e.version), e.plain,
               OnlyVersion(cmd.project[rows[i].file], e.name, e.version),
               <<rows[i].file, e.name>> \notin missed
        PROVE  exit' \in {"failed", "usage"}
    <3>1. rows[i].decision = "block"
      BY <2>1 DEF MInv, RowsTellMalware, TellsMalware
    <3> QED BY <1>5, <2>1, <3>1
  <2>2. /\ Threshold(cmd)' = Threshold(cmd)
        /\ \A n, v : KnownMalware(n, v)' = KnownMalware(n, v)
        /\ \A file, n, v : OnlyVersion(file, n, v)' = OnlyVersion(file, n, v)
    BY <1>1, Zenon DEF Threshold, KnownMalware, OnlyVersion
  <2>3. UNCHANGED <<cmd, rows, missed>>
    BY <1>1
  <2> QED BY <1>2, <2>1, <2>2, <2>3, Zenon DEF MalwareStopsScan
<1> QED BY <1>3, <1>4, <1>6 DEF MInv

\* What tree prints.
LEMMA TreeKeepsMInv == ASSUME MInv, EInv', ShowTree PROVE MInv'
<1>1. /\ UNCHANGED <<cmd, db, rows, todo>> /\ pc = "files" /\ pc' = "done"
      /\ cmd.op = "tree" /\ cmd.project[Head(todo)].form = "package-lock"
      /\ Readable(cmd.project[Head(todo)])
  BY Zenon DEF ShowTree, AtFile, Exit
<1>2. PICK found \in SUBSET {p.name : p \in Visible(cmd.project[Head(todo)].lock)} :
      \E packages \in {Visible(cmd.project[Head(todo)].lock)} :
      \E d \in {[p \in packages |->
                   NodeDecision(p, cmd.pol, Lookalikes,
                                {a.reason : a \in {b \in db : /\ b.name \in found \cap {p.name}
                                                             /\ p.version \in b.versions}})]} :
          /\ verdicts' = {[subject |-> <<Head(todo)>> \o Chain(p), decision |-> d[p]] :
                            p \in Shown(packages, d, cmd.onlyRisky, cmd.depth)}
          /\ missed' = {<<Head(todo), p.name>> : p \in {q \in packages : q.name \notin found}}
  BY DEF ShowTree
<1>3. PICK packages \in {Visible(cmd.project[Head(todo)].lock)} :
      \E d \in {[p \in packages |->
                   NodeDecision(p, cmd.pol, Lookalikes,
                                {a.reason : a \in {b \in db : /\ b.name \in found \cap {p.name}
                                                             /\ p.version \in b.versions}})]} :
          /\ verdicts' = {[subject |-> <<Head(todo)>> \o Chain(p), decision |-> d[p]] :
                            p \in Shown(packages, d, cmd.onlyRisky, cmd.depth)}
          /\ missed' = {<<Head(todo), p.name>> : p \in {q \in packages : q.name \notin found}}
  BY <1>2
<1>4. PICK d \in {[p \in packages |->
                   NodeDecision(p, cmd.pol, Lookalikes,
                                {a.reason : a \in {b \in db : /\ b.name \in found \cap {p.name}
                                                             /\ p.version \in b.versions}})]} :
          /\ verdicts' = {[subject |-> <<Head(todo)>> \o Chain(p), decision |-> d[p]] :
                            p \in Shown(packages, d, cmd.onlyRisky, cmd.depth)}
          /\ missed' = {<<Head(todo), p.name>> : p \in {q \in packages : q.name \notin found}}
  BY <1>3
<1>5. todo = <<cmd.target>> /\ Head(todo) = cmd.target /\ cmd \in Commands /\ Known \subseteq db
  BY <1>1, OneTail DEF MInv, MalwareShape, EInv
<1>6. packages = Visible(cmd.project[cmd.target].lock)
  BY <1>5
<1>7. ASSUME NEW p \in packages, KnownMalware(p.installs, p.version), p.installs = p.name,
             <<cmd.target, p.name>> \notin missed', Len(p.within) < cmd.depth
      PROVE  [subject |-> <<cmd.target>> \o Chain(p), decision |-> "block"] \in verdicts'
  <2>1. p \in cmd.project[cmd.target].lock.packages
    BY <1>6 DEF Visible, Outermost
  <2>2. cmd.depth \in Nat /\ p.name \in STRING /\ p.within \in Seq(STRING)
    BY <1>1, <1>5, <2>1, TreesAreNested
  <2>3. p.name \in found
    BY <1>4, <1>5, <1>7
  <2>4. d[p] = NodeDecision(p, cmd.pol, Lookalikes, Affecting(found, p))
    BY Zenon DEF Affecting
  <2>5. p \in Shown(packages, d, cmd.onlyRisky, cmd.depth) /\ d[p] = "block"
    <3>1. Known \subseteq db /\ KnownMalware(p.name, p.version) /\ Len(p.within) < cmd.depth
      BY <1>5, <1>7
    <3>2. ASSUME NEW pol, NEW onlyRisky, NEW limit \in Nat, Len(p.within) < limit,
                 d[p] = NodeDecision(p, pol, Lookalikes, Affecting(found, p))
          PROVE  p \in Shown(packages, d, onlyRisky, limit) /\ d[p] = "block"
      BY <2>2, <2>3, <3>1, <3>2, MalwareIsShown
    <3> QED BY <2>2, <2>4, <3>1, <3>2
  <2>6. [subject |-> <<Head(todo)>> \o Chain(p), decision |-> d[p]] \in verdicts'
    BY <1>4, <2>5
  <2> QED BY <1>5, <2>5, <2>6, Zenon
<1>8. MalwareShape'
  BY <1>1 DEF MInv, MalwareShape
<1>9. RowsTellMalware'
  BY <1>1 DEF RowsTellMalware
<1>10. MalwareStopsScan'
  BY <1>1, <1>6, <1>7 DEF MalwareStopsScan, KnownMalware
<1> QED BY <1>8, <1>9, <1>10 DEF MInv

\* Malware the database knew before the command started stops every scan of a
\* lockfile that lists it, and is a block in the tree at any depth asked for,
\* whatever is synchronised meanwhile and in whatever order the Go maps of the
\* code are ranged over.
THEOREM MalwareTheorem == Spec => []MalwareStopsScan
<1>1. Init => MInv
  <2> SUFFICES ASSUME Init PROVE MInv
    OBVIOUS
  <2>1. /\ pc = "start" /\ rows = <<>> /\ db = Known /\ cmd \in Commands
    BY Zenon DEF Init
  <2>2. DOMAIN << >> = {}
    OBVIOUS
  <2> QED BY <2>1, <2>2, InitEInv DEF MInv, MalwareShape, RowsTellMalware, MalwareStopsScan
<1>2. MInv /\ EInv' /\ [Next]_vars => MInv'
  <2> SUFFICES ASSUME MInv, EInv', [Next]_vars PROVE MInv'
    OBVIOUS
  <2>1. CASE Start
    <3>1. /\ UNCHANGED <<cmd, db, rows, missed>> /\ pc = "start" /\ pc' = Begin(cmd)
          /\ todo' = FilesOf(cmd)
      BY <2>1, Zenon DEF Start
    <3>2. rows = <<>> /\ DOMAIN << >> = {}
      BY <3>1 DEF MInv, MalwareShape
    <3>3. /\ pc' \in {"detect", "package", "inventory", "files"}
          /\ pc' \in {"detect", "package", "inventory"} =>
                cmd.op \notin {"scan", "scan-lockfile", "tree"}
          /\ cmd.op \in {"scan-lockfile", "tree"} => todo' = <<cmd.target>>
      BY <3>1 DEF Begin, FilesOf
    <3>4. MalwareShape'
      BY <3>1, <3>2, <3>3 DEF MInv, MalwareShape
    <3> QED BY <3>1, <3>2, <3>3, <3>4 DEF MInv, RowsTellMalware, MalwareStopsScan
  <2>2. CASE Synchronise
    <3>1. /\ UNCHANGED <<cmd, pc, rows, missed, todo>> /\ pc # "done" /\ db \subseteq db'
      BY <2>2 DEF Synchronise, fileVars
    <3> QED BY <3>1 DEF MInv, MalwareShape, RowsTellMalware, TellsMalware, MalwareStopsScan
  <2>3. CASE VerifyLockfile
    <3>1. /\ UNCHANGED <<cmd, db, rows, missed, todo>> /\ cmd.op = "verify" /\ pc = "files"
          /\ pc' = "done"
      BY <2>3, Zenon DEF VerifyLockfile, AtFile, fileVars, Exit
    <3> QED BY <3>1, FrameMInv
  <2>4. CASE DiffInventory \/ DiffFails \/ OnePackage
    <3>1. /\ UNCHANGED <<cmd, db, rows, missed, todo>> /\ pc \in {"inventory", "package"}
          /\ pc' = "done"
      BY <2>4, Zenon DEF DiffInventory, DiffFails, OnePackage, ScanPackage, NPMInstall, Explain,
                         PackageFails, ExplainPanics, AtPackage, fileVars, Exit
    <3>2. cmd.op \notin {"scan", "scan-lockfile", "tree"}
      BY <3>1 DEF MInv, MalwareShape
    <3> QED BY <3>1, <3>2, FrameMInv
  <2>5. CASE Probing
    <3>1. /\ UNCHANGED <<cmd, db, rows, missed, todo, verdicts, exit>>
          /\ \/ pc \in {"detect", "probing"} /\ pc' \in {"package", "probing"}
             \/ UNCHANGED pc
      BY <2>5, Zenon DEF Probing, Detect, TimerFires, Settle, ProbeAnswers, ProbeFails, Receive,
                         Settled, fileVars
    <3>2. CASE UNCHANGED pc
      BY <3>1, <3>2, StillMInv
    <3>3. CASE pc \in {"detect", "probing"} /\ pc' \in {"package", "probing"}
      <4>1. cmd.op \notin {"scan", "scan-lockfile", "tree"}
        BY <3>3 DEF MInv, MalwareShape
      <4> QED BY <3>1, <3>3, <4>1, FrameMInv
    <3> QED BY <3>1, <3>2, <3>3
  <2>6. CASE Done \/ UNCHANGED vars
    <3>1. UNCHANGED <<cmd, pc, db, rows, missed, todo, verdicts, exit>>
      BY <2>6, Zenon DEF Done, vars, fileVars
    <3> QED BY <3>1, StillMInv
  <2> QED BY <2>1, <2>2, <2>3, <2>4, <2>5, <2>6, LockfileKeepsMInv, OtherFilesKeepMInv,
             ReadingKeepsMInv, ReportKeepsMInv, TreeKeepsMInv DEF Next, Files
<1>3. MInv => MalwareStopsScan
  BY DEF MInv
<1> QED BY <1>1, <1>2, <1>3, EInvHolds, PTL DEF Spec

-----------------------------------------------------------------------------
(* The difference of two inventories.                                      *)

\* Whichever rows are kept, every key has one of its contenders.
LEMMA MapKeepsContenders ==
  ASSUME NEW all, NEW m \in MapsOf(all)
  PROVE  /\ DOMAIN m = KeysOf(all)
         /\ \A k \in KeysOf(all) : m[k] \in Contenders(all, k)
<1> DEFINE last == {r \in all : r \in Contenders(all, Key(r))}
<1>1. PICK kept \in {S \in SUBSET last : \A k \in KeysOf(all) : \E r \in S : Key(r) = k} :
         m = [k \in KeysOf(all) |-> CHOOSE r \in kept : Key(r) = k]
  BY Zenon DEF MapsOf
<1>2. ASSUME NEW k \in KeysOf(all) PROVE m[k] \in Contenders(all, k)
  <2>1. PICK r \in kept : r = (CHOOSE q \in kept : Key(q) = k) /\ Key(r) = k
    BY <1>1, <1>2, Zenon
  <2>2. m[k] = r
    BY <1>1, <2>1, Zenon
  <2>3. r \in last
    BY <1>1, <2>1
  <2> QED BY <2>1, <2>2, <2>3, Zenon
<1> QED BY <1>1, <1>2, Zenon

\* The sections of a package.json, as a set.
FourSections == {"production", "dev", "peer", "optional"}

\* Sections lists these.
LEMMA SectionsAreFour == ToSet(Sections) = FourSections
<1>1. /\ DOMAIN Sections = 1..4
      /\ Sections[1] = "production" /\ Sections[2] = "dev"
      /\ Sections[3] = "peer" /\ Sections[4] = "optional"
  BY DEF Sections
<1>2. 1..4 = {1, 2, 3, 4}
  OBVIOUS
<1> HIDE DEF Sections
<1> QED BY <1>1, <1>2 DEF ToSet, FourSections

\* The rows of a package.json.
FromSection(r, path, m, s) ==
    /\ s \in FourSections /\ r.name \in DOMAIN m.deps[s]
    /\ r.version = m.deps[s][r.name]
    /\ r.type = IF r.name \in m.bundled THEN "bundled" ELSE s
    /\ r.direct = TRUE /\ r.order = SectionIndex[s]

OnlyBundled(r, path, m) ==
    /\ r.name \in m.bundled /\ r.version = Blank /\ r.type = "bundled"
    /\ r.direct = TRUE /\ r.order = 5

\* A named row of a package.json is from one of its sections, or bundled only.
LEMMA ManifestRowIs ==
  ASSUME NEW path, NEW m, NEW r \in ManifestRows(path, m), r.name # Blank
  PROVE  /\ r.source = "manifest" /\ r.file = path
         /\ (\E s : FromSection(r, path, m, s)) \/ OnlyBundled(r, path, m)
<1>1. CASE r = Row("manifest", path, Blank, Blank, "package.json", TRUE, 0)
  BY <1>1 DEF Row
<1>2. ASSUME NEW s \in FourSections, NEW n \in DOMAIN m.deps[s],
             r = Row("manifest", path, n, m.deps[s][n],
                     IF n \in m.bundled THEN "bundled" ELSE s, TRUE, SectionIndex[s])
      PROVE  r.source = "manifest" /\ r.file = path /\ FromSection(r, path, m, s)
  <2>1. PICK v, t, i : /\ v = m.deps[s][n] /\ i = SectionIndex[s]
                       /\ t = IF n \in m.bundled THEN "bundled" ELSE s
    OBVIOUS
  <2>2. r = Row("manifest", path, n, v, t, TRUE, i)
    BY <1>2, <2>1
  <2>3. /\ r.source = "manifest" /\ r.file = path /\ r.name = n
        /\ r.version = v /\ r.type = t /\ r.direct = TRUE /\ r.order = i
    BY <2>2 DEF Row
  <2> QED BY <1>2, <2>1, <2>3 DEF FromSection
<1>3. ASSUME NEW n \in m.bundled, r = Row("manifest", path, n, Blank, "bundled", TRUE, 5)
      PROVE  r.source = "manifest" /\ r.file = path /\ OnlyBundled(r, path, m)
  BY <1>3 DEF Row, OnlyBundled
<1>4. \/ r = Row("manifest", path, Blank, Blank, "package.json", TRUE, 0)
      \/ \E s \in ToSet(Sections) : \E n \in DOMAIN m.deps[s] :
            r = Row("manifest", path, n, m.deps[s][n],
                    IF n \in m.bundled THEN "bundled" ELSE s, TRUE, SectionIndex[s])
      \/ \E n \in m.bundled : r = Row("manifest", path, n, Blank, "bundled", TRUE, 5)
  <2> DEFINE named(s) == {Row("manifest", path, n, m.deps[s][n],
                              IF n \in m.bundled THEN "bundled" ELSE s, TRUE, SectionIndex[s]) :
                            n \in DOMAIN m.deps[s]}
  <2> DEFINE bundledOnly == {Row("manifest", path, n, Blank, "bundled", TRUE, 5) :
                    n \in {b \in m.bundled : \A s \in ToSet(Sections) : ~Declares(m, s, b)}}
  <2>1. \/ r = Row("manifest", path, Blank, Blank, "package.json", TRUE, 0)
        \/ r \in bundledOnly
        \/ r \in UNION {named(s) : s \in ToSet(Sections)}
    BY Zenon DEF ManifestRows
  <2>2. CASE r \in UNION {named(s) : s \in ToSet(Sections)}
    <3> HIDE DEF named
    <3>1. PICK s \in ToSet(Sections) : r \in named(s)
      BY <2>2
    <3> QED BY <3>1, Zenon DEF named
  <2>3. CASE r \in bundledOnly
    BY <2>3
  <2> HIDE DEF named, bundledOnly
  <2> QED BY <2>1, <2>2, <2>3, Zenon
<1> QED BY <1>1, <1>2, <1>3, <1>4, SectionsAreFour, Zenon

\* Of two rows for a name in a package.json neither comes later only if both
\* are of the same section.
LEMMA ManifestRowsAgree ==
  ASSUME NEW path, NEW m, NEW p \in ManifestRows(path, m), NEW q \in ManifestRows(path, m),
         p.name # Blank, p.name = q.name, p.order = q.order
  PROVE  SameDependency(p, q)
<1>1. ((\E s : FromSection(p, path, m, s)) \/ OnlyBundled(p, path, m))
  BY ManifestRowIs
<1>2. ((\E s : FromSection(q, path, m, s)) \/ OnlyBundled(q, path, m))
  BY ManifestRowIs
<1>3. \A s \in FourSections : SectionIndex[s] # 5
  BY DEF SectionIndex, FourSections
<1>4. \A s, t \in FourSections : SectionIndex[s] = SectionIndex[t] => s = t
  BY DEF SectionIndex, FourSections
<1>5. CASE OnlyBundled(p, path, m) /\ OnlyBundled(q, path, m)
  BY <1>5 DEF OnlyBundled, SameDependency
<1>6. ASSUME NEW s, FromSection(p, path, m, s)
      PROVE  SameDependency(p, q)
  <2>1. s \in FourSections /\ p.order = SectionIndex[s] /\ p.order # 5
    BY <1>3, <1>6 DEF FromSection
  <2>2. PICK t : FromSection(q, path, m, t)
    BY <1>2, <2>1 DEF OnlyBundled
  <2>3. s = t
    BY <1>4, <2>1, <2>2 DEF FromSection
  <2> QED BY <1>6, <2>2, <2>3 DEF FromSection, SameDependency
<1>7. ASSUME NEW t, FromSection(q, path, m, t), OnlyBundled(p, path, m)
      PROVE  FALSE
  BY <1>3, <1>7 DEF FromSection, OnlyBundled
<1> QED BY <1>1, <1>2, <1>5, <1>6, <1>7, Zenon

\* The rows of a lockfile.
FromPackage(r, path, lock, manifestRows, p) ==
    LET types == LockTypes(lock, p, DeclaredTypes(manifestRows, p.name))
    IN  /\ p \in lock.packages /\ r.name = p.name /\ r.version = p.version
        /\ r.type = (IF types = {} THEN "transitive" ELSE Strongest(types))
        /\ r.direct = (types # {})

\* A named row of a lockfile is one of its packages.
LEMMA LockRowIs ==
  ASSUME NEW path, NEW lock, NEW mrows, NEW r \in LockRows(path, lock, mrows), r.name # Blank
  PROVE  /\ r.source = "lock" /\ r.file = path /\ r.order = 0
         /\ \E p : FromPackage(r, path, lock, mrows, p)
<1>1. CASE r = Row("lock", path, Blank, Blank, "package-lock.json", TRUE, 0)
  BY <1>1 DEF Row
<1>2. ASSUME NEW p \in lock.packages,
             r = LET types == LockTypes(lock, p, DeclaredTypes(mrows, p.name))
                 IN  Row("lock", path, p.name, p.version,
                         IF types = {} THEN "transitive" ELSE Strongest(types), types # {}, 0)
      PROVE  /\ r.source = "lock" /\ r.file = path /\ r.order = 0
             /\ FromPackage(r, path, lock, mrows, p)
  <2>1. PICK types, t, d : /\ types = LockTypes(lock, p, DeclaredTypes(mrows, p.name))
                           /\ t = (IF types = {} THEN "transitive" ELSE Strongest(types))
                           /\ d = (types # {})
    OBVIOUS
  <2>2. r = Row("lock", path, p.name, p.version, t, d, 0)
    BY <1>2, <2>1
  <2>3. /\ r.source = "lock" /\ r.file = path /\ r.name = p.name /\ r.version = p.version
        /\ r.type = t /\ r.direct = d /\ r.order = 0
    BY <2>2 DEF Row
  <2> QED BY <1>2, <2>1, <2>3 DEF FromPackage
<1>3. \/ r = Row("lock", path, Blank, Blank, "package-lock.json", TRUE, 0)
      \/ \E p \in lock.packages :
            r = LET types == LockTypes(lock, p, DeclaredTypes(mrows, p.name))
                IN  Row("lock", path, p.name, p.version,
                        IF types = {} THEN "transitive" ELSE Strongest(types), types # {}, 0)
  BY Zenon DEF LockRows
<1> QED BY <1>1, <1>2, <1>3, Zenon

\* What a package is taken for depends on its name, and in the first format on
\* whether it is nested.
LEMMA LockTypesAgree ==
  ASSUME NEW lock, NEW p, NEW q, NEW declared, p.name = q.name,
         lock.format = 1 => (p.within = <<>> <=> q.within = <<>>)
  PROVE  LockTypes(lock, p, declared) = LockTypes(lock, q, declared)
  BY Zenon DEF LockTypes

\* Where a lockfile lists every name once, the rows of a name tell the same.
LEMMA LockRowsAgree ==
  ASSUME NEW path, NEW lock, NEW mrows,
         NEW r \in LockRows(path, lock, mrows), NEW s \in LockRows(path, lock, mrows),
         r.name # Blank, r.name = s.name,
         \A p, q \in lock.packages : p.name = q.name =>
            /\ p.version = q.version
            /\ lock.format = 1 => (p.within = <<>> <=> q.within = <<>>)
  PROVE  SameDependency(r, s)
<1>1. PICK p : FromPackage(r, path, lock, mrows, p)
  BY LockRowIs
<1>2. PICK q : FromPackage(s, path, lock, mrows, q)
  BY LockRowIs
<1>3. /\ p \in lock.packages /\ q \in lock.packages /\ p.name = q.name
      /\ r.version = p.version /\ s.version = q.version
  BY <1>1, <1>2 DEF FromPackage
<1>4. /\ p.version = q.version
      /\ LockTypes(lock, p, DeclaredTypes(mrows, p.name))
           = LockTypes(lock, q, DeclaredTypes(mrows, q.name))
  BY <1>3, LockTypesAgree
<1>5. r.type = s.type /\ r.direct = s.direct
  BY <1>1, <1>2, <1>4, Zenon DEF FromPackage
<1> QED BY <1>3, <1>4, <1>5 DEF SameDependency

ManifestRowsOf(t) == UNION {ManifestRows(f, t.manifests[f]) : f \in DOMAIN t.manifests}

\* The rows of source files.
LEMMA CodeRowIs ==
  ASSUME NEW t, NEW r \in CodeRows(t)
  PROVE  /\ r.file \in SourceFiles(t) /\ r.version = Blank /\ r.direct = TRUE
         /\ \/ r.order = 0 /\ r.type = "unresolved-dynamic-import"
            \/ r.order = 1 /\ r.type = "source-import"
<1>1. ASSUME NEW i \in t.dynamic,
             r = Row("code", i[1], i[2], Blank, "unresolved-dynamic-import", TRUE, 0)
      PROVE  /\ r.file \in SourceFiles(t) /\ r.version = Blank /\ r.direct = TRUE
             /\ r.order = 0 /\ r.type = "unresolved-dynamic-import"
  BY <1>1 DEF Row, SourceFiles
<1>2. ASSUME NEW i \in t.static,
             r = Row("code", i[1], i[2], Blank, "source-import", TRUE, 1)
      PROVE  /\ r.file \in SourceFiles(t) /\ r.version = Blank /\ r.direct = TRUE
             /\ r.order = 1 /\ r.type = "source-import"
  BY <1>2 DEF Row, SourceFiles
<1> QED BY <1>1, <1>2, Zenon DEF CodeRows

\* A row comes from the file it names.
LEMMA RowsComeFromFiles ==
  ASSUME NEW t, NEW r \in Inventory(t), r.name # Blank
  PROVE  \/ r.file \in DOMAIN t.manifests /\ r \in ManifestRows(r.file, t.manifests[r.file])
         \/ r.file \in DOMAIN t.locks /\ r \in LockRows(r.file, t.locks[r.file], ManifestRowsOf(t))
         \/ r.file \in SourceFiles(t) /\ r \in CodeRows(t)
<1> DEFINE locked(f) == LockRows(f, t.locks[f], ManifestRowsOf(t))
<1> DEFINE declared(f) == ManifestRows(f, t.manifests[f])
<1>1. \/ r \in UNION {declared(f) : f \in DOMAIN t.manifests}
      \/ r \in CodeRows(t)
      \/ r \in UNION {locked(f) : f \in DOMAIN t.locks}
  BY Zenon DEF Inventory, ManifestRowsOf
<1>2. CASE r \in UNION {declared(f) : f \in DOMAIN t.manifests}
  <2> HIDE DEF declared
  <2>1. PICK f \in DOMAIN t.manifests : r \in declared(f)
    BY <1>2
  <2>2. r \in ManifestRows(f, t.manifests[f])
    BY <2>1, Zenon DEF declared
  <2> QED BY <2>2, ManifestRowIs
<1>3. CASE r \in CodeRows(t)
  BY <1>3, CodeRowIs
<1>4. CASE r \in UNION {locked(f) : f \in DOMAIN t.locks}
  <2> HIDE DEF locked
  <2>1. PICK f \in DOMAIN t.locks : r \in locked(f)
    BY <1>4
  <2>2. r \in LockRows(f, t.locks[f], ManifestRowsOf(t))
    BY <2>1, Zenon DEF locked
  <2> QED BY <2>2, LockRowIs
<1> HIDE DEF declared, locked
<1> QED BY <1>1, <1>2, <1>3, <1>4

\* Two rows under a key of which neither comes later tell the same.
LEMMA LastRowsAgree ==
  ASSUME NEW t, OneKind(t, t), OneEntryEach(t), NEW p \in Inventory(t), NEW q \in Inventory(t),
         p.name # Blank, p.name = q.name, p.file = q.file, p.order = q.order
  PROVE  SameDependency(p, q)
<1>1. /\ DOMAIN t.manifests \cap DOMAIN t.locks = {}
      /\ (DOMAIN t.manifests \cup DOMAIN t.locks) \cap SourceFiles(t) = {}
  BY DEF OneKind, SourceFiles
<1>2. CASE p.file \in DOMAIN t.manifests
  <2>1. /\ p \in ManifestRows(p.file, t.manifests[p.file])
        /\ q \in ManifestRows(p.file, t.manifests[p.file])
    BY <1>1, <1>2, RowsComeFromFiles
  <2> QED BY <2>1, ManifestRowsAgree
<1>3. CASE p.file \in DOMAIN t.locks
  <2>1. /\ p \in LockRows(p.file, t.locks[p.file], ManifestRowsOf(t))
        /\ q \in LockRows(p.file, t.locks[p.file], ManifestRowsOf(t))
    BY <1>1, <1>3, RowsComeFromFiles
  <2>2. \A a, b \in t.locks[p.file].packages : a.name = b.name =>
           /\ a.version = b.version
           /\ t.locks[p.file].format = 1 => (a.within = <<>> <=> b.within = <<>>)
    BY <1>3 DEF OneEntryEach
  <2> QED BY <2>1, <2>2, LockRowsAgree
<1>4. CASE p.file \in SourceFiles(t)
  <2>1. p \in CodeRows(t) /\ q \in CodeRows(t)
    BY <1>1, <1>4, RowsComeFromFiles
  <2>2. /\ p.version = Blank /\ p.direct = TRUE
        /\ \/ p.order = 0 /\ p.type = "unresolved-dynamic-import"
           \/ p.order = 1 /\ p.type = "source-import"
    BY <2>1, CodeRowIs
  <2>3. /\ q.version = Blank /\ q.direct = TRUE
        /\ \/ q.order = 0 /\ q.type = "unresolved-dynamic-import"
           \/ q.order = 1 /\ q.type = "source-import"
    BY <2>1, CodeRowIs
  <2>4. p.type = q.type
    BY <2>2, <2>3
  <2> QED BY <2>2, <2>3, <2>4, Zenon DEF SameDependency
<1> QED BY <1>2, <1>3, <1>4, RowsComeFromFiles

\* Contenders are rows under the key.
LEMMA ContendersAre ==
  ASSUME NEW all, NEW k, NEW r \in Contenders(all, k)
  PROVE  r \in all /\ Key(r) = k /\ \A q \in all : Key(q) = k => q.order <= r.order
  BY Zenon DEF Contenders

\* A key is a file and a name.
LEMMA KeysAre ==
  ASSUME NEW p, NEW q, Key(p) = Key(q)
  PROVE  p.file = q.file /\ p.name = q.name
  BY DEF Key

\* The orders of named rows can be compared.
LEMMA OrdersAreNumbers ==
  ASSUME NEW t, NEW r \in Inventory(t), r.name # Blank
  PROVE  r.order \in Nat
<1>1. \A s \in FourSections : SectionIndex[s] \in Nat
  BY DEF SectionIndex, FourSections
<1>2. ASSUME NEW f, NEW m, r \in ManifestRows(f, m) PROVE r.order \in Nat
  <2>1. (\E s : FromSection(r, f, m, s)) \/ OnlyBundled(r, f, m)
    BY <1>2, ManifestRowIs
  <2> QED BY <1>1, <2>1 DEF FromSection, OnlyBundled
<1>3. ASSUME NEW f, NEW lock, NEW mrows, r \in LockRows(f, lock, mrows) PROVE r.order \in Nat
  <2>1. r.order = 0
    BY <1>3, LockRowIs
  <2> QED BY <2>1
<1>4. ASSUME r \in CodeRows(t) PROVE r.order \in Nat
  <2>1. r.order = 0 \/ r.order = 1
    BY <1>4, CodeRowIs
  <2> QED BY <2>1
<1> QED BY <1>2, <1>3, <1>4, RowsComeFromFiles, Zenon

\* Nothing changes between equal trees.
LEMMA SameTreeNoChange ==
  ASSUME NEW t, OneKind(t, t), OneEntryEach(t),
         NEW base \in MapsOf(Inventory(t)), NEW current \in MapsOf(Inventory(t))
  PROVE  DiffInventories(base, current) = {}
<1>1. /\ DOMAIN base = KeysOf(Inventory(t)) /\ DOMAIN current = KeysOf(Inventory(t))
      /\ \A k \in KeysOf(Inventory(t)) : /\ base[k] \in Contenders(Inventory(t), k)
                                        /\ current[k] \in Contenders(Inventory(t), k)
  BY MapKeepsContenders
<1>2. ASSUME NEW k \in KeysOf(Inventory(t)) PROVE SameDependency(base[k], current[k])
  <2>1. PICK p, q : p = base[k] /\ q = current[k]
    OBVIOUS
  <2>2. p \in Contenders(Inventory(t), k) /\ q \in Contenders(Inventory(t), k)
    BY <1>1, <2>1
  <2>3. /\ p \in Inventory(t) /\ q \in Inventory(t) /\ Key(p) = k /\ Key(q) = k
        /\ p.order <= q.order /\ q.order <= p.order
    BY <2>2, ContendersAre
  <2>4. PICK r \in Inventory(t) : r.name # Blank /\ Key(r) = k
    BY DEF KeysOf
  <2>5. p.file = q.file /\ p.name = q.name /\ p.name # Blank /\ q.name # Blank
    BY <2>3, <2>4, KeysAre
  <2>6. p.order = q.order
    BY <2>3, <2>5, OrdersAreNumbers
  <2> QED BY <2>1, <2>3, <2>5, <2>6, LastRowsAgree
<1> QED BY <1>1, <1>2 DEF DiffInventories

\* A name that is not bundled stands under its package.json exactly if a
\* section has it, as one of them tells.
LEMMA EntryOf ==
  ASSUME NEW t, NEW u, OneKind(u, t), NEW f \in DOMAIN u.manifests, NEW n, n # Blank,
         f \in DOMAIN t.manifests => n \notin t.manifests[f].bundled,
         NEW m \in MapsOf(Inventory(t))
  PROVE  /\ <<f, n>> \in DOMAIN m <=> Ranges(t, f, n) # {}
         /\ <<f, n>> \in DOMAIN m => <<m[<<f, n>>].type, m[<<f, n>>].version>> \in Ranges(t, f, n)
<1> DEFINE k == <<f, n>>
<1>1. /\ DOMAIN m = KeysOf(Inventory(t))
      /\ \A j \in KeysOf(Inventory(t)) : m[j] \in Contenders(Inventory(t), j)
  BY MapKeepsContenders
<1>2. ASSUME NEW r \in Inventory(t), Key(r) = k
      PROVE  <<r.type, r.version>> \in Ranges(t, f, n)
  <2>1. r.file = f /\ r.name = n
    BY <1>2 DEF Key
  <2>2. f \notin DOMAIN t.locks /\ f \notin SourceFiles(t)
    BY DEF OneKind, SourceFiles
  <2>3. f \in DOMAIN t.manifests /\ r \in ManifestRows(f, t.manifests[f])
    BY <2>1, <2>2, RowsComeFromFiles
  <2>4. PICK s : FromSection(r, f, t.manifests[f], s)
    <3>1. (\E s : FromSection(r, f, t.manifests[f], s)) \/ OnlyBundled(r, f, t.manifests[f])
      BY <2>1, <2>3, ManifestRowIs
    <3> QED BY <2>1, <2>3, <3>1 DEF OnlyBundled
  <2>5. /\ s \in ToSet(Sections) /\ Declares(t.manifests[f], s, n)
        /\ r.type = s /\ r.version = t.manifests[f].deps[s][n]
    BY <2>1, <2>3, <2>4, SectionsAreFour DEF FromSection, Declares
  <2> QED BY <2>3, <2>5 DEF Ranges
<1>3. ASSUME Ranges(t, f, n) # {} PROVE k \in KeysOf(Inventory(t))
  <2>1. f \in DOMAIN t.manifests
    BY <1>3 DEF Ranges
  <2>2. PICK s \in ToSet(Sections) : n \in DOMAIN t.manifests[f].deps[s]
    BY <1>3, <2>1 DEF Ranges, Declares
  <2> DEFINE mf == t.manifests[f]
  <2> DEFINE v == mf.deps[s][n]
  <2> DEFINE ty == IF n \in mf.bundled THEN "bundled" ELSE s
  <2> DEFINE r == Row("manifest", f, n, v, ty, TRUE, SectionIndex[s])
  <2>3. r \in ManifestRows(f, mf)
    <3> DEFINE named(z) == {Row("manifest", f, x, mf.deps[z][x],
                                IF x \in mf.bundled THEN "bundled" ELSE z, TRUE, SectionIndex[z]) :
                              x \in DOMAIN mf.deps[z]}
    <3>1. r \in named(s)
      BY <2>2, Zenon
    <3> HIDE DEF r, named
    <3>2. r \in UNION {named(z) : z \in ToSet(Sections)}
      BY <2>2, <3>1
    <3> QED BY <3>2, Zenon DEF ManifestRows, named
  <2> HIDE DEF v, ty
  <2>4. r.file = f /\ r.name = n
    BY DEF Row
  <2> HIDE DEF r
  <2>5. r \in ManifestRowsOf(t)
    BY <2>1, <2>3 DEF ManifestRowsOf
  <2>6. r \in Inventory(t)
    BY <2>5, Zenon DEF Inventory, ManifestRowsOf
  <2> QED BY <2>4, <2>6 DEF KeysOf, Key
<1>4. ASSUME k \in KeysOf(Inventory(t))
      PROVE  <<m[k].type, m[k].version>> \in Ranges(t, f, n)
  <2>1. m[k] \in Inventory(t) /\ Key(m[k]) = k
    BY <1>1, <1>4, ContendersAre
  <2> QED BY <1>2, <2>1
<1> QED BY <1>1, <1>3, <1>4

\* A name has finitely many entries in a package.json, one in a section at most.
LEMMA RangesAreFinite ==
  ASSUME NEW t, NEW f, NEW n
  PROVE  IsFiniteSet(Ranges(t, f, n))
<1>1. IsFiniteSet(FourSections)
  <2>1. FourSections = {"production"} \cup {"dev"} \cup {"peer"} \cup {"optional"}
    BY DEF FourSections
  <2>2. \A x \in FourSections : IsFiniteSet({x})
    BY FS_Singleton
  <2> QED BY <2>1, <2>2, FS_Singleton, FS_Union
<1>2. CASE f \notin DOMAIN t.manifests
  BY <1>2, FS_EmptySet DEF Ranges
<1>3. CASE f \in DOMAIN t.manifests
  <2> DEFINE own == {s \in ToSet(Sections) : Declares(t.manifests[f], s, n)}
  <2> DEFINE range(s) == <<s, t.manifests[f].deps[s][n]>>
  <2>1. IsFiniteSet(own)
    BY <1>1, SectionsAreFour, FS_Subset
  <2>2. Ranges(t, f, n) = {range(s) : s \in own}
    BY <1>3 DEF Ranges
  <2> DEFINE g == [s \in own |-> range(s)]
  <2>3. g \in Surjection(own, Ranges(t, f, n))
    BY <2>2 DEF Surjection
  <2> HIDE DEF own, g
  <2> QED BY <2>1, <2>3, FS_Surjection
<1> QED BY <1>2, <1>3

\* A set of at most one member is that of any of its members.
LEMMA OneRange ==
  ASSUME NEW S, IsFiniteSet(S), Cardinality(S) <= 1, NEW x \in S
  PROVE  S = {x}
<1>1. IsFiniteSet(S \ {x}) /\ Cardinality(S \ {x}) = Cardinality(S) - 1
  BY FS_RemoveElement
<1>2. Cardinality(S \ {x}) \in Nat /\ Cardinality(S) \in Nat
  BY <1>1, FS_CardinalityType
<1>3. Cardinality(S \ {x}) = 0
  BY <1>1, <1>2
<1>4. S \ {x} = {}
  BY <1>1, <1>3, FS_EmptySet
<1> QED BY <1>4

\* Two trees whose names tell the kinds of files apart, and a name that a file of
\* theirs does not bundle.
Alike(a, b) == \A t, u \in {a, b} : OneKind(t, u)
Unbundled(a, b, f, n) ==
    \A t \in {a, b} : f \in DOMAIN t.manifests => n \notin t.manifests[f].bundled

\* A name whose one entry in a package.json is another one is reported.
LEMMA EntryIsReported ==
  ASSUME NEW a, NEW b, Alike(a, b),
         NEW base \in MapsOf(Inventory(a)), NEW current \in MapsOf(Inventory(b)),
         NEW f \in DOMAIN a.manifests \cup DOMAIN b.manifests, NEW n, n # Blank,
         Unbundled(a, b, f, n),
         Ranges(a, f, n) # Ranges(b, f, n),
         Cardinality(Ranges(a, f, n)) <= 1, Cardinality(Ranges(b, f, n)) <= 1
  PROVE  \E v \in DiffInventories(base, current) : v.subject = <<f, n>>
<1> DEFINE k == <<f, n>>
<1>1. /\ k \in DOMAIN base <=> Ranges(a, f, n) # {}
      /\ k \in DOMAIN base => <<base[k].type, base[k].version>> \in Ranges(a, f, n)
  BY EntryOf DEF Alike, Unbundled
<1>2. /\ k \in DOMAIN current <=> Ranges(b, f, n) # {}
      /\ k \in DOMAIN current => <<current[k].type, current[k].version>> \in Ranges(b, f, n)
  BY EntryOf DEF Alike, Unbundled
<1>3. ASSUME k \in DOMAIN base, k \in DOMAIN current PROVE ~SameDependency(base[k], current[k])
  <2>1. Ranges(a, f, n) = {<<base[k].type, base[k].version>>}
    BY <1>1, <1>3, RangesAreFinite, OneRange
  <2>2. Ranges(b, f, n) = {<<current[k].type, current[k].version>>}
    BY <1>2, <1>3, RangesAreFinite, OneRange
  <2> QED BY <2>1, <2>2 DEF SameDependency
<1>4. k \in DOMAIN base \/ k \in DOMAIN current
  BY <1>1, <1>2
<1>5. \E change : [subject |-> k, decision |-> change] \in DiffInventories(base, current)
  <2> HIDE DEF k
  <2>1. CASE k \in DOMAIN current \ DOMAIN base
    BY <2>1 DEF DiffInventories
  <2>2. CASE k \in DOMAIN base \ DOMAIN current
    BY <2>2 DEF DiffInventories
  <2>3. CASE k \in DOMAIN base \cap DOMAIN current
    BY <1>3, <2>3 DEF DiffInventories
  <2> QED BY <1>4, <2>1, <2>2, <2>3
<1> QED BY <1>5

\* A part of a tree has the files asked for, as they are.
LEMMA PartIs ==
  ASSUME NEW t, NEW files
  PROVE  /\ DOMAIN Part(t, files).manifests = DOMAIN t.manifests \cap files
         /\ DOMAIN Part(t, files).locks = DOMAIN t.locks \cap files
         /\ \A f \in DOMAIN t.manifests \cap files : Part(t, files).manifests[f] = t.manifests[f]
         /\ \A f \in DOMAIN t.locks \cap files : Part(t, files).locks[f] = t.locks[f]
         /\ SourceFiles(Part(t, files)) \subseteq SourceFiles(t)
<1> DEFINE p == Part(t, files)
<1>1. /\ p.manifests = [f \in DOMAIN t.manifests \cap files |-> t.manifests[f]]
      /\ p.locks = [f \in DOMAIN t.locks \cap files |-> t.locks[f]]
      /\ p.static = {i \in t.static : i[1] \in files}
      /\ p.dynamic = {i \in t.dynamic : i[1] \in files}
  BY DEF Part, Restrict
<1> HIDE DEF p
<1>2. SourceFiles(p) \subseteq SourceFiles(t)
  BY <1>1 DEF SourceFiles
<1> QED BY <1>1, <1>2 DEF p

\* Its files are of the kinds they are of in the tree.
LEMMA PartsAreOfAKind ==
  ASSUME NEW t, NEW u, OneKind(t, u), NEW files, NEW others
  PROVE  OneKind(Part(t, files), Part(u, others))
<1> DEFINE p == Part(t, files)
           q == Part(u, others)
<1>1. /\ DOMAIN p.manifests \subseteq DOMAIN t.manifests
      /\ DOMAIN p.locks \subseteq DOMAIN t.locks
      /\ DOMAIN q.locks \subseteq DOMAIN u.locks
      /\ SourceFiles(q) \subseteq SourceFiles(u)
  BY PartIs
<1> HIDE DEF p, q
<1>2. OneKind(p, q)
  BY <1>1 DEF OneKind
<1> QED BY <1>2 DEF p, q

LEMMA PartHasOneEntryEach ==
  ASSUME NEW t, OneEntryEach(t), NEW files
  PROVE  OneEntryEach(Part(t, files))
<1> DEFINE p == Part(t, files)
<1>1. \A f \in DOMAIN p.locks : f \in DOMAIN t.locks /\ p.locks[f] = t.locks[f]
  BY PartIs
<1> HIDE DEF p
<1>2. OneEntryEach(p)
  BY <1>1 DEF OneEntryEach
<1> QED BY <1>2 DEF p

\* A package.json that is read, or is not there, has the ranges it has.
LEMMA PartHasRanges ==
  ASSUME NEW t, NEW files, NEW f, f \in DOMAIN t.manifests => f \in files, NEW n
  PROVE  Ranges(Part(t, files), f, n) = Ranges(t, f, n)
<1> DEFINE p == Part(t, files)
<1>1. /\ f \in DOMAIN p.manifests <=> f \in DOMAIN t.manifests
      /\ f \in DOMAIN p.manifests => p.manifests[f] = t.manifests[f]
  BY PartIs
<1> HIDE DEF p
<1>2. CASE f \in DOMAIN t.manifests
  <2>1. p.manifests[f] = t.manifests[f] /\ f \in DOMAIN p.manifests
    BY <1>1, <1>2
  <2> QED BY <1>2, <2>1, Zenon DEF Ranges, p
<1>3. CASE f \notin DOMAIN t.manifests
  BY <1>1, <1>3 DEF Ranges, p
<1> QED BY <1>2, <1>3

IsDifference ==
    \E base    \in MapsOf(Inventory(FromGit(cmd.base, cmd.top))),
       current \in MapsOf(Inventory(Walked(cmd.current))) :
        verdicts = DiffInventories(base, current)

\* inventory-diff answers with a difference of the two inventories, or fails.
DInv ==
    /\ cmd \in Commands
    /\ cmd.op = "inventory-diff" =>
          /\ pc \in {"start", "inventory", "done"}
          /\ pc = "done" /\ exit = "ok" => IsDifference

\* What other commands do is of no concern.
LEMMA OthersKeepDInv ==
  ASSUME DInv, UNCHANGED cmd, cmd.op # "inventory-diff"
  PROVE  DInv'
  BY DEF DInv

\* Only DiffInventory answers inventory-diff with verdicts, and it is the last step.
LEMMA NextDInv == DInv /\ [Next]_vars => DInv'
<1> SUFFICES ASSUME DInv, [Next]_vars, cmd.op = "inventory-diff" PROVE DInv'
  <2>1. [Next]_vars => UNCHANGED cmd
    <3>1. Files => UNCHANGED cmd
      BY Zenon DEF Files, ReadLockfile, ReadPackageJSON, SkipFile, OpenDependencies, ScanDependency,
                   DependencyFails, CloseDependencies, Report, ShowTree, VerifyLockfile,
                   DiffInventory, DiffFails
    <3>2. Probing => UNCHANGED cmd
      BY Zenon DEF Probing, Detect, TimerFires, Settle, ProbeAnswers, ProbeFails, Receive
    <3>3. OnePackage => UNCHANGED cmd
      BY Zenon DEF OnePackage, ScanPackage, NPMInstall, Explain, PackageFails, ExplainPanics
    <3>4. Start \/ Synchronise \/ Done \/ UNCHANGED vars => UNCHANGED cmd
      BY Zenon DEF Start, Synchronise, Done, vars
    <3> QED BY <3>1, <3>2, <3>3, <3>4, Zenon DEF Next
  <2> QED BY <2>1, OthersKeepDInv
<1>1. pc \in {"start", "inventory", "done"} /\ cmd \in Commands
  BY DEF DInv
<1>2. CASE Start
  <2>1. UNCHANGED cmd /\ pc' = "inventory"
    BY <1>2 DEF Start, Begin
  <2> QED BY <1>1, <2>1 DEF DInv
<1>3. CASE Synchronise
  <2>1. UNCHANGED <<cmd, pc>> /\ pc # "done"
    BY <1>3, Zenon DEF Synchronise
  <2> QED BY <1>1, <2>1 DEF DInv
<1>4. CASE DiffInventory
  <2>1. UNCHANGED cmd /\ pc' = "done" /\ IsDifference'
    BY <1>4, Zenon DEF DiffInventory, Exit, IsDifference
  <2> QED BY <1>1, <2>1 DEF DInv
<1>5. CASE DiffFails
  <2>1. UNCHANGED cmd /\ pc' = "done" /\ exit' = "error"
    BY <1>5, Zenon DEF DiffFails, Exit
  <2> QED BY <1>1, <2>1 DEF DInv
<1>6. CASE Done \/ UNCHANGED vars
  <2>1. UNCHANGED <<cmd, pc, exit, verdicts>>
    BY <1>6, Zenon DEF Done, vars
  <2> QED BY <1>1, <2>1 DEF DInv, IsDifference
<1>7. ~(ReadLockfile \/ ReadPackageJSON \/ SkipFile \/ OpenDependencies \/ ScanDependency
        \/ DependencyFails \/ CloseDependencies \/ Report \/ ShowTree \/ VerifyLockfile)
  BY <1>1, Zenon DEF AtFile, ReadLockfile, ReadPackageJSON, SkipFile, OpenDependencies,
                     ScanDependency, DependencyFails, CloseDependencies, Report, ShowTree,
                     VerifyLockfile
<1>8. ~OnePackage
  BY <1>1, Zenon DEF OnePackage, AtPackage, ScanPackage, NPMInstall, Explain, PackageFails,
                     ExplainPanics
<1>9. CASE \E e \in Ecosystems : ProbeAnswers(e) \/ ProbeFails(e)
  <2>1. UNCHANGED <<cmd, pc, exit, verdicts>>
    BY <1>9, Zenon DEF ProbeAnswers, ProbeFails
  <2> QED BY <1>1, <2>1 DEF DInv, IsDifference
<1>10. ~(Detect \/ TimerFires \/ Settle \/ \E e \in Ecosystems : Receive(e))
  BY <1>1, Zenon DEF Detect, TimerFires, Settle, Receive
<1> QED BY <1>2, <1>3, <1>4, <1>5, <1>6, <1>7, <1>8, <1>9, <1>10, Zenon DEF Next, Files, Probing

\* inventory-diff, called at the root of the repository, tells what has changed:
\* nothing between equal trees that walk and git both read in full and whose
\* lockfiles list every name once, whatever section or file a name stands in, and
\* every name whose one entry in a package.json that both read is another one.
THEOREM DiffTheorem == Spec => []DiffTellsChanges
<1>1. Init => DInv
  <2>1. Init => cmd \in Commands /\ pc = "start"
    BY Zenon DEF Init
  <2> QED BY <2>1 DEF DInv
<1>2. DInv => DiffTellsChanges
  <2> SUFFICES ASSUME DInv, pc = "done", cmd.op = "inventory-diff", exit = "ok",
                      cmd.top = cmd.base
               PROVE  DiffTellsChanges
    BY Zenon DEF DiffTellsChanges
  <2> DEFINE fromGit == Paths(cmd.base) \ cmd.base.quoted
             walked  == Paths(cmd.current) \ cmd.current.hidden
             a == Part(cmd.base, fromGit)
             b == Part(cmd.current, walked)
  <2>1. PICK base \in MapsOf(Inventory(a)), current \in MapsOf(Inventory(b)) :
           verdicts = DiffInventories(base, current)
    BY DEF DInv, IsDifference, FromGit, Walked
  <2>2. \A t, u \in {cmd.base, cmd.current} : OneKind(t, u)
    BY NamesTellKinds DEF DInv
  <2>3. Alike(a, b)
    BY <2>2, PartsAreOfAKind DEF Alike
  <2>4. ASSUME cmd.base = cmd.current, Unread(cmd.base) = {}, OneEntryEach(cmd.base)
        PROVE  verdicts = {}
    <3>1. fromGit = walked
      BY <2>4 DEF Unread
    <3>2. a = b
      BY <2>4, <3>1, Zenon
    <3>3. OneEntryEach(a) /\ OneKind(a, a)
      BY <2>3, <2>4, PartHasOneEntryEach DEF Alike
    <3> HIDE DEF a, b
    <3> QED BY <2>1, <3>2, <3>3, SameTreeNoChange
  <2>5. ASSUME NEW f \in (DOMAIN cmd.base.manifests \cup DOMAIN cmd.current.manifests)
                          \ (Unread(cmd.base) \cup Unread(cmd.current)),
               NEW n \in NamesIn(Inventory(cmd.base) \cup Inventory(cmd.current), "manifest"),
               Ranges(cmd.base, f, n) # Ranges(cmd.current, f, n),
               Cardinality(Ranges(cmd.base, f, n)) <= 1,
               Cardinality(Ranges(cmd.current, f, n)) <= 1,
               \A t \in {cmd.base, cmd.current} :
                  f \in DOMAIN t.manifests => n \notin t.manifests[f].bundled
        PROVE  Reported(f, n)
    <3>1. n # Blank
      BY DEF NamesIn
    <3>2. /\ f \in DOMAIN cmd.base.manifests => f \in fromGit
          /\ f \in DOMAIN cmd.current.manifests => f \in walked
      BY DEF Paths, Unread
    <3> HIDE DEF fromGit, walked
    <3>3. /\ Ranges(a, f, n) = Ranges(cmd.base, f, n)
          /\ Ranges(b, f, n) = Ranges(cmd.current, f, n)
      BY <3>2, PartHasRanges
    <3>4. /\ DOMAIN a.manifests = DOMAIN cmd.base.manifests \cap fromGit
          /\ DOMAIN b.manifests = DOMAIN cmd.current.manifests \cap walked
          /\ f \in DOMAIN a.manifests => a.manifests[f] = cmd.base.manifests[f]
          /\ f \in DOMAIN b.manifests => b.manifests[f] = cmd.current.manifests[f]
      BY PartIs
    <3>5. /\ f \in DOMAIN a.manifests \cup DOMAIN b.manifests
          /\ Unbundled(a, b, f, n)
      <4> HIDE DEF a, b
      <4>1. f \in DOMAIN a.manifests \cup DOMAIN b.manifests
        BY <2>5, <3>2, <3>4
      <4>2. f \in DOMAIN a.manifests => n \notin a.manifests[f].bundled
        BY <2>5, <3>4
      <4>3. f \in DOMAIN b.manifests => n \notin b.manifests[f].bundled
        BY <2>5, <3>4
      <4> QED BY <4>1, <4>2, <4>3, Zenon DEF Unbundled
    <3> HIDE DEF a, b
    <3>6. /\ Ranges(a, f, n) # Ranges(b, f, n)
          /\ Cardinality(Ranges(a, f, n)) <= 1 /\ Cardinality(Ranges(b, f, n)) <= 1
      BY <2>5, <3>3
    <3>7. \E v \in DiffInventories(base, current) : v.subject = <<f, n>>
      BY <2>1, <2>3, <3>1, <3>5, <3>6, EntryIsReported
    <3> QED BY <2>1, <3>7 DEF Reported
  <2> QED BY <2>4, <2>5, Zenon DEF DiffTellsChanges
<1> QED BY <1>1, <1>2, NextDInv, PTL DEF Spec
=============================================================================
