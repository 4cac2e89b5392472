---------------------------- MODULE Tools_proofs ----------------------------
(***************************************************************************)
(* Theorems about what a call of the turn sets going: a sub-agent          *)
(* (SubAgent), the commands of a hook (HookRunner), a program (Shell) and  *)
(* a call over the MCP bridge (McpBridge), each under its own              *)
(* specification; and what must be passed before a call runs (ToolGate), a *)
(* function of what is asked.                                              *)
(***************************************************************************)
EXTENDS SubAgent, HookRunner, Shell, McpBridge, SequenceTheorems, WellFoundedInduction, TLAPS
-----------------------------------------------------------------------------
(***************************************************************************)
(* Sub-agents, for any number of them and any failures of their turns and  *)
(* files.  A manifest that says an ending is that of a thread that is      *)
(* done, and what it is about to write is what it appended last.           *)
(***************************************************************************)
AgentFailure == AgentError \cup {{}, {"spawn"}, {"credentials"}, {"panicked"}, {"iterations"}, {"io"}}
AgentReport == [status : {"running", "completed", "failed"}, text : BOOLEAN, commit : BOOLEAN,
                error : AgentFailure]
AgentPc == {"idle", "refused", "spawning", "build", "turn", "append_completed", "append_failed",
            "write", "done"}
AgentJob == [pc : AgentPc, kind : AgentKind \cup {"general-purpose"}, answers : Int,
             report : AgentReport]

Section == {"prompt", "completed", "failed", "part"}

AgentsTypeOK ==
    /\ job \in [AgentId -> AgentJob]
    /\ DOMAIN manifest = AgentId /\ output \in [AgentId -> Seq(Section)]

LastSection(a) == output[a][Len(output[a])]
\* The report of an ending, the one the output ends with.
Reported(a) ==
    /\ job[a].report.status \in {"completed", "failed"}
    /\ LastSection(a) = job[a].report.status

AgentInv(a) ==
    /\ \/ manifest[a] \in {Unreadable("none"), Unreadable("torn"), Running}
       \/ job[a].pc = "done" /\ Reported(a) /\ manifest[a] = Manifest(job[a].report)
    /\ job[a].pc = "append_completed" => job[a].report.status = "completed"
    /\ job[a].pc = "append_failed" => job[a].report.status = "failed"
    /\ job[a].pc = "write" => Reported(a)

AgentsInv == AgentsTypeOK /\ \A a \in AgentId : AgentInv(a)

LEMMA FailedReport ==
    ASSUME NEW error \in AgentFailure
    PROVE  Failed(error) \in AgentReport /\ Failed(error).status = "failed"
BY DEF Failed, NoReport, AgentReport, AgentFailure

LEMMA SectionAppended ==
    ASSUME NEW s \in Seq(Section), NEW text \in Section
    PROVE  /\ Append(s, text) \in Seq(Section)
           /\ Append(s, text)[Len(Append(s, text))] = text
BY AppendProperties

\* What a step of agent a has to keep when it leaves the other agents alone.
LEMMA OneAgent ==
    ASSUME AgentsInv, NEW a \in AgentId, AgentsTypeOK', AgentInv(a)',
           \A b \in AgentId \ {a} : /\ job'[b] = job[b] /\ output'[b] = output[b]
                                    /\ manifest'[b] = manifest[b]
    PROVE  AgentsInv'
BY DEF AgentsInv, AgentInv, Reported, LastSection

\* The job of agent a after Step and Report.
LEMMA JobAfter ==
    ASSUME AgentsInv, NEW a \in AgentId, NEW to \in AgentPc
    PROVE  /\ Step(a, to) =>
                 /\ job' \in [AgentId -> AgentJob] /\ job'[a].pc = to
                 /\ job'[a].report = job[a].report
                 /\ \A b \in AgentId \ {a} : job'[b] = job[b]
           /\ \A r \in AgentReport : Report(a, r, to) =>
                 /\ job' \in [AgentId -> AgentJob] /\ job'[a].pc = to /\ job'[a].report = r
                 /\ \A b \in AgentId \ {a} : job'[b] = job[b]
<1>1. job \in [AgentId -> AgentJob] /\ job[a] \in AgentJob
  BY DEF AgentsInv, AgentsTypeOK
<1>2. ASSUME Step(a, to)
      PROVE  /\ job' \in [AgentId -> AgentJob] /\ job'[a].pc = to
             /\ job'[a].report = job[a].report
             /\ \A b \in AgentId \ {a} : job'[b] = job[b]
  <2> DEFINE j == [job[a] EXCEPT !.pc = to]
  <2>1. j \in AgentJob /\ j.pc = to /\ j.report = job[a].report
    BY <1>1 DEF AgentJob
  <2>2. job' = [job EXCEPT ![a] = j]
    BY <1>2 DEF Step
  <2> HIDE DEF j
  <2> QED
    BY <1>1, <2>1, <2>2
<1>3. ASSUME NEW r \in AgentReport, Report(a, r, to)
      PROVE  /\ job' \in [AgentId -> AgentJob] /\ job'[a].pc = to /\ job'[a].report = r
             /\ \A b \in AgentId \ {a} : job'[b] = job[b]
  <2> DEFINE j == [job[a] EXCEPT !.report = r, !.pc = to]
  <2>1. j \in AgentJob /\ j.pc = to /\ j.report = r
    BY <1>1 DEF AgentJob
  <2>2. job' = [job EXCEPT ![a] = j]
    BY <1>1, <1>3 DEF Report
  <2> HIDE DEF j
  <2> QED
    BY <1>1, <2>1, <2>2
<1> QED
  BY <1>2, <1>3

LEMMA LaunchKeeps ==
    ASSUME AgentsInv, NEW a \in AgentId, NEW asked \in AgentKind, Launch(a, asked)
    PROVE  AgentsInv'
<1>1. AgentsTypeOK /\ AgentInv(a) /\ job[a] = Idle
  BY DEF AgentsInv, Launch
<1>2. manifest[a] \in {Unreadable("none"), Unreadable("torn"), Running}
  BY <1>1 DEF AgentInv, Idle
<1>3. <<"prompt">> \in Seq(Section)
  <2>1. "prompt" \in Section
    BY DEF Section
  <2> QED
    BY <2>1
<1>4. CASE /\ job' = [job EXCEPT ![a] = [Idle EXCEPT !.pc = "spawning", !.kind = Normalized(asked)]]
           /\ output' = [output EXCEPT ![a] = <<"prompt">>]
           /\ manifest' = [manifest EXCEPT ![a] = Running]
  <2> DEFINE j == [Idle EXCEPT !.pc = "spawning", !.kind = Normalized(asked)]
  <2>1. Idle \in AgentJob
    BY DEF Idle, NoReport, AgentJob, AgentReport, AgentFailure, AgentPc
  <2>2. Normalized(asked) \in AgentKind \cup {"general-purpose"}
    BY DEF Normalized
  <2>3. j \in AgentJob /\ j.pc = "spawning"
    BY <2>1, <2>2 DEF AgentJob, AgentPc
  <2> HIDE DEF j
  <2>4. job' \in [AgentId -> AgentJob] /\ job'[a].pc = "spawning"
    BY <1>1, <1>4, <2>3 DEF AgentsTypeOK, j
  <2>5. AgentsTypeOK' /\ manifest'[a] = Running
    BY <1>1, <1>3, <1>4, <2>4 DEF AgentsTypeOK
  <2>6. AgentInv(a)'
    BY <2>4, <2>5 DEF AgentInv
  <2> QED
    BY <1>1, <1>4, <2>5, <2>6, OneAgent DEF AgentsTypeOK
<1>5. CASE /\ Step(a, "refused")
           /\ \/ UNCHANGED <<output, manifest>>
              \/ /\ output' = [output EXCEPT ![a] = <<"prompt">>]
                 /\ manifest' \in {manifest, [manifest EXCEPT ![a] = Unreadable("torn")]}
  <2>1. "refused" \in AgentPc
    BY DEF AgentPc
  <2>2. /\ job' \in [AgentId -> AgentJob] /\ job'[a].pc = "refused"
        /\ \A b \in AgentId \ {a} : job'[b] = job[b]
    BY <1>5, <2>1, JobAfter
  <2>3. /\ AgentsTypeOK' /\ manifest'[a] \in {manifest[a], Unreadable("torn")}
        /\ \A b \in AgentId \ {a} : output'[b] = output[b] /\ manifest'[b] = manifest[b]
    BY <1>1, <1>3, <1>5, <2>2 DEF AgentsTypeOK
  <2>4. AgentInv(a)'
    BY <1>2, <2>2, <2>3 DEF AgentInv
  <2> QED
    BY <2>2, <2>3, <2>4, OneAgent
<1> QED
  BY <1>4, <1>5 DEF Launch

\* The steps before the agent's files are written.
LEMMA WorkingStep ==
    ASSUME AgentsInv, NEW a \in AgentId,
           SpawnAgent(a) \/ Build(a) \/ AskTool(a) \/ TurnEnds(a)
    PROVE  AgentsInv'
<1>1. /\ AgentsTypeOK /\ AgentInv(a) /\ UNCHANGED <<manifest, output>>
      /\ job[a].pc \in {"spawning", "build", "turn"}
  BY DEF AgentsInv, SpawnAgent, Build, AskTool, TurnEnds
<1>2. manifest[a] \in {Unreadable("none"), Unreadable("torn"), Running}
  BY <1>1 DEF AgentInv
<1>3. ASSUME job' \in [AgentId -> AgentJob], \A b \in AgentId \ {a} : job'[b] = job[b],
             \/ job'[a].pc \in {"build", "turn"}
             \/ job'[a].pc = "append_failed" /\ job'[a].report.status = "failed"
             \/ job'[a].pc = "append_completed" /\ job'[a].report.status = "completed"
      PROVE  AgentsInv'
  <2>1. AgentsTypeOK' /\ AgentInv(a)'
    BY <1>1, <1>2, <1>3 DEF AgentsTypeOK, AgentInv
  <2> QED
    BY <1>1, <1>3, <2>1, OneAgent
<1>4. {"build", "turn", "append_failed", "append_completed"} \subseteq AgentPc
  BY DEF AgentPc
<1>5. ASSUME NEW error \in AgentFailure, Report(a, Failed(error), "append_failed")
      PROVE  AgentsInv'
  BY <1>3, <1>4, <1>5, FailedReport, JobAfter
<1>6. CASE SpawnAgent(a)
  <2>1. {"spawn"} \in AgentFailure
    BY DEF AgentFailure
  <2> QED
    BY <1>3, <1>4, <1>5, <1>6, <2>1, JobAfter DEF SpawnAgent
<1>7. CASE Build(a)
  <2>1. {"credentials"} \in AgentFailure
    BY DEF AgentFailure
  <2> QED
    BY <1>3, <1>4, <1>5, <1>7, <2>1, JobAfter DEF Build
<1>8. CASE AskTool(a)
  <2> DEFINE j == [job[a] EXCEPT !.answers = @ + 1]
  <2>1. job' = [job EXCEPT ![a] = j] /\ job[a].pc = "turn" /\ job \in [AgentId -> AgentJob]
    BY <1>1, <1>8 DEF AskTool, AgentsTypeOK
  <2>2. j \in AgentJob /\ j.pc = "turn"
    BY <2>1 DEF AgentJob
  <2> HIDE DEF j
  <2>3. job' \in [AgentId -> AgentJob] /\ job'[a].pc = "turn" /\ \A b \in AgentId \ {a} : job'[b] = job[b]
    BY <2>1, <2>2
  <2> QED
    BY <1>3, <2>3
<1>9. CASE TurnEnds(a)
  <2>1. AgentError \subseteq AgentFailure /\ {{"panicked"}, {"iterations"}} \subseteq AgentFailure
    BY DEF AgentFailure
  <2>2. ASSUME NEW text \in BOOLEAN, NEW commit \in BOOLEAN,
               Report(a, [NoReport EXCEPT !.status = "completed", !.text = text, !.commit = commit],
                      "append_completed")
        PROVE  AgentsInv'
    <3> DEFINE r == [NoReport EXCEPT !.status = "completed", !.text = text, !.commit = commit]
    <3>1. r \in AgentReport /\ r.status = "completed"
      BY DEF NoReport, AgentReport, AgentFailure
    <3> HIDE DEF r
    <3>2. Report(a, r, "append_completed")
      BY <2>2 DEF r
    <3> QED
      BY <1>3, <1>4, <3>1, <3>2, JobAfter
  <2> QED
    BY <1>5, <1>9, <2>1, <2>2 DEF TurnEnds
<1> QED
  BY <1>6, <1>7, <1>8, <1>9

\* What was reported could not be written: the failure is reported, or given up.
LEMMA PersistFailsKeeps ==
    ASSUME AgentsInv, NEW a \in AgentId, PersistFails(a),
           job[a].pc \in {"append_completed", "append_failed", "write"},
           output' \in [AgentId -> Seq(Section)], DOMAIN manifest' = AgentId,
           manifest'[a] \in {manifest[a], Unreadable("torn")},
           \A b \in AgentId \ {a} : output'[b] = output[b] /\ manifest'[b] = manifest[b]
    PROVE  AgentsInv'
<1>1. manifest'[a] \in {Unreadable("none"), Unreadable("torn"), Running}
  BY DEF AgentsInv, AgentInv
<1>2. {"append_failed", "done"} \subseteq AgentPc /\ {"io"} \in AgentFailure
  BY DEF AgentPc, AgentFailure
<1>3. /\ job' \in [AgentId -> AgentJob] /\ \A b \in AgentId \ {a} : job'[b] = job[b]
      /\ \/ job'[a].pc = "append_failed" /\ job'[a].report.status = "failed"
         \/ job'[a].pc = "done"
  BY <1>2, FailedReport, JobAfter DEF PersistFails
<1>4. AgentsTypeOK' /\ AgentInv(a)'
  BY <1>1, <1>3 DEF AgentsTypeOK, AgentInv
<1> QED
  BY <1>3, <1>4, OneAgent

LEMMA AppendKeeps ==
    ASSUME AgentsInv, NEW a \in AgentId, AppendOutput(a)
    PROVE  AgentsInv'
<1>1. /\ AgentsTypeOK /\ AgentInv(a) /\ manifest' = manifest
      /\ job[a].pc \in {"append_completed", "append_failed"}
  BY DEF AgentsInv, AppendOutput
<1>2. job[a].report.status \in {"completed", "failed"} /\ output[a] \in Seq(Section)
  BY <1>1 DEF AgentInv, AgentsTypeOK
<1> DEFINE status == job[a].report.status
           text == Append(output[a], status)
<1>3. text \in Seq(Section) /\ text[Len(text)] = status
  <2>1. status \in Section
    BY <1>2 DEF Section
  <2> HIDE DEF status
  <2> QED
    BY <1>2, <2>1, SectionAppended
<1>4. Append(output[a], "part") \in Seq(Section)
  <2>1. "part" \in Section
    BY DEF Section
  <2> QED
    BY <1>2, <2>1, SectionAppended
<1> HIDE DEF text
<1>5. CASE output' = [output EXCEPT ![a] = text] /\ Step(a, "write")
  <2>1. "write" \in AgentPc
    BY DEF AgentPc
  <2>2. /\ job' \in [AgentId -> AgentJob] /\ job'[a].pc = "write"
        /\ job'[a].report = job[a].report /\ \A b \in AgentId \ {a} : job'[b] = job[b]
    BY <1>5, <2>1, JobAfter
  <2>3. /\ output' \in [AgentId -> Seq(Section)] /\ output'[a] = text
        /\ \A b \in AgentId \ {a} : output'[b] = output[b]
    BY <1>1, <1>3, <1>5 DEF AgentsTypeOK
  <2>4. AgentsTypeOK' /\ Reported(a)'
    BY <1>1, <1>2, <1>3, <2>2, <2>3 DEF AgentsTypeOK, Reported, LastSection
  <2>5. AgentInv(a)'
    BY <1>1, <2>2, <2>4 DEF AgentInv
  <2> QED
    BY <1>1, <2>2, <2>3, <2>4, <2>5, OneAgent
<1>6. CASE /\ output' \in {output, [output EXCEPT ![a] = Append(@, "part")]}
           /\ PersistFails(a)
  <2>1. /\ output' \in [AgentId -> Seq(Section)] /\ \A b \in AgentId \ {a} : output'[b] = output[b]
        /\ DOMAIN manifest' = AgentId
    BY <1>1, <1>4, <1>6 DEF AgentsTypeOK
  <2> QED
    BY <1>1, <1>6, <2>1, PersistFailsKeeps
<1> QED
  BY <1>5, <1>6 DEF AppendOutput, text

LEMMA WriteManifestKeeps ==
    ASSUME AgentsInv, NEW a \in AgentId, WriteManifest(a)
    PROVE  AgentsInv'
<1>1. /\ AgentsTypeOK /\ AgentInv(a) /\ output' = output /\ job[a].pc = "write" /\ Reported(a)
  BY DEF AgentsInv, AgentInv, WriteManifest
<1>2. CASE manifest' = [manifest EXCEPT ![a] = Manifest(job[a].report)] /\ Step(a, "done")
  <2>1. "done" \in AgentPc
    BY DEF AgentPc
  <2>2. /\ job' \in [AgentId -> AgentJob] /\ job'[a].pc = "done"
        /\ job'[a].report = job[a].report /\ \A b \in AgentId \ {a} : job'[b] = job[b]
    BY <1>2, <2>1, JobAfter
  <2>3. /\ AgentsTypeOK' /\ manifest'[a] = Manifest(job'[a].report)
        /\ \A b \in AgentId \ {a} : manifest'[b] = manifest[b]
    BY <1>1, <1>2, <2>2 DEF AgentsTypeOK
  <2>4. AgentInv(a)'
    BY <1>1, <2>2, <2>3 DEF AgentInv, Reported, LastSection
  <2> QED
    BY <1>1, <2>2, <2>3, <2>4, OneAgent
<1>3. CASE /\ manifest' \in {manifest, [manifest EXCEPT ![a] = Unreadable("torn")]}
           /\ PersistFails(a)
  <2>1. /\ manifest'[a] \in {manifest[a], Unreadable("torn")} /\ DOMAIN manifest' = AgentId
        /\ \A b \in AgentId \ {a} : manifest'[b] = manifest[b]
        /\ output' \in [AgentId -> Seq(Section)]
    BY <1>1, <1>3 DEF AgentsTypeOK
  <2> QED
    BY <1>1, <1>3, <2>1, PersistFailsKeeps
<1> QED
  BY <1>2, <1>3 DEF WriteManifest

LEMMA ExitKeeps ==
    ASSUME AgentsInv, Exit
    PROVE  AgentsInv'
<1>1. AgentsTypeOK /\ UNCHANGED <<job, output>>
  BY DEF AgentsInv, Exit
<1>2. /\ DOMAIN manifest' = AgentId
      /\ \A a \in AgentId : manifest'[a] \in {manifest[a], Unreadable("torn")}
  BY <1>1 DEF Exit, AgentsTypeOK
<1> QED
  BY <1>1, <1>2 DEF AgentsInv, AgentsTypeOK, AgentInv, Reported, LastSection

\* Job, manifest and output of every sub-agent agree at each step of its thread.
THEOREM AgentsInvariant == AgentsSpec => []AgentsInv
<1>1. AgentsInit => AgentsInv
  <2> SUFFICES ASSUME AgentsInit PROVE AgentsInv
    OBVIOUS
  <2>1. Idle \in AgentJob /\ Idle.pc = "idle"
    BY DEF Idle, NoReport, AgentJob, AgentReport, AgentFailure, AgentPc
  <2>2. <<>> \in Seq(Section)
    OBVIOUS
  <2> QED
    BY <2>1, <2>2 DEF AgentsInit, AgentsInv, AgentsTypeOK, AgentInv
<1>2. AgentsInv /\ [AgentsNext]_agentVars => AgentsInv'
  <2> SUFFICES ASSUME AgentsInv, [AgentsNext]_agentVars PROVE AgentsInv'
    OBVIOUS
  <2>1. CASE UNCHANGED agentVars
    BY <2>1 DEF agentVars, AgentsInv, AgentsTypeOK, AgentInv, Reported, LastSection
  <2>2. CASE \E a \in AgentId : ThreadStep(a)
    BY <2>2, WorkingStep, AppendKeeps, WriteManifestKeeps DEF ThreadStep
  <2> QED
    BY <2>1, <2>2, LaunchKeeps, ExitKeeps DEF AgentsNext
<1> QED
  BY <1>1, <1>2, PTL DEF AgentsSpec

\* Some line of FailureOrder fits every message, so that a failure has a class.
LEMMA FailureHasClass ==
    ASSUME NEW error
    PROVE  FailureClass(error) # "none"
<1> DEFINE fits == {k \in 1..11 : FailureOrder[k][1] \subseteq error}
<1>1. /\ Len(FailureOrder) = 11 /\ FailureOrder[11][1] = {}
      /\ \A k \in 1..11 : FailureOrder[k][2] # "none"
  BY DEF FailureOrder
<1>2. fits \in SUBSET Nat /\ fits # {}
  BY <1>1
<1>3. FailureClass(error) = FailureOrder[Min(fits)][2]
  BY <1>1, <1>2 DEF FailureClass, SelectInSeq
<1>4. Min(fits) \in fits
  <2>1. \E k \in fits : \A l \in fits : k <= l
    BY <1>2
  <2> HIDE DEF fits
  <2> QED
    BY <2>1 DEF Min
<1> QED
  BY <1>1, <1>3, <1>4

\* What a sub-agent's manifest says at the end is what its thread did and wrote last.
THEOREM AgentsReportTruly == AgentsSpec => []AgentReported
<1>1. AgentsInv => AgentReported
  <2> SUFFICES ASSUME AgentsInv, NEW a \in AgentId, manifest[a].status \notin {"none", "torn"}
               PROVE  LET m == manifest[a]
                      IN  /\ m.status # "running" =>
                                /\ output[a][Len(output[a])] = m.status
                                /\ job[a].pc = "done" /\ job[a].report.status = m.status
                          /\ (m.status = "failed") = (m.blocker # "none")
                          /\ ~("finished" \in ToSet(m.events) /\ "failed" \in ToSet(m.events))
    BY DEF AgentReported
  <2>1. CASE manifest[a] = Running
    BY <2>1 DEF Running, ToSet
  <2>2. CASE job[a].pc = "done" /\ Reported(a) /\ manifest[a] = Manifest(job[a].report)
    <3> DEFINE r == job[a].report
    <3>1. /\ manifest[a].status = r.status /\ manifest[a].events = Events(r)
          /\ manifest[a].blocker = IF r.status = "failed" THEN FailureClass(r.error) ELSE "none"
      BY <2>2 DEF Manifest
    <3>2. ~("finished" \in ToSet(Events(r)) /\ "failed" \in ToSet(Events(r)))
      BY DEF Events, ToSet
    <3> HIDE DEF r
    <3> QED
      BY <2>2, <3>1, <3>2, FailureHasClass DEF Reported, LastSection, r
  <2> QED
    BY <2>1, <2>2 DEF AgentsInv, AgentInv, Unreadable
<1> QED
  BY <1>1, AgentsInvariant, PTL
-----------------------------------------------------------------------------
(***************************************************************************)
(* A run of hooks, for any number of commands and whatever they answer.    *)
(* While it goes on every command so far has approved, the result is what  *)
(* they said last, and a command that started after Ctrl-C is the one at   *)
(* work.                                                                   *)
(***************************************************************************)
Said(h, f, none) == {k \in 1..Len(h) : h[k].out[f] # none}
\* v is the last thing said about f, or none when nothing was.
LastSaid(h, f, none, v) ==
    \/ Said(h, f, none) = {} /\ v = none
    \/ \E k \in Said(h, f, none) : v = h[k].out[f] /\ \A l \in Said(h, f, none) : l <= k

Output == [verdict : {"allow", "deny", "failed"}, out : ParsedOutput]
Approved(o) == o.verdict = "allow" /\ ~o.out.deny
WordsKept(r, h) ==
    /\ LastSaid(h, "updated", NoInput, r.updated)
    /\ LastSaid(h, "override", "None", r.override)

\* What holds while the run goes on, and when it is over.
RunUnderway ==
    /\ ~atStart /\ i \in 1..commands /\ Len(heard) = i - 1
    /\ ~Refused(result) /\ WordsKept(result, heard)
    /\ \A k \in 1..Len(heard) : Approved(heard[k])
RunOver ==
    /\ commands = 0 => result = Allowed
    /\ result.cancelled => /\ commands > 0 /\ abort
                           /\ atStart => result.updated = NoInput /\ result.override = "None"
    /\ atStart /\ commands > 0 => result.cancelled
    /\ late > 0 => Refused(result)
    /\ ~Refused(result) => /\ Len(heard) = commands /\ WordsKept(result, heard)
                           /\ \A k \in 1..Len(heard) : Approved(heard[k])
    /\ \A k \in 1..Len(heard) : heard[k].verdict # "allow" => k = Len(heard)
    /\ Refused(result) => result.messages # <<>>

HookInv ==
    /\ TypeOK
    /\ pc \in {"write", "poll", "collect", "reap"} => child # NoChild
    /\ atStart => abort
    /\ late <= 1 /\ (late > 0 => abort)
    /\ pc \in {"start", "spawn", "collect"} => late = 0
    /\ pc = "start" => result = Allowed /\ heard = <<>> /\ i = 1
    /\ pc = "reap" => abort
    /\ pc \notin {"start", "done"} => RunUnderway
    /\ pc = "done" => RunOver

LEMMA NothingSaid ==
    ASSUME NEW f, NEW none
    PROVE  LastSaid(<<>>, f, none, none)
BY DEF LastSaid, Said

LEMMA LastSaidAppend ==
    ASSUME NEW h \in Seq(Output), NEW o \in Output, NEW f, NEW none, NEW v,
           LastSaid(h, f, none, v)
    PROVE  LastSaid(Append(h, o), f, none, IF o.out[f] = none THEN v ELSE o.out[f])
<1> DEFINE g == Append(h, o)
<1>1. /\ Len(h) \in Nat /\ Len(g) = Len(h) + 1 /\ g[Len(h) + 1] = o
      /\ \A k \in 1..Len(h) : g[k] = h[k]
      /\ \A k \in 1..Len(g) : k \in 1..Len(h) \/ k = Len(h) + 1
  BY AppendProperties
<1> HIDE DEF g
<1>2. CASE o.out[f] = none
  <2>1. Said(g, f, none) = Said(h, f, none)
    BY <1>1, <1>2 DEF Said
  <2>2. \A k \in Said(h, f, none) : g[k] = h[k]
    BY <1>1 DEF Said
  <2> QED
    BY <1>2, <2>1, <2>2 DEF LastSaid, g
<1>3. CASE o.out[f] # none
  <2>1. Len(h) + 1 \in Said(g, f, none) /\ \A l \in Said(g, f, none) : l <= Len(h) + 1
    BY <1>1, <1>3 DEF Said
  <2> QED
    BY <1>1, <1>3, <2>1 DEF LastSaid, g
<1> QED
  BY <1>2, <1>3

\* A command's answer merged into the result.
LEMMA WordsMerge ==
    ASSUME TypeOK, WordsKept(result, heard), NEW p \in ParsedOutput,
           NEW o \in Output, o.out = p
    PROVE  WordsKept(Merge(result, p), Append(heard, o))
<1>1. heard \in Seq(Output)
  BY DEF TypeOK, Output
<1>2. /\ LastSaid(Append(heard, o), "updated", NoInput,
                 IF o.out["updated"] = NoInput THEN result.updated ELSE o.out["updated"])
      /\ LastSaid(Append(heard, o), "override", "None",
                 IF o.out["override"] = "None" THEN result.override ELSE o.out["override"])
  BY <1>1, LastSaidAppend DEF WordsKept
<1>3. /\ Merge(result, p).updated = IF p.updated = NoInput THEN result.updated ELSE p.updated
      /\ Merge(result, p).override = IF p.override = "None" THEN result.override ELSE p.override
  BY DEF TypeOK, Merge
<1> QED
  BY <1>2, <1>3 DEF WordsKept

ResultType == [denied : BOOLEAN, failed : BOOLEAN, cancelled : BOOLEAN,
               messages : Seq(Nat), override : PermissionOverride,
               updated : Input \cup {NoInput}]

LEMMA MergeType ==
    ASSUME TypeOK, NEW p \in ParsedOutput
    PROVE  /\ Merge(result, p) \in ResultType
           /\ Merge(result, p).denied = result.denied /\ Merge(result, p).failed = result.failed
           /\ Merge(result, p).cancelled = result.cancelled
           /\ p.said => Merge(result, p).messages # <<>>
<1>1. result \in ResultType /\ i \in Nat
  BY CommandsAssumption DEF TypeOK, ResultType
<1>2. result.messages \in Seq(Nat)
  BY <1>1 DEF ResultType
<1>3. /\ Append(result.messages, i) \in Seq(Nat) /\ Append(result.messages, i) # <<>>
  BY <1>1, <1>2, AppendProperties
<1>4. p.override \in PermissionOverride /\ p.updated \in Input \cup {NoInput}
  BY DEF ParsedOutput
<1> QED
  BY <1>1, <1>3, <1>4 DEF Merge, ResultType

LEMMA OutputTypes ==
    /\ NoOutput \in ParsedOutput /\ WithFallback(NoOutput) \in ParsedOutput
    /\ \A p \in ParsedOutput : WithFallback(p) \in ParsedOutput /\ WithFallback(p).said
BY DEF NoOutput, WithFallback, ParsedOutput, PermissionOverride
-----------------------------------------------------------------------------
Process == [state : {"running", "exited", "killed"}, reads : BOOLEAN,
            loud : BOOLEAN, forks : BOOLEAN, eof : BOOLEAN]

LEMMA ChildTypes ==
    /\ NoChild \notin Process
    /\ \A c \in Process :
          /\ [c EXCEPT !.state = "exited"] \in Process
          /\ [c EXCEPT !.state = "killed"] \in Process
          /\ [c EXCEPT !.eof = TRUE] \in Process
          /\ [c EXCEPT !.forks = FALSE] \in Process
<1>1. NoChild \notin Process
  <2> SUFFICES ASSUME NoChild \in Process PROVE FALSE
    OBVIOUS
  <2>1. NoChild.state \in {"running", "exited", "killed"}
    BY DEF Process
  <2>2. NoChild.state = "none"
    BY DEF NoChild
  <2> QED
    BY <2>1, <2>2
<1> QED
  BY <1>1 DEF Process

\* The first step of run_commands.
LEMMA StartStep ==
    ASSUME HookInv, Start
    PROVE  HookInv'
<1>1. /\ result = Allowed /\ heard = <<>> /\ i = 1 /\ late = 0 /\ commands \in Nat
      /\ i' = i /\ commands' = commands /\ input' = input /\ abort' = abort
      /\ atStart' = atStart /\ late' = late /\ heard' = heard
  BY CommandsAssumption DEF HookInv, TypeOK, Start
<1>2. WordsKept(Allowed, <<>>)
  BY NothingSaid DEF WordsKept, Allowed
<1>3. /\ ~Refused(Allowed) /\ Len(<<>>) = 0
      /\ Allowed.updated = NoInput /\ Allowed.override = "None"
  BY DEF Refused, Allowed
<1>4. CASE commands = 0 /\ Finish(Allowed)
  <2>1. TypeOK' /\ result' = Allowed /\ pc' = "done" /\ child' = NoChild
    BY <1>1, <1>4 DEF HookInv, TypeOK, Finish
  <2>2. RunOver'
    BY <1>1, <1>2, <1>3, <1>4, <2>1 DEF RunOver, Allowed, WordsKept, Refused, LastSaid, Said
  <2> QED
    BY <1>1, <2>1, <2>2 DEF HookInv
<1>5. CASE commands > 0 /\ abort /\ Finish([Allowed EXCEPT !.cancelled = TRUE,
                                                          !.messages = <<0>>])
  <2> DEFINE m == <<0>>
             r == [Allowed EXCEPT !.cancelled = TRUE, !.messages = m]
  <2>0. Allowed \in ResultType /\ Allowed.updated = NoInput /\ Allowed.override = "None"
    BY DEF Allowed, ResultType, PermissionOverride
  <2>a. m \in Seq(Nat) /\ m # <<>>
    OBVIOUS
  <2> HIDE DEF m
  <2>b. /\ r \in ResultType /\ r.cancelled /\ r.messages = m
        /\ r.updated = NoInput /\ r.override = "None"
    BY <2>0, <2>a DEF ResultType
  <2> HIDE DEF r
  <2>c. result' = r /\ pc' = "done" /\ child' = NoChild
    BY <1>5 DEF Finish, r, m
  <2>1. /\ result'.cancelled /\ result'.updated = NoInput /\ result'.override = "None"
        /\ result'.messages # <<>> /\ pc' = "done" /\ child' = NoChild
        /\ result' \in ResultType
    BY <2>a, <2>b, <2>c
  <2>2. TypeOK'
    BY <1>1, <2>1 DEF HookInv, TypeOK, ResultType
  <2>3. RunOver'
    BY <1>1, <1>5, <2>1 DEF RunOver, Refused
  <2> QED
    BY <1>1, <2>1, <2>2, <2>3 DEF HookInv
<1>6. CASE commands > 0 /\ ~abort /\ pc' = "spawn" /\ UNCHANGED <<child, result>>
  <2>1. TypeOK'
    BY <1>1, <1>6 DEF HookInv, TypeOK
  <2>2. RunUnderway'
    BY <1>1, <1>2, <1>3, <1>6 DEF RunUnderway, HookInv, WordsKept, Refused, LastSaid, Said
  <2> QED
    BY <1>1, <1>6, <2>1, <2>2 DEF HookInv
<1> QED
  BY <1>4, <1>5, <1>6 DEF Start

\* A command that could not be run is a refusal, whether it is told or not.
Broken == [Merge(result, WithFallback(NoOutput)) EXCEPT !.failed = TRUE]

LEMMA BrokenType ==
    ASSUME TypeOK
    PROVE  /\ Broken \in ResultType /\ Broken.failed /\ Broken.messages # <<>>
           /\ Broken.cancelled = result.cancelled
<1> DEFINE r == Merge(result, WithFallback(NoOutput))
<1>1. r \in ResultType /\ r.messages # <<>> /\ r.cancelled = result.cancelled
  BY MergeType, OutputTypes
<1> HIDE DEF r
<1> QED
  BY <1>1 DEF ResultType, Broken, r

LEMMA SpawnStep ==
    ASSUME HookInv, Spawn
    PROVE  HookInv'
<1>1. /\ TypeOK /\ RunUnderway /\ pc = "spawn" /\ late = 0 /\ commands \in Nat /\ ~atStart
      /\ i' = i /\ commands' = commands /\ input' = input /\ abort' = abort
      /\ atStart' = atStart /\ late' = IF abort THEN 1 ELSE 0
  BY CommandsAssumption DEF HookInv, TypeOK, Spawn, RunUnderway
<1>2. late' \in Nat /\ late' <= 1 /\ (late' > 0 => abort)
  BY <1>1
<1>3. ASSUME NEW h \in Habits,
             child' = [state |-> "running", reads |-> h.reads, loud |-> h.loud,
                       forks |-> h.forks, eof |-> FALSE],
             pc' = "write", UNCHANGED <<result, heard>>
      PROVE  HookInv'
  <2>1. child' \in Process
    BY <1>3, HabitsAssumption DEF Habit, Process
  <2>2. TypeOK'
    BY <1>1, <1>2, <1>3, <2>1 DEF TypeOK, Process
  <2>3. RunUnderway'
    BY <1>1, <1>3 DEF RunUnderway, Refused, WordsKept, LastSaid, Said
  <2> QED
    BY <1>1, <1>2, <1>3, <2>1, <2>2, <2>3, ChildTypes DEF HookInv
<1>4. ASSUME Finish([Merge(result, WithFallback(NoOutput)) EXCEPT !.failed = TRUE]),
             heard' = Append(heard, [verdict |-> "failed", out |-> WithFallback(NoOutput)])
      PROVE  HookInv'
  <2> DEFINE o == [verdict |-> "failed", out |-> WithFallback(NoOutput)]
  <2>1. o \in Output /\ o.verdict = "failed"
    BY OutputTypes DEF Output
  <2> HIDE DEF o
  <2>2. /\ result' \in ResultType /\ result'.failed /\ result'.messages # <<>>
        /\ ~result'.cancelled /\ pc' = "done" /\ child' = NoChild
    BY <1>1, <1>4, BrokenType DEF Broken, Finish, RunUnderway, Refused
  <2>3. heard \in Seq(Output) /\ heard' = Append(heard, o)
    BY <1>1, <1>4 DEF TypeOK, Output, o
  <2>4. /\ heard' \in Seq(Output) /\ Len(heard') = Len(heard) + 1 /\ Len(heard) \in Nat
        /\ \A k \in 1..Len(heard) : heard'[k] = heard[k]
    BY <2>1, <2>3, AppendProperties
  <2>5. TypeOK'
    BY <1>1, <1>2, <2>2, <2>4 DEF TypeOK, Output, ResultType
  <2>6. \A k \in 1..Len(heard') : heard'[k].verdict # "allow" => k = Len(heard')
    <3> TAKE k \in 1..Len(heard')
    <3>1. k \in 1..Len(heard) \/ k = Len(heard')
      BY <2>4
    <3> QED
      BY <1>1, <2>4, <3>1 DEF RunUnderway, Approved
  <2>7. RunOver'
    BY <1>1, <2>2, <2>6 DEF RunOver, Refused, RunUnderway
  <2> QED
    BY <1>1, <1>2, <2>2, <2>5, <2>7 DEF HookInv
<1> QED
  BY <1>3, <1>4 DEF Spawn

LEMMA WriteStep ==
    ASSUME HookInv, WritePayload
    PROVE  HookInv'
<1>1. /\ TypeOK /\ RunUnderway /\ pc = "write" /\ commands \in Nat /\ ~atStart
      /\ i' = i /\ commands' = commands /\ input' = input /\ abort' = abort
      /\ atStart' = atStart /\ late' = late /\ heard' = heard
      /\ child \in Process
  BY CommandsAssumption DEF HookInv, TypeOK, WritePayload, RunUnderway, Process
<1>2. CASE Finish([Merge(result, WithFallback(NoOutput)) EXCEPT !.failed = TRUE])
  <2>2. /\ result' \in ResultType /\ result'.failed /\ result'.messages # <<>>
        /\ ~result'.cancelled /\ pc' = "done" /\ child' = NoChild
    BY <1>1, <1>2, BrokenType DEF Broken, Finish, RunUnderway, Refused
  <2>3. TypeOK'
    BY <1>1, <2>2 DEF TypeOK, ResultType
  <2>4. RunOver'
    BY <1>1, <2>2 DEF RunOver, Refused, RunUnderway, Approved
  <2> QED
    BY <1>1, <2>2, <2>3, <2>4 DEF HookInv
<1>3. CASE /\ pc' = "poll" /\ child' = [child EXCEPT !.eof = TRUE] /\ UNCHANGED result
  <2>1. child' \in Process
    BY <1>1, <1>3, ChildTypes
  <2>2. TypeOK'
    BY <1>1, <1>3, <2>1 DEF TypeOK, Process
  <2>3. RunUnderway'
    BY <1>1, <1>3 DEF RunUnderway, Refused, WordsKept, LastSaid, Said
  <2> QED
    BY <1>1, <1>3, <2>1, <2>2, <2>3, ChildTypes DEF HookInv
<1> QED
  BY <1>2, <1>3 DEF WritePayload

LEMMA PollStep ==
    ASSUME HookInv, Poll
    PROVE  HookInv'
<1>1. /\ TypeOK /\ RunUnderway /\ pc = "poll"
      /\ UNCHANGED <<i, commands, input, result, abort, atStart, late, heard>>
      /\ child \in Process
  BY DEF HookInv, TypeOK, Poll, Process
<1>2. RunUnderway'
  BY <1>1 DEF RunUnderway, Refused, WordsKept, LastSaid, Said
<1>3. CASE abort /\ pc' = "reap" /\ child' = [child EXCEPT !.state = "killed"]
  <2>1. child' \in Process
    BY <1>1, <1>3, ChildTypes
  <2>2. TypeOK'
    BY <1>1, <1>3, <2>1 DEF TypeOK, Process
  <2> QED
    BY <1>1, <1>2, <1>3, <2>1, <2>2, ChildTypes DEF HookInv
<1>4. CASE ~abort /\ pc' = "collect" /\ UNCHANGED child
  <2>1. TypeOK'
    BY <1>1, <1>4 DEF TypeOK
  <2>2. late = 0
    BY <1>1, <1>4 DEF HookInv, TypeOK
  <2> QED
    BY <1>1, <1>2, <1>4, <2>1, <2>2, ChildTypes DEF HookInv
<1> QED
  BY <1>3, <1>4 DEF Poll

LEMMA ReapStep ==
    ASSUME HookInv, Reap
    PROVE  HookInv'
<1>1. /\ TypeOK /\ RunUnderway /\ abort /\ ~atStart /\ pc' = "done" /\ child' = NoChild
      /\ UNCHANGED <<i, commands, input, abort, atStart, late, heard>>
      /\ result' = [result EXCEPT !.cancelled = TRUE, !.messages = Append(@, i)]
  BY DEF HookInv, Reap, Finish, RunUnderway
<1>2. result \in ResultType /\ i \in Nat /\ commands \in Nat
  BY <1>1, CommandsAssumption DEF TypeOK, ResultType
<1>3. result.messages \in Seq(Nat)
  BY <1>2 DEF ResultType
<1>4. Append(result.messages, i) \in Seq(Nat) /\ Append(result.messages, i) # <<>>
  <2>1. i \in Nat /\ result.messages \in Seq(Nat)
    BY <1>2, <1>3
  <2> QED
    BY <2>1, AppendProperties
<1>5. result' \in ResultType /\ result'.cancelled /\ result'.messages # <<>>
  BY <1>1, <1>2, <1>4 DEF ResultType
<1>6. TypeOK'
  BY <1>1, <1>5 DEF TypeOK, ResultType
<1>7. RunOver'
  BY <1>1, <1>2, <1>5 DEF RunOver, Refused, RunUnderway, Approved
<1> QED
  BY <1>1, <1>6, <1>7 DEF HookInv

\* The outcome of a command that finished.
LEMMA CollectStep ==
    ASSUME HookInv, Collect
    PROVE  HookInv'
<1>1. /\ TypeOK /\ RunUnderway /\ late = 0 /\ ~atStart
      /\ UNCHANGED <<commands, input, abort, atStart, late>>
  BY DEF HookInv, Collect, RunUnderway
<1>2. PICK code \in Code, p \in ParsedOutput : Take(code, p)
  BY DEF Collect
<1> DEFINE v == Verdict(code, p)
           q == IF code = "0" THEN p ELSE WithFallback(p)
           o == [verdict |-> v, out |-> q]
           m == Merge(result, q)
<1>3. q \in ParsedOutput /\ v \in {"allow", "deny", "failed"}
  BY OutputTypes DEF Verdict
<1>4. (v # "allow" => q.said) /\ (v = "allow" => ~q.deny)
  BY <1>3, OutputTypes DEF Verdict, ParsedOutput
<1>5. o \in Output /\ o.out = q /\ o.verdict = v
  BY <1>3 DEF Output
<1>6. /\ heard' = Append(heard, o)
      /\ IF v = "allow" /\ i < commands
         THEN result' = m /\ pc' = "spawn" /\ i' = i + 1 /\ child' = NoChild
         ELSE /\ Finish([m EXCEPT !.denied = v = "deny", !.failed = v = "failed"])
              /\ UNCHANGED i
  BY <1>2 DEF Take
<1> HIDE DEF o, v
<1>7. /\ m \in ResultType /\ ~m.denied /\ ~m.failed /\ ~m.cancelled
      /\ q.said => m.messages # <<>>
  BY <1>1, <1>3, MergeType DEF RunUnderway, Refused
<1>8. WordsKept(m, heard')
  BY <1>1, <1>3, <1>5, <1>6, WordsMerge DEF RunUnderway
<1> HIDE DEF m, q
<1>9. /\ heard \in Seq(Output) /\ i \in Nat /\ commands \in Nat
  BY <1>1, CommandsAssumption DEF TypeOK, Output
<1>10. /\ heard' \in Seq(Output) /\ Len(heard') = Len(heard) + 1 /\ Len(heard) \in Nat
       /\ heard'[Len(heard) + 1] = o
       /\ \A k \in 1..Len(heard) : heard'[k] = heard[k]
  BY <1>5, <1>6, <1>9, AppendProperties
<1>11. /\ \A k \in 1..Len(heard) : Approved(heard'[k])
       /\ v = "allow" => Approved(heard'[Len(heard')])
  BY <1>1, <1>4, <1>5, <1>10 DEF RunUnderway, Approved
<1>12. CASE v = "allow" /\ i < commands
  <2>1. TypeOK'
    <3>1. result' \in ResultType /\ i' \in 1..(MaxCommands + 1)
      BY <1>1, <1>6, <1>7, <1>9, <1>12, CommandsAssumption DEF TypeOK
    <3> QED
      BY <1>1, <1>6, <1>10, <1>12, <3>1 DEF TypeOK, Output, ResultType
  <2>2. \A k \in 1..Len(heard') : Approved(heard'[k])
    BY <1>10, <1>11, <1>12
  <2>3. ~Refused(result')
    BY <1>6, <1>7, <1>12 DEF Refused
  <2>4. RunUnderway'
    BY <1>1, <1>6, <1>8, <1>9, <1>10, <1>12, <2>2, <2>3 DEF RunUnderway
  <2> QED
    BY <1>1, <1>6, <1>12, <2>1, <2>4 DEF HookInv
<1>13. CASE ~(v = "allow" /\ i < commands)
  <2> DEFINE r == [m EXCEPT !.denied = v = "deny", !.failed = v = "failed"]
  <2>1. /\ r \in ResultType /\ r.denied = (v = "deny") /\ r.failed = (v = "failed")
        /\ r.cancelled = m.cancelled /\ r.messages = m.messages
        /\ r.updated = m.updated /\ r.override = m.override
    BY <1>7 DEF ResultType
  <2> HIDE DEF r
  <2>2. result' = r /\ pc' = "done" /\ child' = NoChild /\ i' = i
    BY <1>6, <1>13 DEF Finish, r
  <2>3. TypeOK'
    BY <1>1, <1>10, <2>1, <2>2 DEF TypeOK, Output, ResultType
  <2>4. Refused(r) <=> v # "allow"
    BY <1>3, <1>7, <2>1 DEF Refused, v
  <2>5. \A k \in 1..Len(heard') : heard'[k].verdict # "allow" => k = Len(heard')
    <3> TAKE k \in 1..Len(heard')
    <3>1. k \in 1..Len(heard) \/ k = Len(heard')
      BY <1>10
    <3> QED
      BY <1>11, <3>1 DEF Approved
  <2>6. WordsKept(r, heard')
    BY <1>8, <2>1 DEF WordsKept
  <2>7. v = "allow" => \A k \in 1..Len(heard') : Approved(heard'[k])
    BY <1>10, <1>11
  <2>8. v = "allow" => Len(heard') = commands
    BY <1>1, <1>9, <1>10, <1>13 DEF RunUnderway
  <2>9. Refused(r) => r.messages # <<>>
    BY <1>4, <1>7, <2>1, <2>4
  <2>10. RunOver'
    BY <1>1, <1>7, <2>1, <2>2, <2>4, <2>5, <2>6, <2>7, <2>8, <2>9 DEF RunOver, RunUnderway
  <2> QED
    BY <1>1, <2>2, <2>3, <2>10 DEF HookInv
<1> QED
  BY <1>12, <1>13

\* The child, its descendants and Ctrl-C, at any moment.
LEMMA WorldStep ==
    ASSUME HookInv, ChildExits \/ DescendantExits \/ CtrlC
    PROVE  HookInv'
<1>1. TypeOK /\ UNCHANGED <<pc, i, commands, input, result, atStart, late, heard>>
  BY DEF HookInv, ChildExits, DescendantExits, CtrlC
<1>2. (child \in {NoChild} \cup Process) /\ NoChild.state = "none"
  BY <1>1 DEF TypeOK, Process, NoChild
<1>3. child' \in {NoChild} \cup Process /\ (child # NoChild => child' # NoChild)
  <2>1. CASE ChildExits
    BY <1>2, <2>1, ChildTypes DEF ChildExits
  <2>2. CASE DescendantExits
    BY <1>2, <2>2, ChildTypes DEF DescendantExits
  <2>3. CASE CtrlC
    BY <1>2, <2>3 DEF CtrlC
  <2> QED
    BY <2>1, <2>2, <2>3
<1>4. abort' \in BOOLEAN /\ (abort => abort') /\ (abort' # abort => pc # "done")
  BY <1>1 DEF TypeOK, ChildExits, DescendantExits, CtrlC
<1>5. TypeOK'
  BY <1>1, <1>3, <1>4 DEF TypeOK, Process
<1>6. RunUnderway => RunUnderway'
  BY <1>1 DEF RunUnderway, Refused, WordsKept, LastSaid, Said
<1>7. RunOver => RunOver'
  BY <1>1, <1>4 DEF RunOver, Refused, WordsKept, LastSaid, Said
<1> QED
  BY <1>1, <1>3, <1>4, <1>5, <1>6, <1>7 DEF HookInv

\* What the run has so far is what its commands said, child and pipes included.
THEOREM HooksInvariant == Spec => []HookInv
<1>1. Init => HookInv
  <2> SUFFICES ASSUME Init PROVE HookInv
    OBVIOUS
  <2>1. TypeOK
    BY CommandsAssumption DEF Init, TypeOK, Allowed, PermissionOverride
  <2> QED
    BY <2>1 DEF Init, HookInv
<1>2. HookInv /\ [Next]_vars => HookInv'
  <2> SUFFICES ASSUME HookInv, [Next]_vars PROVE HookInv'
    OBVIOUS
  <2>1. CASE UNCHANGED vars
    BY <2>1 DEF vars, HookInv, TypeOK, RunUnderway, RunOver, Refused, WordsKept, LastSaid, Said
  <2>2. CASE Done
    BY <2>1, <2>2 DEF Done
  <2>3. CASE RunnerStep
    BY <2>3, StartStep, SpawnStep, WriteStep, PollStep, CollectStep, ReapStep DEF RunnerStep
  <2>4. CASE ChildExits \/ DescendantExits \/ CtrlC
    BY <2>4, WorldStep
  <2> QED
    BY <2>1, <2>2, <2>3, <2>4 DEF Next, Done
<1> QED
  BY <1>1, <1>2, PTL DEF Spec

LEMMA LastWordSaid ==
    ASSUME NEW f, NEW none, NEW v, LastSaid(heard, f, none, v), heard \in Seq(Output)
    PROVE  v = LastWord(f, none)
<1>1. CASE Said(heard, f, none) = {}
  BY <1>1 DEF LastSaid, LastWord, Said
<1>2. CASE Said(heard, f, none) # {}
  <2>1. PICK k \in Said(heard, f, none) :
          v = heard[k].out[f] /\ \A l \in Said(heard, f, none) : l <= k
    BY <1>2 DEF LastSaid
  <2> DEFINE c == CHOOSE x \in Said(heard, f, none) : \A l \in Said(heard, f, none) : l <= x
  <2>2. c \in Said(heard, f, none) /\ \A l \in Said(heard, f, none) : l <= c
    BY <2>1
  <2>3. k \in Nat /\ c \in Nat
    BY <2>1, <2>2 DEF Said
  <2> HIDE DEF c
  <2>4. c = k
    BY <2>1, <2>2, <2>3
  <2>5. LastWord(f, none) = heard[c].out[f]
    BY <1>2 DEF LastWord, Said, c
  <2> QED
    BY <2>1, <2>4, <2>5
<1> QED
  BY <1>1, <1>2

\* A run of hooks keeps the contract the turn relies on, and approves only what every
\* command approved; a refusal and Ctrl-C end it with a reason.
THEOREM HooksKeepTheContract == Spec => []HooksKeepWord
<1>1. HookInv => HooksKeepWord
  <2> SUFFICES ASSUME HookInv PROVE HooksKeepWord
    OBVIOUS
  <2>1. TypeOK /\ result \in ResultType /\ input \in Input /\ commands \in Nat /\ late \in Nat
    BY CommandsAssumption DEF HookInv, TypeOK, ResultType
  <2>2. result.updated \in Input \cup {NoInput} /\ result.override \in PermissionOverride
    BY <2>1 DEF ResultType
  <2>3. KeepsContract
    <3> SUFFICES ASSUME pc = "done"
                 PROVE  \/ Answered \in HookAnswers(input, commands > 0, atStart)
                        \/ commands > 0 /\ abort /\ ~atStart /\ Answered.verdict = "cancelled"
      BY DEF KeepsContract
    <3>0. RunOver
      BY DEF HookInv
    <3> DEFINE v == IF result.cancelled THEN "cancelled"
                    ELSE IF result.failed THEN "failed"
                    ELSE IF result.denied THEN "denied" ELSE "allow"
               u == IF result.updated = NoInput THEN input ELSE result.updated
    <3>a. result.cancelled \in BOOLEAN /\ result.failed \in BOOLEAN /\ result.denied \in BOOLEAN
      BY <2>1 DEF ResultType
    <3>b. v \in {"allow", "denied", "failed", "cancelled"} /\ (v = "cancelled" <=> result.cancelled)
      BY <3>a
    <3>c. u \in Input
      BY <2>1, <2>2
    <3>d. Answered = [verdict |-> v, updated |-> u, override |-> result.override]
      BY DEF Answered
    <3> HIDE DEF v, u
    <3>1. /\ Answered \in HookResult
          /\ Answered.verdict = "cancelled" <=> result.cancelled
          /\ Answered.updated = u /\ Answered.override = result.override
      BY <2>2, <3>b, <3>c, <3>d DEF HookResult
    <3>2. CASE commands = 0
      <4>1. result = Allowed
        BY <3>0, <3>2 DEF RunOver
      <4>2. Answered = [verdict |-> "allow", updated |-> input, override |-> "None"]
        BY <4>1 DEF Answered, Allowed
      <4> QED
        BY <3>2, <4>2 DEF HookAnswers
    <3>3. CASE commands > 0 /\ ~result.cancelled
      BY <3>0, <3>1, <3>3 DEF RunOver, HookAnswers
    <3>4. CASE commands > 0 /\ result.cancelled /\ ~atStart
      BY <3>0, <3>1, <3>4 DEF RunOver
    <3>5. CASE commands > 0 /\ result.cancelled /\ atStart
      <4>1. result.updated = NoInput /\ result.override = "None"
        BY <3>0, <3>5 DEF RunOver
      <4>2. Answered = [verdict |-> "cancelled", updated |-> input, override |-> "None"]
        BY <3>5, <3>b, <3>d, <4>1 DEF u
      <4> QED
        BY <3>5, <4>2 DEF HookAnswers
    <3> QED
      BY <2>1, <3>2, <3>3, <3>4, <3>5
  <2>4. ApprovedByAll
    <3> SUFFICES ASSUME pc = "done", ~Refused(result)
                 PROVE  /\ Len(heard) = commands
                        /\ \A k \in 1..Len(heard) :
                              heard[k].verdict = "allow" /\ ~heard[k].out.deny
                        /\ result.updated = LastWord("updated", NoInput)
                        /\ result.override = LastWord("override", "None")
      BY DEF ApprovedByAll
    <3>1. /\ Len(heard) = commands /\ WordsKept(result, heard)
          /\ \A k \in 1..Len(heard) : Approved(heard[k])
      BY DEF HookInv, RunOver
    <3>2. heard \in Seq(Output)
      BY <2>1 DEF TypeOK, Output
    <3> QED
      BY <3>1, <3>2, LastWordSaid DEF WordsKept, Approved
  <2>5. RefusalIsLastWord
    BY DEF HookInv, RunOver, RunUnderway, Approved, RefusalIsLastWord
  <2>6. AbortCancels
    <3>1. pc = "done" /\ late > 0 => Refused(result)
      BY DEF HookInv, RunOver
    <3> QED
      BY <3>1 DEF HookInv, AbortCancels
  <2> QED
    BY <2>1, <2>3, <2>4, <2>5, <2>6 DEF HooksKeepWord
<1> QED
  BY <1>1, HooksInvariant, PTL
-----------------------------------------------------------------------------
(***************************************************************************)
(* A call of bash, PowerShell or REPL, for any output and any pipe.  While *)
(* the tool reads, what is told, in the pipe and still to be written is    *)
(* the whole output; nobody but the tool's own kill ends a program it      *)
(* reads from.                                                             *)
(***************************************************************************)
ShellTypeOK ==
    /\ call \in Call /\ call.output \in Nat
    /\ step \in {"start", "poll", "read", "readKilled", "done"}
    /\ program \in {"none", "runs", "over", "killed"}
    /\ left \in Nat /\ pipe \in Nat /\ told \in Nat /\ heir \in BOOLEAN
    /\ answer \in {"none", "exit", "timeout", "started"}

ShellInv ==
    /\ ShellTypeOK
    /\ step = "start" => program = "none" /\ pipe = 0 /\ told = 0
    /\ step # "start" => program # "none"
    /\ step # "done" => answer = "none"
    /\ call.background => ~call.timeout /\ step \in {"start", "done"}
    /\ step \in {"poll", "read", "readKilled"} => told + pipe + left = call.output
    /\ step \in {"poll", "readKilled"} => call.timeout /\ call.tool # "bash"
    /\ step \in {"poll", "read"} => program # "killed"
    /\ step = "readKilled" => program # "runs"
    /\ program = "over" => left = 0
    /\ ShellTold

LEMMA ShellStep ==
    ASSUME ShellInv, ShellNext
    PROVE  ShellInv'
<1>1. ShellTypeOK
  BY DEF ShellInv
<1>2. CASE StartProgram
  BY <1>1, <1>2 DEF ShellInv, ShellTypeOK, StartProgram, ShellTold, Call
<1>3. CASE Drain
  BY <1>1, <1>3 DEF ShellInv, ShellTypeOK, Drain, ShellTold
<1>4. CASE ReadToEnd
  BY <1>1, <1>4 DEF ShellInv, ShellTypeOK, ReadToEnd, Over, Tells, ShellTold
<1>5. CASE TryWait
  BY <1>1, <1>5 DEF ShellInv, ShellTypeOK, TryWait, ShellTold
<1>6. CASE Kill
  BY <1>1, <1>6 DEF ShellInv, ShellTypeOK, Kill, ShellTold
<1>7. CASE GiveUp
  BY <1>1, <1>7 DEF ShellInv, ShellTypeOK, GiveUp, Tells, ShellTold
<1>8. CASE Writes
  BY <1>1, <1>8, ShellAssumption DEF ShellInv, ShellTypeOK, Writes, ShellTold
<1>9. CASE LeavesBehind
  BY <1>1, <1>9 DEF ShellInv, ShellTypeOK, LeavesBehind, ShellTold
<1>10. CASE Exits
  BY <1>1, <1>10 DEF ShellInv, ShellTypeOK, Exits, ShellTold
<1>11. CASE HeirEnds
  BY <1>1, <1>11 DEF ShellInv, ShellTypeOK, HeirEnds, ShellTold
<1> QED
  BY <1>2, <1>3, <1>4, <1>5, <1>6, <1>7, <1>8, <1>9, <1>10, <1>11
     DEF ShellNext, ToolStep, ProgramStep

\* What the model is told of a program it started is so: an exit with all the output,
\* a timeout only of a call that had one.
THEOREM ShellTellsTruth == ShellSpec => []ShellTold
<1>1. ShellInit => ShellInv
  <2> SUFFICES ASSUME ShellInit PROVE ShellInv
    OBVIOUS
  <2>1. call \in Call /\ call.output \in Nat
    BY ShellAssumption DEF ShellInit, Call
  <2> QED
    BY <2>1 DEF ShellInit, ShellInv, ShellTypeOK, ShellTold
<1>2. ShellInv /\ [ShellNext]_shellVars => ShellInv'
  <2> SUFFICES ASSUME ShellInv, [ShellNext]_shellVars PROVE ShellInv'
    OBVIOUS
  <2>1. CASE UNCHANGED shellVars
    BY <2>1 DEF shellVars, ShellInv, ShellTypeOK, ShellTold
  <2> QED
    BY <2>1, ShellStep
<1>3. ShellInv => ShellTold
  BY DEF ShellInv
<1> QED
  BY <1>1, <1>2, <1>3, PTL DEF ShellSpec
-----------------------------------------------------------------------------
(***************************************************************************)
(* Calls over the bridge, for any clients and servers.  Whoever is at work *)
(* on the manager holds the lock, alone; what it has discovered runs; and  *)
(* its call has reached a server only when it goes to shut them down.      *)
(***************************************************************************)
BridgeTypeOK ==
    /\ stage \in [Client -> {"start", "checked", "lock", "discover", "shutdown", "done"}]
    /\ target \in [Client -> Names] /\ lock \subseteq Client /\ next \in Nat
    /\ outcome \in [Client -> {"none", "result", "error"}] /\ sent \in [Client -> Nat]
    /\ reply \in [Client -> {"none", "ok", "error", "refused"}]
    /\ DOMAIN leftUp = Client

CallInv(c) ==
    /\ stage[c] # "done" => reply[c] = "none"
    /\ stage[c] \notin {"shutdown", "done"} => sent[c] = 0
    /\ outcome[c] = "result" => sent[c] = 1
    /\ sent[c] <= 1
    /\ reply[c] = "ok" => sent[c] = 1 /\ leftUp[c] = {}
    /\ reply[c] = "refused" => sent[c] = 0
    /\ stage[c] = "discover" => next <= Len(Bridged) /\ \A j \in 1..next : Bridged[j] \in up

BridgeInv ==
    /\ BridgeTypeOK
    /\ \A c \in Client : stage[c] \in {"discover", "shutdown"} <=> c \in lock
    /\ \A c, d \in lock : c = d
    /\ \A c \in Client : CallInv(c)

LEMMA ServersAsNumbered == Len(Bridged) \in Nat /\ DOMAIN Bridged = 1..Len(Bridged)
BY BridgeAssumption

LEMMA CallStepKeeps ==
    ASSUME BridgeInv, NEW c \in Client, CallStep(c)
    PROVE  BridgeInv'
<1>1. BridgeTypeOK /\ CallInv(c) /\ (c \in lock => lock = {c}) /\ Len(Bridged) \in Nat
  BY ServersAsNumbered DEF BridgeInv, BridgeTypeOK
<1>2. /\ \A d \in Client : CallInv(d) /\ (stage[d] \in {"discover", "shutdown"} <=> d \in lock)
      /\ \A d \in Client : c \in lock /\ d # c => stage[d] # "discover"
  BY <1>1 DEF BridgeInv
<1> DEFINE Elsewhere ==
        \A d \in Client \ {c} :
           /\ stage'[d] = stage[d] /\ reply'[d] = reply[d] /\ sent'[d] = sent[d]
           /\ outcome'[d] = outcome[d] /\ leftUp'[d] = leftUp[d]
<1> DEFINE Held == \A d \in Client : stage'[d] \in {"discover", "shutdown"} <=> d \in lock'
<1>3. ASSUME BridgeTypeOK', Held, Elsewhere, \A d, e \in lock' : d = e, CallInv(c)',
             \A d \in Client \ {c} : stage[d] = "discover" => UNCHANGED <<next, up>>
      PROVE  BridgeInv'
  <2>1. \A d \in Client \ {c} : CallInv(d)'
    BY <1>2, <1>3 DEF CallInv
  <2> QED
    BY <1>3, <2>1 DEF BridgeInv
<1>4. CASE Check(c)
  <2>1. BridgeTypeOK' /\ Elsewhere /\ CallInv(c)' /\ UNCHANGED <<lock, next, up>>
    BY <1>1, <1>4 DEF BridgeTypeOK, CallInv, Check, Goto, Told
  <2>2. Held
    BY <1>1, <1>2, <1>4, <2>1 DEF BridgeTypeOK, Check, Goto, Told
  <2> QED
    BY <1>3, <2>1, <2>2 DEF BridgeInv
<1>5. CASE FindManager(c)
  <2>1. BridgeTypeOK' /\ Elsewhere /\ CallInv(c)' /\ UNCHANGED <<lock, next, up>>
    BY <1>1, <1>5 DEF BridgeTypeOK, CallInv, FindManager, Goto, Told
  <2>2. Held
    BY <1>1, <1>2, <1>5, <2>1 DEF BridgeTypeOK, FindManager, Goto, Told
  <2> QED
    BY <1>3, <2>1, <2>2 DEF BridgeInv
<1>6. CASE Lock(c)
  <2>1. BridgeTypeOK' /\ Elsewhere /\ CallInv(c)' /\ lock' = {c} /\ lock = {} /\ stage'[c] = "discover"
    BY <1>1, <1>6 DEF BridgeTypeOK, CallInv, Lock, Goto
  <2>2. Held /\ \A d \in Client \ {c} : stage[d] # "discover"
    BY <1>2, <2>1
  <2> QED
    BY <1>3, <2>1, <2>2
<1>7. CASE DiscoverOne(c)
  <2>1. BridgeTypeOK' /\ Elsewhere /\ UNCHANGED <<lock, stage>> /\ c \in lock
    BY <1>1, <1>2, <1>7 DEF BridgeTypeOK, DiscoverOne
  <2>2. next \in Nat /\ next' = next + 1 /\ next < Len(Bridged) /\ up' = up \cup {Bridged[next + 1]}
    BY <1>1, <1>7 DEF BridgeTypeOK, DiscoverOne
  <2>3. next' <= Len(Bridged) /\ \A j \in 1..next' : j \in 1..next \/ j = next + 1
    BY <1>1, <2>2
  <2>4. \A j \in 1..next' : Bridged[j] \in up'
    BY <1>1, <1>7, <2>2, <2>3 DEF CallInv, DiscoverOne
  <2>5. CallInv(c)'
    BY <1>1, <1>7, <2>3, <2>4 DEF CallInv, DiscoverOne
  <2> QED
    BY <1>2, <1>3, <2>1, <2>5 DEF BridgeInv
<1>8. ASSUME NEW text \in {"ok", "error"}, NEW still, Unlock(c, text, still), c \in lock,
             UNCHANGED <<listingVars, target, next, outcome, sent>>,
             text = "ok" => sent[c] = 1 /\ still = {}
      PROVE  BridgeInv'
  <2>1. BridgeTypeOK' /\ Elsewhere /\ stage'[c] = "done" /\ reply'[c] = text /\ leftUp'[c] = still
        /\ sent' = sent /\ outcome' = outcome /\ lock' = {}
    BY <1>1, <1>8 DEF BridgeTypeOK, Unlock, Told, Goto
  <2>2. CallInv(c)'
    BY <1>1, <1>8, <2>1 DEF CallInv
  <2>3. Held
    BY <1>1, <1>2, <1>8, <2>1
  <2> QED
    BY <1>2, <1>3, <1>8, <2>1, <2>2, <2>3
<1>9. CASE DiscoverOneFails(c)
  BY <1>2, <1>8, <1>9 DEF DiscoverOneFails
<1>10. CASE MakeCall(c)
  <2>1. /\ Elsewhere /\ UNCHANGED <<lock, target, next, reply, leftUp>>
        /\ c \in lock /\ stage'[c] = "shutdown" /\ reply[c] = "none"
        /\ stage' \in [Client -> {"start", "checked", "lock", "discover", "shutdown", "done"}]
    BY <1>1, <1>2, <1>10 DEF BridgeTypeOK, MakeCall, Goto, CallInv
  <2>2. sent[c] = 0 /\ outcome[c] # "result"
    BY <1>1, <1>10 DEF CallInv, MakeCall
  <2>3. /\ outcome' \in [Client -> {"none", "result", "error"}] /\ sent' \in [Client -> Nat]
        /\ sent'[c] <= 1 /\ (outcome'[c] = "result" => sent'[c] = 1)
    <3>1. outcome \in [Client -> {"none", "result", "error"}] /\ sent \in [Client -> Nat]
      BY <1>1 DEF BridgeTypeOK
    <3>2. CASE outcome' = [outcome EXCEPT ![c] = "error"] /\ UNCHANGED sent
      BY <2>2, <3>1, <3>2
    <3>3. CASE /\ sent' = [sent EXCEPT ![c] = @ + 1]
               /\ \/ outcome' = [outcome EXCEPT ![c] = "result"]
                  \/ outcome' = [outcome EXCEPT ![c] = "error"]
      <4>1. sent[c] + 1 = 1 /\ sent' \in [Client -> Nat] /\ sent'[c] = 1
        BY <2>2, <3>1, <3>3
      <4> QED
        BY <3>1, <3>3, <4>1
    <3> QED
      BY <1>10, <3>2, <3>3 DEF MakeCall
  <2>4. BridgeTypeOK' /\ CallInv(c)'
    BY <1>1, <2>1, <2>3 DEF BridgeTypeOK, CallInv
  <2>5. Held
    BY <1>1, <1>2, <2>1
  <2> QED
    BY <1>2, <1>3, <2>1, <2>4, <2>5 DEF BridgeInv
<1>11. CASE ShutdownAll(c)
  <2>1. c \in lock /\ (outcome[c] = "result" => sent[c] = 1)
    BY <1>1, <1>2, <1>11 DEF CallInv, ShutdownAll
  <2> QED
    BY <1>8, <1>11, <2>1 DEF ShutdownAll
<1> QED
  BY <1>4, <1>5, <1>6, <1>7, <1>9, <1>10, <1>11 DEF CallStep

\* However the calls of several threads and changes of the registry interleave, a call
\* told to have succeeded was served exactly once and left nothing running, and a refused
\* one never reached a server.
THEOREM BridgeServesOnce == BridgeSpec => []BridgeServes
<1>1. BridgeInit => BridgeInv
  BY ServersAsNumbered DEF BridgeInit, BridgeInv, BridgeTypeOK, CallInv
<1>2. BridgeInv /\ [BridgeNext]_bridgeVars => BridgeInv'
  <2> SUFFICES ASSUME BridgeInv, [BridgeNext]_bridgeVars PROVE BridgeInv'
    OBVIOUS
  <2>1. CASE UNCHANGED callVars
    BY <2>1 DEF callVars, BridgeInv, BridgeTypeOK, CallInv
  <2>2. CASE \E c \in Client : CallStep(c)
    BY <2>2, CallStepKeeps
  <2> QED
    BY <2>1, <2>2 DEF BridgeNext, bridgeVars, SetManager, RegisterServer, SetAuthStatus, DisconnectServer
<1>3. BridgeInv => BridgeServes
  BY ServersAsNumbered DEF BridgeInv, CallInv, BridgeServes
<1> QED
  BY <1>1, <1>2, <1>3, PTL DEF BridgeSpec
-----------------------------------------------------------------------------
(***************************************************************************)
(* What decides about a call, for every question that is well put.         *)
(***************************************************************************)
Optional(S) == {Unset} \cup {<<v>> : v \in S}
Hint == {"destructive", "openWorld", "readOnly"}
MountList == SUBSET STRING
WordsOf == Seq({" ", "-"} \X (STRING \ {""}))
CommandLineOf == [first : STRING, rest : WordsOf, has : SUBSET STRING]
SandboxWish == [enabled : Optional(BOOLEAN), namespaces : Optional(BOOLEAN), network : Optional(BOOLEAN),
                files : Optional({"off", "workspace-only", "allow-list"}), mounts : Optional(MountList)]
SandboxSettings == [enabled : Optional(BOOLEAN), namespaces : Optional(BOOLEAN), network : Optional(BOOLEAN),
                    files : Optional({"off", "workspace-only", "allow-list"}), mounts : MountList]

PermissionAsked(q) == q.request \in Permission!Request
GateAsked(q) ==
    /\ q.plugins \in Seq([name : STRING, requires : STRING])
    /\ q.mcp \in [servers : SUBSET STRING, tools : Seq([name : STRING, hints : SUBSET Hint])]
    /\ q.allowed \in Optional(SUBSET STRING)
SandboxAsked(q) ==
    /\ q.loads \in BOOLEAN /\ q.works \in BOOLEAN
    /\ q.config \in SandboxSettings /\ q.input \in SandboxWish
CommandAsked(q) == q.command \in CommandLineOf
EnforcerAsked(q) ==
    /\ q.command \in CommandLineOf /\ q.root \in Seq(STRING)
    /\ q.path \in [absolute : BOOLEAN, parts : Seq(STRING)]

WellAsked ==
    /\ Asked("permission") => PermissionAsked(question)
    /\ Asked("gate") => GateAsked(question)
    /\ Asked("sandbox") => SandboxAsked(question)
    /\ Asked("command") => CommandAsked(question)
    /\ Asked("enforcer") => EnforcerAsked(question)
-----------------------------------------------------------------------------
LEMMA Cascade ==
    ASSUME NEW q \in Permission!Request
    PROVE  Permission!AuthorizeWithContext(q) <=> Permission!ClosedForm(q)
<1>1. /\ q.mode \in Permission!PermissionMode /\ q.required \in Permission!ToolPermission
      /\ q.override \in Permission!PermissionOverride
  BY DEF Permission!Request
<1>2. /\ Permission!Rank["Prompt"] = 3 /\ Permission!Rank["Allow"] = 4
      /\ \A r \in Permission!ToolPermission : Permission!Rank[r] \in 0..2
  BY DEF Permission!Rank, Permission!ToolPermission
<1>3. Permission!Granted(q) <=> q.allow \/ Permission!Rank[q.mode] >= Permission!Rank[q.required] \/ q.mode = "Allow"
  BY DEF Permission!Granted
<1>4. ~Permission!Granted(q) =>
         (Permission!Escalates(q) <=> q.mode = "WorkspaceWrite" /\ q.required = "DangerFullAccess")
  BY <1>1, <1>2 DEF Permission!Granted, Permission!Escalates
<1> QED
  BY <1>1, <1>3, <1>4 DEF Permission!AuthorizeWithContext, Permission!ClosedForm, Permission!PromptOrDeny,
                         Permission!PermissionOverride

LEMMA CascadeIsDecided ==
    ASSUME Asked("permission") => PermissionAsked(question)
    PROVE  PermissionDecided
<1> SUFFICES ASSUME Asked("permission"), NEW q, q = question.request
             PROVE  /\ Permission!AuthorizeWithContext(q) <=> Permission!ClosedForm(q)
                    /\ q.answer = "absent" /\ Permission!AuthorizeWithContext(q) => Permission!EnforcerCheck(q)
  BY DEF PermissionDecided
<1>1. q \in Permission!Request
  BY DEF PermissionAsked
<1>2. Permission!AuthorizeWithContext(q) <=> Permission!ClosedForm(q)
  BY <1>1, Cascade
<1>3. ASSUME q.answer = "absent", Permission!ClosedForm(q) PROVE Permission!EnforcerCheck(q)
  <2>1. PICK p : p = [[q EXCEPT !.answer = "absent"] EXCEPT !.override = "None"]
    OBVIOUS
  <2>2. /\ p.override = "None" /\ p.deny = q.deny /\ p.ask = q.ask /\ p.allow = q.allow
        /\ p.mode = q.mode /\ p.required = q.required /\ p.answer = q.answer
    BY <1>1, <1>3, <2>1 DEF Permission!Request
  <2>3. p \in Permission!Request
    BY <1>1, <2>1 DEF Permission!Request, Permission!PermissionOverride, Permission!Answer
  <2>4. Permission!ClosedForm(p)
    BY <1>3, <2>2 DEF Permission!ClosedForm
  <2>5. Permission!AuthorizeWithContext(p)
    BY <2>3, <2>4, Cascade
  <2> QED
    BY <2>1, <2>5 DEF Permission!EnforcerCheck, Permission!Authorize
<1> QED
  BY <1>2, <1>3

LEMMA OrIs ==
    ASSUME NEW S, NEW given \in Optional(S), NEW default \in S
    PROVE  /\ Or(given, default) \in S
           /\ given # Unset => Or(given, default) = given[1]
  BY DEF Or, Optional, Unset

LEMMA EitherIs ==
    ASSUME NEW S, NEW given \in Optional(S), NEW other \in Optional(S)
    PROVE  /\ Either(given, other) \in Optional(S)
           /\ given # Unset => Either(given, other) = given
  BY DEF Either, Optional

LEMMA RequestIs ==
    ASSUME SandboxAsked(question), NEW r, r = RequestFor(question.input)
    PROVE  /\ r.enabled \in BOOLEAN /\ r.namespaces \in BOOLEAN /\ r.network \in BOOLEAN
           /\ question.input.enabled # Unset => r.enabled = question.input.enabled[1]
<1> DEFINE wish == question.input
           config == IF question.loads THEN question.config ELSE NoConfig
<1>1. /\ config.enabled \in Optional(BOOLEAN) /\ config.namespaces \in Optional(BOOLEAN)
      /\ config.network \in Optional(BOOLEAN)
  BY DEF SandboxAsked, SandboxSettings, NoConfig, Optional
<1>2. /\ wish.enabled \in Optional(BOOLEAN) /\ wish.namespaces \in Optional(BOOLEAN)
      /\ wish.network \in Optional(BOOLEAN)
  BY DEF SandboxAsked, SandboxWish
<1>3. /\ r.enabled = Or(Either(wish.enabled, config.enabled), TRUE)
      /\ r.namespaces = Or(Either(wish.namespaces, config.namespaces), TRUE)
      /\ r.network = Or(Either(wish.network, config.network), FALSE)
  BY DEF RequestFor, ResolveRequest
<1> HIDE DEF wish, config
<1>4. \A given, other \in Optional(BOOLEAN), default \in BOOLEAN :
         /\ Or(Either(given, other), default) \in BOOLEAN
         /\ given # Unset => Or(Either(given, other), default) = given[1]
  <2> SUFFICES ASSUME NEW given \in Optional(BOOLEAN), NEW other \in Optional(BOOLEAN), NEW default \in BOOLEAN
               PROVE  /\ Or(Either(given, other), default) \in BOOLEAN
                      /\ given # Unset => Or(Either(given, other), default) = given[1]
    OBVIOUS
  <2>1. Either(given, other) \in Optional(BOOLEAN) /\ (given # Unset => Either(given, other) = given)
    BY EitherIs
  <2> QED
    BY <2>1, OrIs
<1>5. r.enabled \in BOOLEAN /\ (wish.enabled # Unset => r.enabled = wish.enabled[1])
  BY <1>1, <1>2, <1>3, <1>4
<1>6. r.namespaces \in BOOLEAN /\ r.network \in BOOLEAN
  BY <1>1, <1>2, <1>3, <1>4
<1> QED
  BY <1>5, <1>6 DEF wish

LEMMA SandboxIsTold ==
    ASSUME NEW r, NEW works \in BOOLEAN, NEW s, NEW run,
           r.enabled \in BOOLEAN, r.namespaces \in BOOLEAN, r.network \in BOOLEAN,
           s = SandboxStatus(r, works), run = RunsIn(s)
    PROVE  /\ s.network <=> "net" \in run.unshared
           /\ s.namespace => {"user", "pid"} \subseteq run.unshared
           /\ run.unshared # {} => s.namespace \/ s.network
           /\ s.files => run.home = "sandbox"
           /\ (r.enabled /\ (r.namespaces # s.namespace \/ r.network # s.network)) => s.fallback
<1>1. /\ s.enabled = r.enabled
      /\ s.namespace = (r.enabled /\ r.namespaces /\ works)
      /\ s.network = (r.enabled /\ r.network /\ works)
  BY DEF SandboxStatus
<1>2. r.enabled /\ (r.namespaces \/ r.network) /\ ~works => s.fallback
  BY DEF SandboxStatus
<1>3. CASE s.namespace \/ s.network
  <2>1. /\ run.unshared = {"user", "mount", "ipc", "pid", "uts"} \cup (IF s.network THEN {"net"} ELSE {})
        /\ run.home = "sandbox"
    BY <1>1, <1>3 DEF RunsIn
  <2> QED
    BY <1>1, <1>2, <1>3, <2>1
<1>4. CASE ~(s.namespace \/ s.network)
  <2>1. run.unshared = {} /\ (s.files => run.home = "sandbox")
    BY <1>4 DEF RunsIn
  <2> QED
    BY <1>1, <1>2, <1>4, <2>1
<1> QED
  BY <1>3, <1>4

\* A set of naturals has a least element, and one that is bounded a greatest.
LEMMA LeastOf ==
  ASSUME NEW S, S # {}, S \subseteq Nat
  PROVE  \E m \in S : \A y \in S : m <= y
<1>1. PICK m \in S : \A y \in S : <<y, m>> \notin OpToRel(<, Nat)
  BY NatLessThanWellFounded, WFMin
<1>2. ASSUME NEW y \in S PROVE m <= y
  <2>1. y \in Nat /\ m \in Nat
    OBVIOUS
  <2>2. y < m => <<y, m>> \in OpToRel(<, Nat)
    BY <2>1 DEF OpToRel
  <2>3. ~(y < m)
    BY <1>1, <2>2, Zenon
  <2> QED
    BY <2>1, <2>3
<1> QED
  BY <1>2

LEMMA GreatestOf ==
  ASSUME NEW n \in Nat, NEW S \in SUBSET (1..n), S # {}
  PROVE  Max(S) \in S /\ \A y \in S : y <= Max(S)
<1> DEFINE R == {n - h : h \in S}
<1>1. R # {} /\ R \subseteq Nat
  <2>1. ASSUME NEW h \in S PROVE n - h \in Nat
    OBVIOUS
  <2> QED
    BY <2>1
<1>2. PICK r \in R : \A y \in R : r <= y
  BY <1>1, LeastOf
<1>3. PICK m \in S : r = n - m
  BY <1>2
<1>4. ASSUME NEW y \in S PROVE m >= y
  <2>1. n - y \in R
    OBVIOUS
  <2>2. n - m <= n - y
    BY <1>2, <1>3, <2>1
  <2>3. y \in Int /\ m \in Int /\ n \in Int
    OBVIOUS
  <2> QED
    BY <2>2, <2>3
<1>5. \E x \in S : \A y \in S : x >= y
  BY <1>4
<1>6. Max(S) \in S /\ \A y \in S : Max(S) >= y
  BY <1>5 DEF Max
<1> QED
  BY <1>6

LEMMA FirstOf ==
  ASSUME NEW S, S # {}, S \subseteq Nat
  PROVE  Min(S) \in S /\ \A y \in S : Min(S) <= y
  BY LeastOf DEF Min

LEMMA AllAllow ==
    ASSUME NEW c, NEW mode
    PROVE  ValidateCommand(c, mode) = "allow" <=>
               /\ ValidateMode(c, mode) = "allow" /\ ValidateSed(c, mode) = "allow"
               /\ CheckDestructive(c) = "allow" /\ ValidatePaths(c) = "allow"
<1> DEFINE answers == <<ValidateMode(c, mode), ValidateSed(c, mode), CheckDestructive(c), ValidatePaths(c)>>
           warned == {h \in 1..Len(answers) : answers[h] # "allow"}
<1>1. ValidateCommand(c, mode) = IF (IF warned # {} THEN Min(warned) ELSE 0) = 0 THEN "allow"
                                 ELSE answers[IF warned # {} THEN Min(warned) ELSE 0]
  BY DEF ValidateCommand, SelectInSeq
<1>2. ValidateCommand(c, mode) = "allow" <=> warned = {}
  <2>1. warned \subseteq Nat /\ 0 \notin warned
    OBVIOUS
  <2>2. CASE warned = {}
    BY <1>1, <2>2
  <2>3. CASE warned # {}
    <3>1. Min(warned) \in warned
      BY <2>1, <2>3, FirstOf
    <3>2. answers[Min(warned)] # "allow" /\ Min(warned) # 0
      BY <2>1, <3>1
    <3> HIDE DEF answers, warned
    <3> QED
      BY <1>1, <2>3, <3>2
  <2> QED
    BY <2>2, <2>3
<1>3. Len(answers) = 4
  OBVIOUS
<1>4. warned = {} <=> answers[1] = "allow" /\ answers[2] = "allow" /\ answers[3] = "allow" /\ answers[4] = "allow"
  BY <1>3
<1> QED
  BY <1>2, <1>4

LEMMA OperandIs ==
    ASSUME NEW words \in WordsOf
    PROVE  WordOf(Operand(words)) = "" <=> Operand(words) = <<>>
<1> DEFINE names == {h \in 1..Len(words) : words[h][1] # "-"}
           at == IF names # {} THEN Min(names) ELSE 0
<1>1. Operand(words) = IF at = 0 THEN <<>> ELSE SubSeq(words, at, Len(words))
  BY DEF Operand, SelectInSeq
<1>2. CASE names = {}
  BY <1>1, <1>2 DEF WordOf
<1>3. CASE names # {}
  <2>1. names \subseteq Nat
    OBVIOUS
  <2>2. Min(names) \in names
    BY <1>3, <2>1, FirstOf
  <2> HIDE DEF names
  <2>3. at \in 1..Len(words)
    BY <1>3, <2>2 DEF names
  <2>8. PICK W : W = {" ", "-"} \X (STRING \ {""})
    OBVIOUS
  <2>9. words \in Seq(W)
    BY <2>8 DEF WordsOf
  <2> HIDE DEF at
  <2>4. SubSeq(words, at, Len(words))[1] = words[at] /\ SubSeq(words, at, Len(words)) # <<>>
    BY <2>3, <2>9
  <2>5. words[at] \in W
    BY <2>3, <2>9
  <2>6. words[at][2] # ""
    BY <2>5, <2>8
  <2> QED
    BY <1>1, <2>3, <2>4, <2>6 DEF WordOf, at
<1> QED
  BY <1>2, <1>3

LEMMA ReadOnlyIsNoWrite ==
    ASSUME NEW c \in CommandLineOf, ValidateCommand(c, "read-only") = "allow"
    PROVE  /\ ClassifyCommand(c) \in {"Write", "Destructive"} => c.first = "git" /\ Operand(c.rest) = <<>>
           /\ ClassifyCommand(c) = "PackageManagement" => c.first \in {"snap", "flatpak"}
<1>1. /\ ReadOnlyAllows(c)
      /\ ~(c.first = "sed" /\ " -i" \in c.has)
      /\ c.first \notin AlwaysDestructive
  BY AllAllow DEF ValidateMode, ValidateSed, CheckDestructive
<1>2. c.first \notin WriteCommands /\ c.first \notin StateModifyingCommands /\ (c.first = "git" => GitAllowed(c))
  BY <1>1 DEF ReadOnlyAllows
<1>3. "rm" \in WriteCommands
  BY DEF WriteCommands
<1>4. ClassifyCommand(c) \in {"Write", "Destructive"} => c.first = "git" /\ WordOf(Operand(c.rest)) \notin GitReadOnly
  BY <1>1, <1>2, <1>3 DEF ClassifyCommand
<1>5. ClassifyCommand(c) = "PackageManagement" => c.first \in PackageCommands
  BY DEF ClassifyCommand
<1>6. c.rest \in WordsOf
  BY DEF CommandLineOf
<1>7. c.first = "git" /\ WordOf(Operand(c.rest)) \notin GitReadOnly => Operand(c.rest) = <<>>
  BY <1>2, <1>6, OperandIs DEF GitAllowed
<1>8. PackageCommands \subseteq StateModifyingCommands \cup {"snap", "flatpak"}
  BY DEF PackageCommands, StateModifyingCommands
<1> QED
  BY <1>2, <1>4, <1>5, <1>7, <1>8

LEMMA LaxerPasses ==
    ASSUME NEW c, NEW h \in 1..3, NEW j \in 1..3, h < j, ValidateCommand(c, Strictness[h]) = "allow"
    PROVE  ValidateCommand(c, Strictness[j]) = "allow"
<1>1. /\ Strictness[1] = "read-only" /\ Strictness[2] = "workspace-write"
      /\ Strictness[3] = "danger-full-access"
  BY DEF Strictness
<1>2. CASE h = 1 /\ j = 2
  <2>1. ValidateMode(c, "workspace-write") = "allow"
    BY <1>1, <1>2, AllAllow DEF ValidateMode, ReadOnlyAllows
  <2> QED
    BY <1>1, <1>2, <2>1, AllAllow DEF ValidateSed
<1>3. CASE j = 3
  <2>1. ValidateMode(c, "danger-full-access") = "allow"
    BY DEF ValidateMode
  <2> QED
    BY <1>1, <1>3, <2>1, AllAllow DEF ValidateSed
<1> QED
  BY <1>2, <1>3

LEMMA CommandIsJudged ==
    ASSUME Asked("command") => CommandAsked(question), Asked("command"), NEW c, c = question.command
    PROVE  /\ ValidateCommand(c, "read-only") = "allow" =>
                 /\ (ClassifyCommand(c) \in {"Write", "Destructive"} => c.first = "git" /\ Operand(c.rest) = <<>>)
                 /\ ClassifyCommand(c) = "PackageManagement" => c.first \in {"snap", "flatpak"}
           /\ \A h, j \in 1..3 : h < j /\ ValidateCommand(c, Strictness[h]) = "allow" =>
                                    ValidateCommand(c, Strictness[j]) = "allow"
<1>1. c \in CommandLineOf
  BY DEF CommandAsked
<1>2. \A h, j \in 1..3 : h < j /\ ValidateCommand(c, Strictness[h]) = "allow" => ValidateCommand(c, Strictness[j]) = "allow"
  BY LaxerPasses
<1> QED
  BY <1>1, <1>2, ReadOnlyIsNoWrite

LEMMA EnforcerReads ==
    ASSUME NEW c, CheckBash(c, "read-only")
    PROVE  \/ ClassifyCommand(c) \in {"ReadOnly", "Unknown"}
           \/ c.first \in {"tee", "git", "cargo"} \/ (c.first = "sed" /\ " -i" \in c.has)
<1>1. c.first \in EnforcerReadOnly
  BY DEF CheckBash, IsReadOnlyCommand
<1>2. CASE c.first \in ReadOnlyCommands
  BY <1>2 DEF ClassifyCommand
<1>3. CASE c.first \notin ReadOnlyCommands /\ c.first \notin {"tee", "git", "cargo"}
  <2>1. EnforcerReadOnly \subseteq ReadOnlyCommands \cup
            {"rg", "where", "tee", "type", "b3sum", "python3", "python", "node", "ruby", "cargo", "rustc", "git", "gh"}
    BY DEF EnforcerReadOnly, ReadOnlyCommands
  <2>2. c.first \in {"rg", "where", "type", "b3sum", "python3", "python", "node", "ruby", "rustc", "gh"}
    BY <1>1, <1>3, <2>1
  <2>3. c.first \notin WriteCommands
    BY <2>2 DEF WriteCommands
  <2>4. c.first \notin AlwaysDestructive /\ c.first # "rm"
    BY <2>2 DEF AlwaysDestructive
  <2>5. c.first \notin NetworkCommands
    BY <2>2 DEF NetworkCommands
  <2>6. c.first \notin ProcessCommands
    BY <2>2 DEF ProcessCommands
  <2>7. c.first \notin PackageCommands
    BY <2>2 DEF PackageCommands
  <2>8. c.first \notin SystemAdminCommands
    BY <2>2 DEF SystemAdminCommands
  <2> QED
    BY <1>3, <2>3, <2>4, <2>5, <2>6, <2>7, <2>8 DEF ClassifyCommand
<1> QED
  BY <1>2, <1>3

LEMMA PrefixOfBoth ==
    ASSUME NEW S, NEW s \in Seq(S), NEW t \in Seq(S)
    PROVE  IsPrefix(s, s \o t)
<1>1. PICK u : u = s \o t
  OBVIOUS
<1>2. Len(s) \in Nat /\ Len(t) \in Nat
  OBVIOUS
<1>3. u \in Seq(S) /\ Len(u) = Len(s) + Len(t)
  BY <1>1, ConcatProperties, Zenon
<1>4. \A h \in 1..Len(s) + Len(t) : u[h] = IF h <= Len(s) THEN s[h] ELSE t[h - Len(s)]
  BY <1>1, ConcatProperties, Zenon
<1>5. \A h \in 1..Len(s) : u[h] = s[h] /\ s[h] \in S /\ u[h] \in S
  BY <1>2, <1>4
<1>6. SubSeq(s, 1, Len(s)) \in Seq(S) /\ Len(SubSeq(s, 1, Len(s))) = Len(s)
      /\ \A h \in 1..Len(s) : SubSeq(s, 1, Len(s))[h] = s[h]
  BY <1>2, <1>5
<1>7. SubSeq(u, 1, Len(s)) \in Seq(S) /\ Len(SubSeq(u, 1, Len(s))) = Len(s)
      /\ \A h \in 1..Len(s) : SubSeq(u, 1, Len(s))[h] = u[h]
  BY <1>2, <1>3, <1>5
<1>8. SubSeq(s, 1, Len(s)) = SubSeq(u, 1, Len(s))
  BY <1>5, <1>6, <1>7, SeqEqual
<1> QED
  BY <1>1, <1>2, <1>3, <1>8 DEF IsPrefix

LEMMA EnforcerIsJudged ==
    ASSUME Asked("enforcer") => EnforcerAsked(question), Asked("enforcer"),
           NEW c, c = question.command, NEW path, path = question.path, NEW root, root = question.root,
           NEW leads, leads = IF path.absolute THEN path.parts ELSE root \o path.parts
    PROVE  /\ \A h, j \in 1..3 : h < j => /\ CheckBash(c, Strictness[h]) => CheckBash(c, Strictness[j])
                                          /\ CheckFileWrite(path, root, Strictness[h]) =>
                                                CheckFileWrite(path, root, Strictness[j])
           /\ ~CheckBash(c, "prompt") /\ ~CheckFileWrite(path, root, "prompt")
           /\ CheckFileWrite(path, root, "workspace-write") /\ ".." \notin ToSet(path.parts) => IsPrefix(root, leads)
<1>1. /\ Strictness[1] = "read-only" /\ Strictness[2] = "workspace-write"
      /\ Strictness[3] = "danger-full-access"
  BY DEF Strictness
<1>2. ASSUME NEW h \in 1..3, NEW j \in 1..3, h < j
      PROVE  /\ CheckBash(c, Strictness[h]) => CheckBash(c, Strictness[j])
             /\ CheckFileWrite(path, root, Strictness[h]) => CheckFileWrite(path, root, Strictness[j])
  <2>1. (h = 1 /\ j = 2) \/ j = 3
    BY <1>2
  <2> QED
    BY <1>1, <2>1 DEF CheckBash, CheckFileWrite
<1>3. ~CheckBash(c, "prompt") /\ ~CheckFileWrite(path, root, "prompt")
  BY DEF CheckBash, CheckFileWrite
<1>4. ASSUME CheckFileWrite(path, root, "workspace-write") PROVE IsPrefix(root, leads)
  <2>1. root \in Seq(STRING) /\ path.parts \in Seq(STRING)
    BY DEF EnforcerAsked
  <2>2. CASE path.absolute
    BY <1>4, <2>2 DEF CheckFileWrite, IsWithinWorkspace
  <2>3. CASE ~path.absolute
    <3>1. leads = root \o path.parts
      BY <2>3
    <3> QED
      BY <2>1, <3>1, PrefixOfBoth
  <2> QED
    BY <2>2, <2>3
<1> QED
  BY <1>2, <1>3, <1>4

LEMMA BashIsJudged == ASSUME WellAsked PROVE BashJudged
<1>1. ASSUME Asked("sandbox"), NEW r, r = RequestFor(question.input),
             NEW s, s = SandboxStatus(r, question.works), NEW run, run = RunsIn(s)
      PROVE  /\ s.network <=> "net" \in run.unshared
             /\ s.namespace => {"user", "pid"} \subseteq run.unshared
             /\ run.unshared # {} => s.namespace \/ s.network
             /\ s.files => run.home = "sandbox"
             /\ (r.enabled /\ (r.namespaces # s.namespace \/ r.network # s.network)) => s.fallback
             /\ question.input.enabled # Unset => r.enabled = question.input.enabled[1]
  <2>1. SandboxAsked(question)
    BY <1>1 DEF WellAsked
  <2>2. question.works \in BOOLEAN
    BY <2>1 DEF SandboxAsked
  <2>3. /\ r.enabled \in BOOLEAN /\ r.namespaces \in BOOLEAN /\ r.network \in BOOLEAN
        /\ question.input.enabled # Unset => r.enabled = question.input.enabled[1]
    BY <1>1, <2>1, RequestIs
  <2>4. /\ s.network <=> "net" \in run.unshared
        /\ s.namespace => {"user", "pid"} \subseteq run.unshared
        /\ run.unshared # {} => s.namespace \/ s.network
        /\ s.files => run.home = "sandbox"
        /\ (r.enabled /\ (r.namespaces # s.namespace \/ r.network # s.network)) => s.fallback
    BY <1>1, <2>2, <2>3, SandboxIsTold
  <2> QED
    BY <2>3, <2>4
<1>2. ASSUME Asked("enforcer"), CheckBash(question.command, "read-only")
      PROVE  \/ ClassifyCommand(question.command) \in {"ReadOnly", "Unknown"}
             \/ question.command.first \in {"tee", "git", "cargo"}
             \/ (question.command.first = "sed" /\ " -i" \in question.command.has)
  BY <1>2, EnforcerReads
<1>3. /\ Asked("command") => CommandAsked(question)
      /\ Asked("enforcer") => EnforcerAsked(question)
  BY DEF WellAsked
<1> QED
  BY <1>1, <1>2, <1>3, CommandIsJudged, EnforcerIsJudged DEF BashJudged
-----------------------------------------------------------------------------
(* The registry of a session.                                              *)

LEMMA BuiltinNames ==
    DOMAIN Builtin = UNION {DOMAIN part : part \in Parts}
  BY DEF Builtin

LEMMA BuiltinHas ==
    /\ {"read_file", "glob_search", "grep_search", "WebFetch", "write_file", "edit_file", "bash"} \subseteq DOMAIN Builtin
    /\ {"WebSearch", "Skill", "ToolSearch", "Sleep", "SendUserMessage", "TodoWrite", "NotebookEdit"} \subseteq DOMAIN Builtin
    /\ {"StructuredOutput", "Config", "REPL", "PowerShell"} \subseteq DOMAIN Builtin
<1>1. DOMAIN FileSpecs = {"read_file", "glob_search", "grep_search", "WebFetch"} \cup {"write_file", "edit_file"} \cup {"bash"}
  BY DEF FileSpecs, Requiring
<1>2. DOMAIN WorkSpecs = {"WebSearch", "Skill", "ToolSearch", "Sleep", "SendUserMessage"}
                         \cup {"TodoWrite", "NotebookEdit"} \cup {"Agent"}
  BY DEF WorkSpecs, Requiring
<1>3. DOMAIN ModeSpecs = {"StructuredOutput", "AskUserQuestion"} \cup {"Config", "EnterPlanMode", "ExitPlanMode"}
                         \cup {"REPL", "PowerShell", "TaskCreate", "RunTaskPacket"}
  BY DEF ModeSpecs, Requiring
<1>4. DOMAIN FileSpecs \subseteq DOMAIN Builtin /\ DOMAIN WorkSpecs \subseteq DOMAIN Builtin
      /\ DOMAIN ModeSpecs \subseteq DOMAIN Builtin
  BY BuiltinNames DEF Parts
<1> QED
  BY <1>1, <1>2, <1>3, <1>4

LEMMA AgentsTools ==
    ASSUME NEW kind \in Kinds \cup {"reviewer"}
    PROVE  AllowedTools(kind) \subseteq (DOMAIN Builtin \cap Dispatched) \ {"Agent"}
<1>1. Reading \subseteq DOMAIN Builtin \ {"Agent"}
  BY BuiltinHas DEF Reading
<1>2. Looking \subseteq DOMAIN Builtin \ {"Agent"}
  BY <1>1, BuiltinHas DEF Looking
<1>3. DOMAIN Builtin \subseteq Dispatched
  BY DEF Dispatched
<1>4. AllowedTools(kind) \subseteq DOMAIN Builtin \ {"Agent"}
  BY <1>1, <1>2, BuiltinHas DEF AllowedTools
<1> QED
  BY <1>3, <1>4

Label == {ReadOnly, WorkspaceWrite, DangerFullAccess}
ToolName == STRING \cup {"MCPTool", "ListMcpResourcesTool", "ReadMcpResourceTool"}
RegistryTool == [name : ToolName, requires : Label]

LEMMA RuntimeIs ==
    ASSUME NEW q, GateAsked(q)
    PROVE  /\ RuntimeTools(q.mcp) \in Seq(RegistryTool)
           /\ Len(q.mcp.tools) <= Len(RuntimeTools(q.mcp))
           /\ \A h \in DOMAIN q.mcp.tools :
                 /\ h \in DOMAIN RuntimeTools(q.mcp)
                 /\ RuntimeTools(q.mcp)[h] = [name |-> q.mcp.tools[h].name,
                                              requires |-> PermissionModeForMcpTool(q.mcp.tools[h].hints)]
<1> DEFINE own == [h \in DOMAIN q.mcp.tools |-> [name |-> q.mcp.tools[h].name,
                                                  requires |-> PermissionModeForMcpTool(q.mcp.tools[h].hints)]]
           more == IF q.mcp.servers # {} THEN Wrappers ELSE <<>>
<1>1. q.mcp.tools \in Seq([name : STRING, hints : SUBSET Hint])
  BY DEF GateAsked
<1>2. \A hints : PermissionModeForMcpTool(hints) \in Label
  BY DEF PermissionModeForMcpTool, Label
<1>3. own \in Seq(RegistryTool) /\ Len(own) = Len(q.mcp.tools)
  <2>5. PICK M : M = [name : STRING, hints : SUBSET Hint]
    OBVIOUS
  <2>6. PICK listed : listed = q.mcp.tools
    OBVIOUS
  <2>7. listed \in Seq(M)
    BY <1>1, <2>5, <2>6
  <2>8. \A h \in 1..Len(listed) : listed[h] \in M
    BY <2>7
  <2>1. \A h \in 1..Len(q.mcp.tools) : q.mcp.tools[h].name \in STRING
    BY <2>5, <2>6, <2>8
  <2>2. \A h \in 1..Len(q.mcp.tools) : own[h] \in RegistryTool
    BY <1>2, <2>1 DEF RegistryTool, ToolName
  <2>3. DOMAIN own = 1..Len(q.mcp.tools) /\ Len(q.mcp.tools) \in Nat
    BY <1>1
  <2> HIDE DEF own
  <2>4. own = [h \in 1..Len(q.mcp.tools) |-> own[h]]
    BY <2>3 DEF own
  <2> QED
    BY <2>2, <2>3, <2>4
<1>4. more \in Seq(RegistryTool)
  <2>1. Wrappers \in Seq(RegistryTool)
    BY DEF Wrappers, RegistryTool, ToolName, Label
  <2> QED
    BY <2>1
<1>5. RuntimeTools(q.mcp) = own \o more
  BY DEF RuntimeTools
<1> HIDE DEF own, more
<1>6. /\ own \o more \in Seq(RegistryTool) /\ Len(own \o more) = Len(own) + Len(more)
      /\ \A h \in 1..Len(own) + Len(more) : (own \o more)[h] = IF h <= Len(own) THEN own[h] ELSE more[h - Len(own)]
  BY <1>3, <1>4, ConcatProperties, Zenon
<1>7. Len(own) \in Nat /\ Len(more) \in Nat
  BY <1>3, <1>4
<1>8. \A h \in DOMAIN q.mcp.tools : h \in 1..Len(own) /\ own[h] = [name |-> q.mcp.tools[h].name,
                                              requires |-> PermissionModeForMcpTool(q.mcp.tools[h].hints)]
  BY <1>1, <1>3 DEF own
<1>9. Len(own) <= Len(own \o more)
  BY <1>6, <1>7
<1>10. \A h \in 1..Len(own) : h \in 1..Len(own \o more) /\ (own \o more)[h] = own[h]
  BY <1>6, <1>7
<1>11. DOMAIN (own \o more) = 1..Len(own \o more)
  BY <1>6
<1> QED
  BY <1>3, <1>5, <1>6, <1>8, <1>9, <1>10, <1>11

\* What the registry of a session is known to hold, when it was built: R are the tools
\* of MCP servers and P those of plugins.
Registered(R, P) ==
    /\ R \in Seq(RegistryTool) /\ P \in Seq(RegistryTool)
    /\ \A h, j \in DOMAIN R : R[h].name = R[j].name => h = j
    /\ \A h, j \in DOMAIN P : P[h].name = P[j].name => h = j
    /\ \A h \in DOMAIN R : R[h].name \notin DOMAIN Builtin
    /\ \A h \in DOMAIN P : P[h].name \notin DOMAIN Builtin
    /\ \A h \in DOMAIN R : \A j \in DOMAIN P : R[h].name # P[j].name

LEMMA NamesAre ==
    ASSUME NEW S, NEW tools \in Seq(S)
    PROVE  /\ DOMAIN NamesOf(tools) = DOMAIN tools
           /\ \A h \in DOMAIN tools : NamesOf(tools)[h] = tools[h].name
           /\ \A n : n \in ToSet(NamesOf(tools)) <=> \E h \in DOMAIN tools : tools[h].name = n
  BY DEF NamesOf, ToSet

LEMMA NoDuplicates ==
    ASSUME NEW S, NEW tools \in Seq(S), ~HasDuplicates(NamesOf(tools)),
           NEW h \in DOMAIN tools, NEW j \in DOMAIN tools, tools[h].name = tools[j].name
    PROVE  h = j
<1>1. DOMAIN NamesOf(tools) = DOMAIN tools /\ NamesOf(tools)[h] = NamesOf(tools)[j]
  BY NamesAre
<1>2. ~(h < j) /\ ~(j < h)
  BY <1>1 DEF HasDuplicates
<1>3. h \in Int /\ j \in Int
  OBVIOUS
<1> QED
  BY <1>2, <1>3

LEMMA BuiltIsRegistered ==
    ASSUME NEW q, GateAsked(q), Built(q)
    PROVE  Registered(RuntimeTools(q.mcp), q.plugins)
<1> DEFINE R == RuntimeTools(q.mcp)
           P == q.plugins
<1>1. R \in Seq(RegistryTool)
  BY RuntimeIs
<1>2. PICK M : M = [name : STRING, requires : STRING]
  OBVIOUS
<1>3. P \in Seq(M)
  BY <1>2 DEF GateAsked
<1>4. \A h \in DOMAIN P : P[h] \in M
  BY <1>3
<1>5. \A h \in DOMAIN P : P[h].requires \in Label
  BY DEF Built, PermissionLabels, Label
<1> HIDE DEF R, P
<1>6. P \in Seq(RegistryTool)
  <2>1. \A h \in DOMAIN P : P[h] \in RegistryTool
    BY <1>2, <1>4, <1>5 DEF RegistryTool, ToolName
  <2>2. DOMAIN P = 1..Len(P) /\ Len(P) \in Nat /\ P = [h \in 1..Len(P) |-> P[h]]
    BY <1>3
  <2> QED
    BY <2>1, <2>2
<1>7. ~HasDuplicates(NamesOf(R)) /\ ~HasDuplicates(NamesOf(P))
  BY DEF Built, PluginToolsFit, RuntimeToolsFit, R, P
<1>8. \A n : n \in ToSet(NamesOf(R)) <=> \E h \in DOMAIN R : R[h].name = n
  BY <1>1, NamesAre, Zenon
<1>9. \A n : n \in ToSet(NamesOf(P)) <=> \E h \in DOMAIN P : P[h].name = n
  BY <1>6, NamesAre, Zenon
<1>10. /\ ToSet(NamesOf(P)) \cap DOMAIN Builtin = {}
       /\ ToSet(NamesOf(R)) \cap (DOMAIN Builtin \cup ToSet(NamesOf(P))) = {}
  BY DEF Built, PluginToolsFit, RuntimeToolsFit, R, P
<1>11. \A h, j \in DOMAIN R : R[h].name = R[j].name => h = j
  BY <1>1, <1>7, NoDuplicates, Zenon
<1>12. \A h, j \in DOMAIN P : P[h].name = P[j].name => h = j
  BY <1>6, <1>7, NoDuplicates, Zenon
<1>13. \A h \in DOMAIN R : R[h].name \notin DOMAIN Builtin
  BY <1>8, <1>10
<1>14. \A h \in DOMAIN P : P[h].name \notin DOMAIN Builtin
  BY <1>9, <1>10
<1>15. \A h \in DOMAIN R : \A j \in DOMAIN P : R[h].name # P[j].name
  BY <1>8, <1>9, <1>10
<1> QED
  BY <1>1, <1>6, <1>11, <1>12, <1>13, <1>14, <1>15 DEF Registered, R, P

\* In a sequence of two parts every place is in one of them.
LEMMA InBoth ==
    ASSUME NEW S, NEW s \in Seq(S), NEW t \in Seq(S), NEW u, u = s \o t
    PROVE  /\ \A h \in DOMAIN s : h \in DOMAIN u /\ u[h] = s[h]
           /\ \A h \in DOMAIN t : Len(s) + h \in DOMAIN u /\ u[Len(s) + h] = t[h]
           /\ \A k \in DOMAIN u : \/ k \in DOMAIN s /\ u[k] = s[k]
                                  \/ k - Len(s) \in DOMAIN t /\ u[k] = t[k - Len(s)]
<1>2. Len(s) \in Nat /\ Len(t) \in Nat /\ DOMAIN s = 1..Len(s) /\ DOMAIN t = 1..Len(t)
  OBVIOUS
<1>3. u \in Seq(S) /\ Len(u) = Len(s) + Len(t)
  BY ConcatProperties, Zenon
<1>4. \A h \in 1..Len(s) + Len(t) : u[h] = IF h <= Len(s) THEN s[h] ELSE t[h - Len(s)]
  BY ConcatProperties, Zenon
<1>5. DOMAIN u = 1..Len(s) + Len(t)
  BY <1>3
<1>6. \A h \in DOMAIN s : h \in DOMAIN u /\ u[h] = s[h]
  BY <1>2, <1>4, <1>5
<1>7. \A h \in DOMAIN t : Len(s) + h \in DOMAIN u /\ u[Len(s) + h] = t[h]
  <2>1. ASSUME NEW h \in DOMAIN t PROVE Len(s) + h \in DOMAIN u /\ u[Len(s) + h] = t[h]
    <3>1. Len(s) + h \in 1..Len(s) + Len(t) /\ ~(Len(s) + h <= Len(s)) /\ (Len(s) + h) - Len(s) = h
      BY <1>2
    <3> QED
      BY <1>4, <1>5, <3>1
  <2> QED
    BY <2>1
<1>8. \A k \in DOMAIN u : \/ k \in DOMAIN s /\ u[k] = s[k]
                          \/ k - Len(s) \in DOMAIN t /\ u[k] = t[k - Len(s)]
  <2>1. ASSUME NEW k \in 1..Len(s) + Len(t)
        PROVE  \/ k \in DOMAIN s /\ u[k] = s[k]
               \/ k - Len(s) \in DOMAIN t /\ u[k] = t[k - Len(s)]
    <3>1. CASE k <= Len(s)
      BY <1>2, <1>4, <3>1
    <3>2. CASE ~(k <= Len(s))
      <4>1. k - Len(s) \in 1..Len(t)
        BY <1>2, <3>2
      <4>2. u[k] = t[k - Len(s)]
        BY <1>4, <3>2
      <4> QED
        BY <1>2, <4>1, <4>2
    <3> QED
      BY <3>1, <3>2
  <2> QED
    BY <1>5, <2>1
<1> QED
  BY <1>6, <1>7, <1>8

\* What the policy of a session requires of each name.
PolicyOf(T) == [name \in DOMAIN Builtin \cup ToSet(NamesOf(T)) |->
                   IF {h \in DOMAIN T : T[h].name = name} = {} THEN Builtin[name]
                   ELSE T[Max({h \in DOMAIN T : T[h].name = name})].requires]
PolicyTells(policy, R, P) ==
    /\ \A n \in DOMAIN Builtin : n \in DOMAIN policy /\ policy[n] = Builtin[n]
    /\ \A h \in DOMAIN R : R[h].name \in DOMAIN policy /\ policy[R[h].name] = R[h].requires
    /\ \A h \in DOMAIN P : P[h].name \in DOMAIN policy /\ policy[P[h].name] = P[h].requires
    /\ \A n \in DOMAIN policy : \/ n \in DOMAIN Builtin \/ \E h \in DOMAIN R : R[h].name = n
                                \/ \E h \in DOMAIN P : P[h].name = n

LEMMA LatestIs ==
    ASSUME NEW R, NEW P, Registered(R, P), NEW T, T = R \o P, NEW policy, policy = PolicyOf(T)
    PROVE  PolicyTells(policy, R, P)
<1>2. R \in Seq(RegistryTool) /\ P \in Seq(RegistryTool) /\ T \in Seq(RegistryTool)
  BY DEF Registered
<1>3. /\ \A h \in DOMAIN R : h \in DOMAIN T /\ T[h] = R[h]
      /\ \A h \in DOMAIN P : Len(R) + h \in DOMAIN T /\ T[Len(R) + h] = P[h]
      /\ \A k \in DOMAIN T : \/ k \in DOMAIN R /\ T[k] = R[k]
                             \/ k - Len(R) \in DOMAIN P /\ T[k] = P[k - Len(R)]
  BY <1>2, InBoth, SMT
<1>4. PICK n \in Nat : DOMAIN T = 1..n
  BY <1>2
<1> DEFINE at(name) == {h \in DOMAIN T : T[h].name = name}
<1>5. policy = [name \in DOMAIN Builtin \cup ToSet(NamesOf(T)) |->
                   IF at(name) = {} THEN Builtin[name] ELSE T[Max(at(name))].requires]
  BY DEF PolicyOf
<1>6. \A name : name \in ToSet(NamesOf(T)) <=> \E h \in DOMAIN T : T[h].name = name
  BY <1>2, NamesAre, Zenon
<1>7. \A name : at(name) # {} => Max(at(name)) \in DOMAIN T /\ T[Max(at(name))].name = name
  <2>1. SUFFICES ASSUME NEW name, at(name) # {} PROVE Max(at(name)) \in at(name)
    OBVIOUS
  <2>2. at(name) \in SUBSET (1..n)
    BY <1>4
  <2> HIDE DEF at
  <2> QED
    BY <2>1, <2>2, GreatestOf
<1>8. \A h, j \in DOMAIN T : T[h].name = T[j].name => T[h].requires = T[j].requires
  <2>1. SUFFICES ASSUME NEW h \in DOMAIN T, NEW j \in DOMAIN T, T[h].name = T[j].name
                 PROVE  T[h] = T[j]
    OBVIOUS
  <2>2. CASE h \in DOMAIN R /\ T[h] = R[h]
    <3>1. j \in DOMAIN R /\ T[j] = R[j]
      BY <1>3, <2>1, <2>2 DEF Registered
    <3> QED
      BY <2>1, <2>2, <3>1 DEF Registered
  <2>3. CASE h - Len(R) \in DOMAIN P /\ T[h] = P[h - Len(R)]
    <3>1. j - Len(R) \in DOMAIN P /\ T[j] = P[j - Len(R)]
      BY <1>3, <2>1, <2>3 DEF Registered
    <3> QED
      BY <2>1, <2>3, <3>1 DEF Registered
  <2> QED
    BY <1>3, <2>2, <2>3
<1>9. \A h \in DOMAIN T : T[h].name \in DOMAIN policy /\ policy[T[h].name] = T[h].requires
  <2>1. SUFFICES ASSUME NEW h \in DOMAIN T PROVE T[h].name \in DOMAIN policy /\ policy[T[h].name] = T[h].requires
    OBVIOUS
  <2>2. h \in at(T[h].name)
    OBVIOUS
  <2>3. Max(at(T[h].name)) \in DOMAIN T /\ T[Max(at(T[h].name))].name = T[h].name
    BY <1>7, <2>2
  <2>4. T[Max(at(T[h].name))].requires = T[h].requires
    BY <1>8, <2>3
  <2>5. T[h].name \in ToSet(NamesOf(T))
    BY <1>6
  <2> QED
    BY <1>5, <2>2, <2>4, <2>5
<1>10. \A name \in DOMAIN Builtin : at(name) = {}
  <2>1. SUFFICES ASSUME NEW name \in DOMAIN Builtin, NEW k \in DOMAIN T, T[k].name = name PROVE FALSE
    OBVIOUS
  <2> QED
    BY <1>3, <2>1 DEF Registered
<1>11. \A name \in DOMAIN Builtin : name \in DOMAIN policy /\ policy[name] = Builtin[name]
  BY <1>5, <1>10
<1>12. \A name \in DOMAIN policy : name \in DOMAIN Builtin \/ \E h \in DOMAIN T : T[h].name = name
  BY <1>5, <1>6
<1>13. \A h \in DOMAIN R : R[h].name \in DOMAIN policy /\ policy[R[h].name] = R[h].requires
  BY <1>3, <1>9, Zenon
<1>14. \A h \in DOMAIN P : P[h].name \in DOMAIN policy /\ policy[P[h].name] = P[h].requires
  <2>1. SUFFICES ASSUME NEW h \in DOMAIN P PROVE P[h].name \in DOMAIN policy /\ policy[P[h].name] = P[h].requires
    OBVIOUS
  <2>2. PICK k \in DOMAIN T : T[k] = P[h]
    BY <1>3, <2>1
  <2> QED
    BY <1>9, <2>2
<1>15. \A name \in DOMAIN policy : \/ name \in DOMAIN Builtin \/ \E h \in DOMAIN R : R[h].name = name
                                   \/ \E h \in DOMAIN P : P[h].name = name
  <2>1. \A k \in DOMAIN T : (\E h \in DOMAIN R : R[h].name = T[k].name) \/ (\E h \in DOMAIN P : P[h].name = T[k].name)
    BY <1>3
  <2> QED
    BY <1>12, <2>1
<1> QED
  BY <1>11, <1>13, <1>14, <1>15 DEF PolicyTells

LEMMA PolicyIs ==
    ASSUME NEW q, GateAsked(q), Built(q)
    PROVE  PolicyTells(PermissionSpecs(q), RuntimeTools(q.mcp), q.plugins)
<1>1. Registered(RuntimeTools(q.mcp), q.plugins)
  BY BuiltIsRegistered
<1>2. PermissionSpecs(q) = PolicyOf(RuntimeTools(q.mcp) \o q.plugins)
  BY DEF PermissionSpecs, PolicyOf
<1> QED
  BY <1>1, <1>2, LatestIs

LEMMA NamesSeq ==
    ASSUME NEW tools \in Seq(RegistryTool)
    PROVE  NamesOf(tools) \in Seq(ToolName)
<1>1. \A h \in 1..Len(tools) : tools[h] \in RegistryTool
  OBVIOUS
<1>2. \A h \in 1..Len(tools) : tools[h].name \in ToolName
  BY <1>1 DEF RegistryTool
<1>3. NamesOf(tools) = [h \in 1..Len(tools) |-> tools[h].name]
  BY DEF NamesOf
<1> QED
  BY <1>2, <1>3

LEMMA AliasesLead ==
    ASSUME NEW k \in DOMAIN Aliases
    PROVE  Aliases[k] \in DOMAIN Builtin
<1>1. Aliases[k] \in {"read_file", "write_file", "edit_file", "glob_search", "grep_search"}
  BY DEF Aliases
<1> QED
  BY <1>1, BuiltinHas

\* A name of the map is an alias, or that of a tool whose key it is.
Leads(map, k, names) == IF k \in DOMAIN Aliases THEN map[k] = Aliases[k] /\ map[k] \in names
                        ELSE KeyOf(map[k]) = k /\ map[k] \in names

LEMMA MapLeads ==
    ASSUME NEW q, GateAsked(q), Built(q), NEW map, map = NameMap(q), NEW k \in DOMAIN map, NEW names,
           names = DOMAIN Builtin \cup ToSet(NamesOf(RuntimeTools(q.mcp))) \cup ToSet(NamesOf(q.plugins))
    PROVE  Leads(map, k, names)
<1>1. Registered(RuntimeTools(q.mcp), q.plugins)
  BY BuiltIsRegistered
<1>2. PICK s, t : s = NamesOf(q.plugins) /\ t = NamesOf(RuntimeTools(q.mcp))
  OBVIOUS
<1>3. s \in Seq(ToolName) /\ t \in Seq(ToolName)
  BY <1>1, <1>2, NamesSeq DEF Registered
<1>4. PICK others : others = s \o t
  OBVIOUS
<1>5. others \in Seq(ToolName)
  BY <1>3, <1>4
<1>6. PICK n \in Nat : DOMAIN others = 1..n
  BY <1>5
<1> DEFINE at(key) == {h \in DOMAIN others : KeyOf(others[h]) = key}
<1>7. map = [key \in DOMAIN Aliases \cup DOMAIN BuiltinKeys \cup {KeyOf(name) : name \in ToSet(others)} |->
                IF key \in DOMAIN Aliases THEN Aliases[key]
                ELSE IF at(key) = {} THEN BuiltinKeys[key] ELSE others[Max(at(key))]]
  BY <1>2, <1>4 DEF NameMap, Others
<1>8. CASE k \in DOMAIN Aliases
  BY <1>7, <1>8, AliasesLead DEF Leads
<1>9. CASE k \notin DOMAIN Aliases /\ at(k) # {}
  <2>1. Max(at(k)) \in at(k)
    <3>1. at(k) \in SUBSET (1..n)
      BY <1>6
    <3> HIDE DEF at
    <3> QED
      BY <1>9, <3>1, GreatestOf
  <2>2. map[k] = others[Max(at(k))]
    BY <1>7, <1>9
  <2>3. KeyOf(map[k]) = k
    BY <2>1, <2>2
  <2>4. PICK h \in DOMAIN others : map[k] = others[h]
    BY <2>1, <2>2
  <2>5. map[k] \in ToSet(s) \cup ToSet(t)
    <3>1. (h \in DOMAIN s /\ others[h] = s[h]) \/ (h - Len(s) \in DOMAIN t /\ others[h] = t[h - Len(s)])
      BY <1>3, <1>4, <2>4, InBoth, SMT
    <3> QED
      BY <2>4, <3>1 DEF ToSet
  <2> QED
    BY <1>2, <1>9, <2>3, <2>5 DEF Leads
<1>10. CASE k \notin DOMAIN Aliases /\ at(k) = {}
  <2>1. map[k] = BuiltinKeys[k]
    BY <1>7, <1>10
  <2>2. k \in DOMAIN BuiltinKeys
    <3>1. SUFFICES ASSUME NEW name \in ToSet(others), k = KeyOf(name) PROVE FALSE
      BY <1>7, <1>10
    <3>2. PICK h \in DOMAIN others : name = others[h]
      BY DEF ToSet
    <3> QED
      BY <1>10, <3>1, <3>2
  <2>3. \E name \in DOMAIN Builtin : KeyOf(name) = k
    BY <2>2 DEF BuiltinKeys
  <2>4. BuiltinKeys[k] \in DOMAIN Builtin /\ KeyOf(BuiltinKeys[k]) = k
    BY <2>2, <2>3 DEF BuiltinKeys
  <2> QED
    BY <1>10, <2>1, <2>4 DEF Leads
<1> QED
  BY <1>8, <1>9, <1>10

\* Who has a name: one owner at most.
OwnedOnce(name, R, P) ==
    /\ name \in DOMAIN Builtin => /\ {u \in ToSet(R) : u.name = name} = {}
                                  /\ {u \in ToSet(P) : u.name = name} = {}
    /\ \A h \in DOMAIN R : R[h].name = name => /\ {u \in ToSet(R) : u.name = name} = {R[h]}
                                               /\ {u \in ToSet(P) : u.name = name} = {}
                                               /\ name \notin DOMAIN Builtin
    /\ \A h \in DOMAIN P : P[h].name = name => /\ {u \in ToSet(P) : u.name = name} = {P[h]}
                                               /\ {u \in ToSet(R) : u.name = name} = {}
                                               /\ name \notin DOMAIN Builtin

LEMMA OneOwner ==
    ASSUME NEW R, NEW P, Registered(R, P), NEW name
    PROVE  OwnedOnce(name, R, P)
<1>1. ToSet(R) = {R[h] : h \in DOMAIN R} /\ ToSet(P) = {P[h] : h \in DOMAIN P}
  BY DEF ToSet
<1>2. /\ \A h, j \in DOMAIN R : R[h].name = R[j].name => h = j
      /\ \A h, j \in DOMAIN P : P[h].name = P[j].name => h = j
      /\ \A h \in DOMAIN R : R[h].name \notin DOMAIN Builtin
      /\ \A h \in DOMAIN P : P[h].name \notin DOMAIN Builtin
      /\ \A h \in DOMAIN R : \A j \in DOMAIN P : R[h].name # P[j].name
  BY DEF Registered
<1>3. name \in DOMAIN Builtin => /\ {u \in ToSet(R) : u.name = name} = {}
                                 /\ {u \in ToSet(P) : u.name = name} = {}
  BY <1>1, <1>2
<1>4. ASSUME NEW h \in DOMAIN R, R[h].name = name
      PROVE  /\ {u \in ToSet(R) : u.name = name} = {R[h]}
             /\ {u \in ToSet(P) : u.name = name} = {} /\ name \notin DOMAIN Builtin
  BY <1>1, <1>2, <1>4
<1>5. ASSUME NEW h \in DOMAIN P, P[h].name = name
      PROVE  /\ {u \in ToSet(P) : u.name = name} = {P[h]}
             /\ {u \in ToSet(R) : u.name = name} = {} /\ name \notin DOMAIN Builtin
  BY <1>1, <1>2, <1>5
<1> QED
  BY <1>3, <1>4, <1>5 DEF OwnedOnce

LEMMA GateIsSound == ASSUME WellAsked PROVE GateHolds
<1>1. \A kind \in Kinds \cup {"reviewer"} : AllowedTools(kind) \subseteq (DOMAIN Builtin \cap Dispatched) \ {"Agent"}
  BY AgentsTools
<1> SUFFICES ASSUME Asked("gate"), Built(question), Normalizes(question), NEW q, q = question,
                    NEW s, s = Session(q), NEW shown, shown = Shown(s), NEW R, R = RuntimeTools(q.mcp),
                    NEW P, P = q.plugins
             PROVE  LET mcp == ToSet(R)
                        Declared(name) ==
                            {<<"builtin", Builtin[n]>> : n \in {name} \cap DOMAIN Builtin}
                            \cup {<<"plugin", t.requires>> : t \in {u \in ToSet(P) : u.name = name}}
                            \cup {<<"mcp", t.requires>> : t \in {u \in mcp : u.name = name}}
                        Means(v, n) == IF KeyOf(v) \in DOMAIN Aliases THEN n = Aliases[KeyOf(v)] ELSE KeyOf(n) = KeyOf(v)
                    IN  /\ \A name \in shown :
                              /\ Declared(name) = {<<RunBy(s, name), RequiredMode(s, name)>>}
                              /\ RunBy(s, name) = "builtin" => name \in Dispatched
                        /\ \A name \in q.called \ shown :
                              /\ RunBy(s, name) \in {"refused", "unsupported"}
                              /\ Declared(name) = {} => RequiredMode(s, name) = DangerFullAccess
                        /\ \A t \in ToSet(q.mcp.tools) :
                              RequiredMode(s, t.name) = ReadOnly => t.hints = {"readOnly"}
                        /\ q.allowed # Unset => /\ \A v \in q.allowed[1] : \E n \in shown : Means(v, n)
                                               /\ \A n \in shown : \E v \in q.allowed[1] : Means(v, n)
  BY <1>1 DEF GateHolds
<1>2. GateAsked(q)
  BY DEF WellAsked
<1>3. Registered(R, P) /\ PolicyTells(s.policy, R, P)
  <2>1. s.policy = PermissionSpecs(q)
    BY DEF Session
  <2> QED
    BY <1>2, <2>1, BuiltIsRegistered, PolicyIs
<1>4. /\ s.runtime = ToSet(NamesOf(R)) /\ s.plugin = ToSet(NamesOf(P)) /\ s.allowed = NormalizeAllowedTools(q)
  BY DEF Session
<1>5. /\ \A n : n \in s.runtime <=> \E h \in DOMAIN R : R[h].name = n
      /\ \A n : n \in s.plugin <=> \E h \in DOMAIN P : P[h].name = n
  <2>1. R \in Seq(RegistryTool) /\ P \in Seq(RegistryTool)
    BY <1>3 DEF Registered
  <2>2. \A n : n \in ToSet(NamesOf(R)) <=> \E h \in DOMAIN R : R[h].name = n
    BY <2>1, NamesAre
  <2>3. \A n : n \in ToSet(NamesOf(P)) <=> \E h \in DOMAIN P : P[h].name = n
    BY <2>1, NamesAre
  <2> QED
    BY <1>4, <2>2, <2>3
<1>6. \A n : n \in shown <=> (n \in DOMAIN Builtin \/ n \in s.runtime \/ n \in s.plugin) /\ Enabled(s, n)
  BY DEF Shown
<1> DEFINE Declared(name) == {<<"builtin", Builtin[n]>> : n \in {name} \cap DOMAIN Builtin}
                             \cup {<<"plugin", t.requires>> : t \in {u \in ToSet(P) : u.name = name}}
                             \cup {<<"mcp", t.requires>> : t \in {u \in ToSet(R) : u.name = name}}
           Means(v, n) == IF KeyOf(v) \in DOMAIN Aliases THEN n = Aliases[KeyOf(v)] ELSE KeyOf(n) = KeyOf(v)
<1>7. "ToolSearch" \in DOMAIN Builtin
  BY BuiltinHas
<1>8. \A name : OwnedOnce(name, R, P)
  BY <1>3, OneOwner
<1>9. ASSUME NEW name \in shown
      PROVE  /\ Declared(name) = {<<RunBy(s, name), RequiredMode(s, name)>>}
             /\ RunBy(s, name) = "builtin" => name \in Dispatched
  <2>1. Enabled(s, name)
    BY <1>6
  <2>2. CASE name \in DOMAIN Builtin
    <3>1. {u \in ToSet(R) : u.name = name} = {} /\ {u \in ToSet(P) : u.name = name} = {}
      BY <1>8, <2>2 DEF OwnedOnce
    <3>2. Declared(name) = {<<"builtin", Builtin[name]>>}
      BY <2>2, <3>1
    <3>3. name \notin s.runtime
      BY <1>3, <1>5, <2>2 DEF Registered
    <3>4. RunBy(s, name) = "builtin"
      BY <2>1, <2>2, <3>3 DEF RunBy
    <3>5. RequiredMode(s, name) = Builtin[name]
      BY <1>3, <2>2 DEF RequiredMode, PolicyTells
    <3> QED
      BY <2>2, <3>2, <3>4, <3>5 DEF Dispatched
  <2>3. ASSUME NEW h \in DOMAIN R, R[h].name = name
        PROVE  Declared(name) = {<<RunBy(s, name), RequiredMode(s, name)>>} /\ RunBy(s, name) = "mcp"
    <3>1. /\ {u \in ToSet(R) : u.name = name} = {R[h]} /\ {u \in ToSet(P) : u.name = name} = {}
          /\ name \notin DOMAIN Builtin
      BY <1>8, <2>3 DEF OwnedOnce
    <3>2. Declared(name) = {<<"mcp", R[h].requires>>}
      BY <3>1
    <3>3. name \in s.runtime /\ name # "ToolSearch"
      BY <1>5, <1>7, <2>3, <3>1
    <3>4. RunBy(s, name) = "mcp"
      BY <2>1, <3>3 DEF RunBy
    <3>5. RequiredMode(s, name) = R[h].requires
      BY <1>3, <2>3 DEF RequiredMode, PolicyTells
    <3> QED
      BY <3>2, <3>4, <3>5
  <2>4. ASSUME NEW h \in DOMAIN P, P[h].name = name
        PROVE  Declared(name) = {<<RunBy(s, name), RequiredMode(s, name)>>} /\ RunBy(s, name) = "plugin"
    <3>1. /\ {u \in ToSet(P) : u.name = name} = {P[h]} /\ {u \in ToSet(R) : u.name = name} = {}
          /\ name \notin DOMAIN Builtin
      BY <1>8, <2>4 DEF OwnedOnce
    <3>2. Declared(name) = {<<"plugin", P[h].requires>>}
      BY <3>1
    <3>3. name \in s.plugin /\ name # "ToolSearch" /\ name \notin s.runtime
      BY <1>3, <1>5, <1>7, <2>4, <3>1 DEF Registered
    <3>4. RunBy(s, name) = "plugin"
      BY <2>1, <3>1, <3>3 DEF RunBy
    <3>5. RequiredMode(s, name) = P[h].requires
      BY <1>3, <2>4 DEF RequiredMode, PolicyTells
    <3> QED
      BY <3>2, <3>4, <3>5
  <2> QED
    BY <1>5, <1>6, <2>2, <2>3, <2>4
<1>10. ASSUME NEW name, name \notin shown
      PROVE  /\ RunBy(s, name) \in {"refused", "unsupported"}
             /\ Declared(name) = {} => RequiredMode(s, name) = DangerFullAccess
  <2>1. RunBy(s, name) \in {"refused", "unsupported"}
    BY <1>6, <1>7, <1>10 DEF RunBy
  <2>2. ASSUME Declared(name) = {} PROVE name \notin DOMAIN s.policy
    <3>1. name \notin DOMAIN Builtin
      BY <2>2
    <3>2. \A h \in DOMAIN R : R[h].name # name
      BY <2>2 DEF ToSet
    <3>3. \A h \in DOMAIN P : P[h].name # name
      BY <2>2 DEF ToSet
    <3> QED
      BY <1>3, <3>1, <3>2, <3>3 DEF PolicyTells
  <2> QED
    BY <2>1, <2>2 DEF RequiredMode
<1>11. ASSUME NEW t \in ToSet(q.mcp.tools), RequiredMode(s, t.name) = ReadOnly
       PROVE  t.hints = {"readOnly"}
  <2>1. PICK M : M = [name : STRING, hints : SUBSET Hint]
    OBVIOUS
  <2>2. PICK listed : listed = q.mcp.tools
    OBVIOUS
  <2>3. listed \in Seq(M)
    BY <1>2, <2>1, <2>2 DEF GateAsked
  <2>4. PICK h \in DOMAIN listed : t = listed[h]
    BY <2>2 DEF ToSet
  <2>5. t \in M
    BY <2>3, <2>4
  <2>6. t.hints \in SUBSET Hint
    BY <2>1, <2>5
  <2>7. h \in DOMAIN R /\ R[h] = [name |-> t.name, requires |-> PermissionModeForMcpTool(t.hints)]
    BY <1>2, <2>2, <2>4, RuntimeIs
  <2>8. RequiredMode(s, t.name) = PermissionModeForMcpTool(t.hints)
    BY <1>3, <2>7 DEF RequiredMode, PolicyTells
  <2>9. "destructive" \notin t.hints /\ "openWorld" \notin t.hints /\ "readOnly" \in t.hints
    BY <1>11, <2>8 DEF PermissionModeForMcpTool, ReadOnly, WorkspaceWrite, DangerFullAccess
  <2> QED
    BY <2>6, <2>9 DEF Hint
<1>12. ASSUME q.allowed # Unset
       PROVE  /\ \A v \in q.allowed[1] : \E n \in shown : Means(v, n)
              /\ \A n \in shown : \E v \in q.allowed[1] : Means(v, n)
  <2>1. PICK map : map = NameMap(q)
    OBVIOUS
  <2>2. s.allowed = <<{map[KeyOf(v)] : v \in q.allowed[1]}>>
    BY <1>4, <1>12, <2>1 DEF NormalizeAllowedTools
  <2>3. s.allowed # Unset /\ s.allowed[1] = {map[KeyOf(v)] : v \in q.allowed[1]}
    BY <2>2 DEF Unset
  <2>4. ASSUME NEW v \in q.allowed[1]
        PROVE  map[KeyOf(v)] \in shown /\ Means(v, map[KeyOf(v)])
    <3>1. KeyOf(v) \in DOMAIN map
      BY <1>12, <2>1 DEF Normalizes
    <3>2. Leads(map, KeyOf(v), DOMAIN Builtin \cup s.runtime \cup s.plugin)
      BY <1>2, <1>4, <2>1, <3>1, MapLeads
    <3>3. Enabled(s, map[KeyOf(v)])
      BY <2>3 DEF Enabled
    <3> QED
      BY <1>6, <3>2, <3>3 DEF Leads
  <2>5. ASSUME NEW n \in shown PROVE \E v \in q.allowed[1] : Means(v, n)
    <3>1. n \in s.allowed[1]
      BY <1>6, <2>3 DEF Enabled
    <3>2. PICK v \in q.allowed[1] : n = map[KeyOf(v)]
      BY <2>3, <3>1
    <3> QED
      BY <2>4, <3>2
  <2> QED
    BY <2>4, <2>5
<1> HIDE DEF Declared, Means
<1>13. \A name \in q.called \ shown :
          /\ RunBy(s, name) \in {"refused", "unsupported"}
          /\ Declared(name) = {} => RequiredMode(s, name) = DangerFullAccess
  BY <1>10
<1> QED
  BY <1>9, <1>11, <1>12, <1>13 DEF Declared, Means

\* Every layer that decides about a call decides alike (permissions.rs,
\* permission_enforcer.rs, sandbox.rs, bash_validation.rs and the registry of
\* tools/src/lib.rs), for any tools and names that can be spelt alike, requests, commands,
\* paths and sandbox settings.
THEOREM AccessIsDecided == ASSUME WellAsked PROVE AccessDecided
<1>1. PermissionDecided
  BY CascadeIsDecided DEF WellAsked
<1>2. GateHolds
  BY GateIsSound
<1>3. BashJudged
  BY BashIsJudged
<1> QED
  BY <1>1, <1>2, <1>3 DEF AccessDecided
=============================================================================
