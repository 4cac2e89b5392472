-------------------------------- MODULE SubAgent --------------------------------
(***************************************************************************)
(* The Agent tool: execute_agent of src/rust/crates/tools/src/lib.rs and   *)
(* the thread it starts.  A sub-agent leaves two files: <id>.md, to which  *)
(* sections are appended, and the manifest <id>.json, written in place.    *)
(* Nobody joins the thread: when the process ends, it ends where it is.    *)
(***************************************************************************)
EXTENDS Integers, ToolGate

CONSTANTS
    AgentId,        \* agents of one run of the program (make_agent_id: the clock)
    AgentKind,      \* subagent types asked for, also unknown ones
    AgentError,     \* messages a turn fails with: sets of the words they contain
    AgentIterations \* bound on the answers of a turn (32 in the code)

VARIABLES
    job,        \* [AgentId -> the thread: pc, kind, answers so far, report]
    manifest,   \* [AgentId -> the manifest's record; status "none" or "torn" when unreadable]
    output,     \* [AgentId -> sections of the .md file; <<>> when there is none]
    running,    \* whether the process is
    ioFailed    \* history: agents one of whose files could not be written

agentVars == <<job, manifest, output, running, ioFailed>>

NoReport == [status |-> "running", text |-> FALSE, commit |-> FALSE, error |-> {}]
Unreadable(why) == [status |-> why, derived |-> "none", events |-> <<>>, blocker |-> "none"]
Idle == [pc |-> "idle", kind |-> "general-purpose", answers |-> 0, report |-> NoReport]
AgentsInit ==
    /\ job = [a \in AgentId |-> Idle]
    /\ manifest = [a \in AgentId |-> Unreadable("none")] /\ output = [a \in AgentId |-> <<>>]
    /\ running = TRUE /\ ioFailed = {}
-----------------------------------------------------------------------------
\* normalize_subagent_type: any other name is kept, and gets the tools of the general one.
Normalized(asked) == IF asked = "" THEN "general-purpose" ELSE asked

\* classify_lane_failure: the first line all of whose words the message contains.
FailureOrder ==
    << <<{"prompt", "deliver"}, "prompt_delivery">>, <<{"trust"}, "trust_gate">>,
       <<{"branch", "stale"}, "branch_divergence">>, <<{"gateway"}, "gateway_routing">>,
       <<{"compile"}, "compile">>, <<{"test"}, "test">>, <<{"tool failed"}, "tool_runtime">>,
       <<{"plugin"}, "plugin_startup">>, <<{"mcp", "handshake"}, "mcp_handshake">>,
       <<{"mcp"}, "mcp_startup">>, <<{}, "infra">> >>
FailureClass(error) ==
    FailureOrder[SelectInSeq(FailureOrder, LAMBDA line : line[1] \subseteq error)][2]

DerivedState(r) ==
    CASE r.status = "running" -> "working"
      [] r.status = "completed" -> IF r.text THEN "finished_cleanable" ELSE "finished_pending_report"
      [] "background" \in r.error -> "blocked_background_job"
      [] "merge conflict" \in r.error -> "blocked_merge_conflict"
      [] "mcp" \in r.error -> "degraded_mcp"
      [] "transport" \in r.error -> "interrupted_transport"
      [] OTHER -> "truly_idle"

\* The lane events of a report, after those of the manifest the thread was given.
Events(r) ==
    IF r.status = "failed" THEN <<"started", "blocked", "failed">>
    ELSE IF r.commit THEN <<"started", "finished", "commit_created">>
    ELSE <<"started", "finished">>
Manifest(r) == [status |-> r.status, derived |-> DerivedState(r), events |-> Events(r),
                blocker |-> IF r.status = "failed" THEN FailureClass(r.error) ELSE "none"]
Running == [status |-> "running", derived |-> "working", events |-> <<"started">>, blocker |-> "none"]
-----------------------------------------------------------------------------
Step(a, pc) == job' = [job EXCEPT ![a].pc = pc]
Report(a, r, pc) == job' = [job EXCEPT ![a].report = r, ![a].pc = pc]
Failed(error) == [NoReport EXCEPT !.status = "failed", !.error = error]

\* execute_agent, up to the manifest: a file that cannot be written is the end of it.
Launch(a, asked) ==
    /\ job[a] = Idle
    /\ \/ /\ job' = [job EXCEPT ![a] = [Idle EXCEPT !.pc = "spawning", !.kind = Normalized(asked)]]
          /\ output' = [output EXCEPT ![a] = <<"prompt">>]
          /\ manifest' = [manifest EXCEPT ![a] = Running]
          /\ UNCHANGED ioFailed
       \/ /\ Step(a, "refused")
          /\ ioFailed' = ioFailed \cup {a}
          /\ \/ UNCHANGED <<output, manifest>>
             \/ /\ output' = [output EXCEPT ![a] = <<"prompt">>]
                /\ manifest' \in {manifest, [manifest EXCEPT ![a] = Unreadable("torn")]}
    /\ UNCHANGED running

\* The thread starts, or execute_agent itself reports the failure.
SpawnAgent(a) ==
    /\ job[a].pc = "spawning"
    /\ Step(a, "build") \/ Report(a, Failed({"spawn"}), "append_failed")
    /\ UNCHANGED <<manifest, output, running, ioFailed>>

\* build_agent_runtime: a provider without credentials fails it.
Build(a) ==
    /\ job[a].pc = "build"
    /\ Step(a, "turn") \/ Report(a, Failed({"credentials"}), "append_failed")
    /\ UNCHANGED <<manifest, output, running, ioFailed>>

\* SubagentToolExecutor: a tool the kind does not have is answered with an error;
\* none starts another agent.
AskTool(a) ==
    /\ job[a].pc = "turn" /\ job[a].answers < AgentIterations
    /\ job' = [job EXCEPT ![a].answers = @ + 1]
    /\ UNCHANGED <<manifest, output, running, ioFailed>>

\* run_turn returns a text, an error or panics.
TurnEnds(a) ==
    /\ job[a].pc = "turn"
    /\ \/ /\ job[a].answers < AgentIterations
          /\ \E text, commit \in BOOLEAN :
                /\ commit => text
                /\ Report(a, [NoReport EXCEPT !.status = "completed", !.text = text, !.commit = commit],
                          "append_completed")
       \/ \E error \in AgentError : Report(a, Failed(error), "append_failed")
       \/ Report(a, Failed({"panicked"}), "append_failed")
       \/ /\ job[a].answers = AgentIterations
          /\ Report(a, Failed({"iterations"}), "append_failed")
    /\ UNCHANGED <<manifest, output, running, ioFailed>>

\* persist_agent_terminal_state failed: the thread reports that instead, once;
\* the failure of a failure is ignored.
PersistFails(a) ==
    /\ ioFailed' = ioFailed \cup {a}
    /\ IF job[a].report.status = "completed"
       THEN Report(a, Failed({"io"}), "append_failed") ELSE Step(a, "done")

\* Mutant: the manifest is written whatever became of the section.
AppendOutputOrNot(a) ==
    /\ job[a].pc \in {"append_completed", "append_failed"}
    /\ output' \in {output, [output EXCEPT ![a] = Append(@, job[a].report.status)]}
    /\ Step(a, "write")
    /\ UNCHANGED <<manifest, running, ioFailed>>
AppendOutput(a) ==
    /\ job[a].pc \in {"append_completed", "append_failed"}
    /\ \/ /\ output' = [output EXCEPT ![a] = Append(@, job[a].report.status)]
          /\ Step(a, "write") /\ UNCHANGED ioFailed
       \/ /\ output' \in {output, [output EXCEPT ![a] = Append(@, "part")]}
          /\ PersistFails(a)
    /\ UNCHANGED <<manifest, running>>

WriteManifest(a) ==
    /\ job[a].pc = "write"
    /\ \/ /\ manifest' = [manifest EXCEPT ![a] = Manifest(job[a].report)]
          /\ Step(a, "done") /\ UNCHANGED ioFailed
       \/ /\ manifest' \in {manifest, [manifest EXCEPT ![a] = Unreadable("torn")]}
          /\ PersistFails(a)
    /\ UNCHANGED <<output, running>>

\* The program ends: threads end anywhere, also between the bytes of a file.
Exit ==
    /\ running
    /\ running' = FALSE
    /\ manifest' \in {manifest} \cup
          {[manifest EXCEPT ![a] = Unreadable("torn")] : a \in {b \in AgentId : job[b].pc = "write"}}
    /\ UNCHANGED <<job, output, ioFailed>>

ThreadStep(a) ==
    /\ running
    /\ SpawnAgent(a) \/ Build(a) \/ AskTool(a) \/ TurnEnds(a) \/ AppendOutput(a) \/ WriteManifest(a)
AgentsNext ==
    \/ running /\ \E a \in AgentId, asked \in AgentKind : Launch(a, asked)
    \/ \E a \in AgentId : ThreadStep(a)
    \/ Exit
AgentsSpec == AgentsInit /\ [][AgentsNext]_agentVars
-----------------------------------------------------------------------------
\* What a manifest says at the end is what the thread did: its status is that of
\* the last section of the output, "completed" is said only of a turn that
\* returned, and its events and derived state are those of one ending, also when
\* a report of success could not be written and a failure was reported after it.
AgentReported ==
    \A a \in AgentId : manifest[a].status \notin {"none", "torn"} =>
        LET m == manifest[a]
        IN  /\ m.status # "running" =>
                  /\ output[a][Len(output[a])] = m.status
                  /\ job[a].pc = "done" /\ job[a].report.status = m.status
            /\ (m.status = "failed") = (m.blocker # "none")
            /\ ~("finished" \in ToSet(m.events) /\ "failed" \in ToSet(m.events))
=============================================================================
