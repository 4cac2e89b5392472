------------------------------ MODULE McpLifecycle ------------------------------
(***************************************************************************)
(* What is known of the health of MCP servers: the validator of the phases *)
(* of a server's life (src/rust/crates/runtime/src/                        *)
(* mcp_lifecycle_hardened.rs), the report of a start in which some servers *)
(* failed (McpDegradedReport, as RuntimeMcpState of rusty-claude-cli/src/  *)
(* main.rs fills it), and the state a plugin's servers add up to           *)
(* (plugin_lifecycle.rs).  The validator and the plugin states are a       *)
(* library: nothing in the program calls them yet.                         *)
(***************************************************************************)
EXTENDS Question

CONSTANTS
    HealthQuestions   \* what is asked: the servers of a start, or the states of a plugin's

HealthStatus == {"healthy", "degraded", "failed"}
ASSUME HealthAssumption ==
    \A q \in HealthQuestions : q.about = "health" => \A s \in DOMAIN q.servers : q.servers[s].status \in HealthStatus

Phase == {"config_load", "server_registration", "spawn_connect", "initialize_handshake", "tool_discovery",
          "resource_discovery", "ready", "invocation", "error_surfacing", "shutdown", "cleanup"}

VARIABLES
    phase,    \* current_phase; "none" at the start
    last,     \* the last of phase_results: "none", "success", "recoverable" or "fatal"
    failure,  \* history: the last failure, "none", "recoverable" or "fatal"
    passed,   \* history: the phases that ever succeeded
    since     \* history: the phases that succeeded since the last failure

lifecycleVars == <<phase, last, failure, passed, since>>

LifecycleInit == phase = "none" /\ last = "none" /\ failure = "none" /\ passed = {} /\ since = {}

Forward == {<<"config_load", "server_registration">>, <<"server_registration", "spawn_connect">>,
            <<"spawn_connect", "initialize_handshake">>, <<"initialize_handshake", "tool_discovery">>,
            <<"tool_discovery", "resource_discovery">>, <<"tool_discovery", "ready">>,
            <<"resource_discovery", "ready">>, <<"ready", "invocation">>, <<"invocation", "ready">>,
            <<"error_surfacing", "ready">>, <<"error_surfacing", "shutdown">>, <<"shutdown", "cleanup">>}
\* validate_phase_transition.
Transition(from, to) ==
    \/ <<from, to>> \in Forward
    \/ to = "shutdown" /\ from # "cleanup"
    \/ to = "error_surfacing" /\ from \notin {"cleanup", "shutdown"}

\* record_failure and record_timeout, which is always recoverable.
Recorded(kind) ==
    /\ phase' = "error_surfacing" /\ last' = kind
    /\ failure' = kind /\ since' = {} /\ UNCHANGED passed
\* Mutant: the way back from an error is open.
AdmitsAny(to) == IF phase = "none" THEN to = "config_load" ELSE Transition(phase, to)
\* The checks of run_phase; can_resume_after_error looks at the last result alone.
Admits(to) ==
    IF phase = "none" THEN to = "config_load"
    ELSE /\ phase = "error_surfacing" /\ to = "ready" => last = "recoverable"
         /\ Transition(phase, to)
\* run_phase: a phase that is not admitted is a failure of its own.
RunPhase(to) ==
    IF Admits(to)
    THEN /\ phase' = to /\ last' = "success" /\ passed' = passed \cup {to} /\ since' = since \cup {to}
         /\ UNCHANGED failure
    ELSE Recorded("fatal")
RecordFailure == \E kind \in {"recoverable", "fatal"} : Recorded(kind)
RecordTimeout == Recorded("recoverable")

LifecycleNext == (\E to \in Phase : RunPhase(to)) \/ RecordFailure \/ RecordTimeout
HealthInit == LifecycleInit /\ Unasked
HealthNext == \/ Unasked /\ LifecycleNext /\ UNCHANGED question
              \/ LifecycleInit /\ Ask(HealthQuestions) /\ UNCHANGED lifecycleVars
HealthSpec == HealthInit /\ [][HealthNext]_<<lifecycleVars, question>>

\* After a failure that is not recoverable nothing succeeds but telling of it and shutting
\* down, however the caller goes on, until a recoverable one is recorded; and a
\* server that was never called ready after a recoverable failure was so only after the
\* whole start: every phase to tool discovery.
NoWayBack ==
    /\ failure = "fatal" => since \subseteq {"error_surfacing", "shutdown", "cleanup"}
    /\ "invocation" \in passed => "ready" \in passed
    /\ failure = "none" /\ "ready" \in passed =>
          {"config_load", "server_registration", "spawn_connect", "initialize_handshake", "tool_discovery"} \subseteq passed
-----------------------------------------------------------------------------
\* McpDegradedReport::new.
MissingTools(expected, available) == expected \ available

\* RuntimeMcpState::new: servers maps each configured server to "works", "fails" or
\* "unsupported"; tools to what those that work offer.
Pending(servers) == {s \in DOMAIN servers : servers[s] # "works"}
DegradedReport(servers, tools) ==
    LET available == UNION {tools[s] : s \in DOMAIN servers \ Pending(servers)}
    IN  [working |-> {s \in DOMAIN servers : servers[s] # "unsupported"} \ Pending(servers),
         failed |-> Pending(servers), available |-> available,
         missing |-> MissingTools(available, available)]

Named(servers, status) == {s \in DOMAIN servers : servers[s].status \in status}
\* PluginState::from_servers, with its first failed check.
FromServers(servers) ==
    IF DOMAIN servers = {} THEN "failed"
    ELSE IF Named(servers, {"failed", "degraded"}) = {} THEN "healthy"
    ELSE IF Named(servers, {"healthy", "degraded"}) = {} THEN "failed" ELSE "degraded"
\* PluginHealthcheck::degraded_mode: what the failed servers could do, and every tool that
\* was discovered, whoever offers it.
DegradedMode(servers, discovered) ==
    [available |-> discovered, unavailable |-> UNION {servers[s].capabilities : s \in Named(servers, {"failed"})}]

\* A report names every server on one side, and a tool as available only if a working
\* server has it; the CLI's never names a missing tool.  A plugin is healthy when each
\* of its servers is, has failed when none is left, and is degraded otherwise; a tool
\* that only failed servers offer and that is not discovered is unavailable only.
HealthTold ==
    /\ Asked("start") =>
          LET report == DegradedReport(question.servers, question.tools)
          IN  /\ report.working \cap report.failed = {} /\ report.working \cup report.failed = DOMAIN question.servers
              /\ \A t \in report.available : \E s \in report.working : t \in question.tools[s]
              /\ report.missing = {}
    /\ Asked("health") =>
          LET servers == question.servers
              state == FromServers(servers)
              All(status) == \A s \in DOMAIN servers : servers[s].status = status
          IN  /\ state = "healthy" <=> DOMAIN servers # {} /\ All("healthy")
              /\ state = "failed" <=> All("failed")
              /\ state = "degraded" /\ question.discovered \subseteq UNION {servers[s].capabilities : s \in Named(servers, {"healthy", "degraded"})} =>
                    LET mode == DegradedMode(servers, question.discovered)
                    IN  \A t \in mode.available \cap mode.unavailable :
                            \E s, u \in DOMAIN servers : s # u /\ t \in servers[s].capabilities \cap servers[u].capabilities

\* What is reported of servers and their phases is what happened to them.
HealthHonest == NoWayBack /\ HealthTold
=============================================================================
