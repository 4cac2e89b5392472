------------------------ MODULE MCMcpServerManager ------------------------
(***************************************************************************)
(* MCP for TLC: the manager with two servers, so that a discovery can fail *)
(* at one of them, and the lifecycle validator with the questions about    *)
(* health.  They share no state, so each takes its steps while the other   *)
(* is where it starts.                                                     *)
(***************************************************************************)
EXTENDS McpServerManager, McpLifecycle

CONSTANTS s1, s2

MCServers == <<s1, s2>>

MCHealthQuestions ==
    [about : {"start"}, servers : [{"a", "b", "c"} -> {"works", "fails", "unsupported"}], tools : [{"a", "b", "c"} -> SUBSET {"t", "u"}]]
    \cup {[about |-> "health", servers |-> f, discovered |-> d] :
             f \in UNION {[D -> [status : HealthStatus, capabilities : SUBSET {"t", "u"}]] : D \in SUBSET {"a", "b"}},
             d \in SUBSET {"t", "u"}}

ManagerAside == Init /\ UNCHANGED vars
HealthAside == LifecycleInit /\ Unasked /\ UNCHANGED <<lifecycleVars, question>>
mcpVars == <<vars, lifecycleVars, question>>

McpInit == Init /\ HealthInit
McpSpec ==
    /\ McpInit
    /\ [][ \/ HealthAside /\ Next
           \/ ManagerAside /\ HealthNext ]_mcpVars
    /\ WF_mcpVars(HealthAside /\ Proceed)
=============================================================================
