-------------------------------- MODULE MCTools --------------------------------
(***************************************************************************)
(* Calls that go on while others do: a sub-agent (SubAgent), a hook's      *)
(* commands (HookRunner), a program (Shell) and an MCP server reached over *)
(* the bridge (McpBridge).  They share no state, so each takes its steps   *)
(* while the others are where they start, and TLC explores them side by    *)
(* side.                                                                   *)
(***************************************************************************)
EXTENDS SubAgent, HookRunner, Shell, McpBridge

CONSTANTS x1, x2

MCInput == {x1, x2}
MCAnyHabit == Habit
MCBridged == <<"a", "b">>
MCToolKey == [n \in {} |-> n]
MCAgentError == {{"mcp", "handshake"}, {"transport"}}

\* Hooks, programs and calls over the bridge start in many ways; the others take their
\* steps beside one of them.
HookAt == Init /\ commands = 0 /\ input = x1 /\ ~abort
ShellAt == ShellInit /\ call = [tool |-> "bash", timeout |-> FALSE, background |-> FALSE,
                               output |-> 0, ends |-> TRUE, leaves |-> "none"]
BridgeAt == BridgeInit /\ \A c \in Client : target[c] = "a"
\* The registry matters to a call that has still to look at it.
Targets == {target[c] : c \in {d \in Client : stage[d] \in {"start", "checked"}}}
OthersStep == Targets # {} /\ (SetManager \/ \E s \in Targets : RegisterServer(s) \/ SetAuthStatus(s) \/ DisconnectServer(s))

AgentsAside == AgentsInit /\ UNCHANGED agentVars
CallsAside == HookAt /\ ShellAt /\ BridgeAt /\ UNCHANGED <<vars, shellVars, bridgeVars>>
HookTakes(A) == ShellAt /\ BridgeAt /\ AgentsAside /\ UNCHANGED <<shellVars, bridgeVars>> /\ A
ShellTakes(A) == HookAt /\ BridgeAt /\ AgentsAside /\ UNCHANGED <<vars, bridgeVars>> /\ A
BridgeTakes(A) == HookAt /\ ShellAt /\ AgentsAside /\ UNCHANGED <<vars, shellVars>> /\ A
AgentTakes(A) == CallsAside /\ A

\* What goes on by itself: the threads of agents, of the hook runner and of the callers,
\* and the children that can.  Each takes finitely many steps, so that it is enough to
\* say that one of them goes on as long as any can.
GoesOn ==
    \/ \E a \in AgentId : AgentTakes(ThreadStep(a))
    \/ HookTakes(RunnerStep \/ ChildExits \/ DescendantExits)
    \/ ShellTakes(ToolStep \/ ProgramStep)
    \/ \E c \in Client : BridgeTakes(CallStep(c))
toolsVars == <<agentVars, question, vars, shellVars, bridgeVars>>
ToolsInit ==
    /\ AgentsInit /\ Unasked /\ Init /\ ShellInit /\ BridgeInit
    /\ \/ HookAt /\ ShellAt
       \/ HookAt /\ BridgeAt
       \/ ShellAt /\ BridgeAt
ToolsSpec ==
    /\ ToolsInit
    /\ [][ /\ UNCHANGED question
           /\ \/ AgentTakes(AgentsNext)
              \/ HookTakes(Next)
              \/ ShellTakes(ShellNext)
              \/ BridgeTakes(OthersStep \/ \E c \in Client : CallStep(c)) ]_toolsVars
    /\ WF_toolsVars(GoesOn /\ UNCHANGED question)
-----------------------------------------------------------------------------
\* Nothing that has begun is left
\* pending for ever - an agent's thread has a final manifest, unless the program ended or
\* a file could not be written; a run of hooks is over, unless one prints more than a pipe
\* holds; a call of a program that may come to its end has an answer; and a call over
\* the bridge has one and left the lock free.
Pending ==
    \/ \E a \in AgentId : /\ job[a].pc \notin {Idle.pc, "refused"} /\ running /\ a \notin ioFailed
                          /\ manifest[a].status \notin {"completed", "failed"}
    \/ pc \notin {"start", "done"} /\ ~(child.state = "running" /\ child.loud)
    \/ Ending /\ step \notin {"start", "done"}
    \/ \E c \in Client : stage[c] = "lock" \/ c \in lock
EveryCallEnds == Pending ~> ~Pending
=============================================================================
