-------------------------------- MODULE McpBridge --------------------------------
(***************************************************************************)
(* The registry behind the tools ListMcpResources, ReadMcpResource,        *)
(* McpAuth and MCP (src/rust/crates/runtime/src/mcp_tool_bridge.rs and the *)
(* handlers in tools/src/lib.rs).  A call is checked against the registry  *)
(* under one lock and made on the manager under another, on a thread and   *)
(* an event loop of its own: it starts every server, calls the tool and    *)
(* shuts every server down again.  Nothing in the program registers a      *)
(* server or sets the manager yet; whoever will is the environment here.   *)
(*                                                                         *)
(* Of the manager, which McpServerManager.tla models, this needs only      *)
(* which servers run and how an operation may turn out.                    *)
(***************************************************************************)
EXTENDS Naturals, Sequences, FiniteSets

CONSTANTS
    Client,      \* the threads that call
    Bridged,     \* the servers, as the manager has them: a sequence
    Unlisted     \* a server the manager does not have

Names == {Bridged[i] : i \in DOMAIN Bridged} \cup {Unlisted}
ASSUME BridgeAssumption ==
    Bridged \in Seq(Names) /\ Unlisted \notin {Bridged[i] : i \in DOMAIN Bridged}

VARIABLES
    registry,   \* the status of each server: "absent", "connected" or "other"
    offers,     \* the servers whose tool the registry lists
    managerSet, \* whether it is set
    lock,       \* the callers that hold it: none or one
    up,         \* the servers that run
    stage,      \* of each caller
    target,     \* the server each caller calls
    next,       \* how many servers the holder has discovered
    outcome,    \* what the tool said: "none", "result" or "error"
    sent,       \* history: how often the call reached its server
    reply,      \* what the caller is told
    leftUp      \* history: what ran when it unlocked

listingVars == <<registry, offers, managerSet>>
callVars == <<lock, up, stage, target, next, outcome, sent, reply, leftUp>>
bridgeVars == <<listingVars, callVars>>

BridgeInit ==
    /\ registry = [s \in Names |-> "absent"] /\ offers = {} /\ managerSet = FALSE
    /\ lock = {} /\ up = {} /\ next = 0
    /\ stage = [c \in Client |-> "start"] /\ target \in [Client -> Names]
    /\ outcome = [c \in Client |-> "none"] /\ sent = [c \in Client |-> 0]
    /\ reply = [c \in Client |-> "none"] /\ leftUp = [c \in Client |-> {}]
-----------------------------------------------------------------------------
(* Others change the registry at any time.                                 *)

RegisterServer(s) ==
    /\ \E status \in {"connected", "other"} : registry' = [registry EXCEPT ![s] = status]
    /\ offers' \in {offers \cup {s}, offers \ {s}}
    /\ UNCHANGED <<managerSet, callVars>>
SetAuthStatus(s) ==
    /\ registry[s] # "absent"
    /\ \E status \in {"connected", "other"} : registry' = [registry EXCEPT ![s] = status]
    /\ UNCHANGED <<offers, managerSet, callVars>>
DisconnectServer(s) ==
    /\ registry' = [registry EXCEPT ![s] = "absent"] /\ offers' = offers \ {s}
    /\ UNCHANGED <<managerSet, callVars>>
SetManager == ~managerSet /\ managerSet' = TRUE /\ UNCHANGED <<registry, offers, callVars>>
-----------------------------------------------------------------------------
Goto(c, label) == stage' = [stage EXCEPT ![c] = label]
Told(c, text) == Goto(c, "done") /\ reply' = [reply EXCEPT ![c] = text]

\* call_tool, up to drop(inner): the server is there, connected, and lists the tool.
Check(c) ==
    /\ stage[c] = "start"
    /\ IF registry[target[c]] = "connected" /\ target[c] \in offers
       THEN Goto(c, "checked") /\ UNCHANGED reply
       ELSE Told(c, "refused")
    /\ UNCHANGED <<listingVars, lock, up, target, next, outcome, sent, leftUp>>
FindManager(c) ==
    /\ stage[c] = "checked"
    /\ IF managerSet THEN Goto(c, "lock") /\ UNCHANGED reply ELSE Told(c, "refused")
    /\ UNCHANGED <<listingVars, lock, up, target, next, outcome, sent, leftUp>>
\* spawn_tool_call: the guard is held to the end of the block, across every await.
Lock(c) ==
    /\ stage[c] = "lock" /\ lock = {} /\ lock' = {c} /\ next' = 0 /\ Goto(c, "discover")
    /\ UNCHANGED <<listingVars, up, target, outcome, sent, reply, leftUp>>
Unlock(c, text, still) ==
    /\ lock' = {} /\ Told(c, text) /\ up' = still /\ leftUp' = [leftUp EXCEPT ![c] = still]

\* discover_tools: the servers one after another, up to the first that fails, which is
\* stopped or left; those before it go on.
DiscoverOne(c) ==
    /\ stage[c] = "discover" /\ next < Len(Bridged)
    /\ up' = up \cup {Bridged[next + 1]} /\ next' = next + 1
    /\ UNCHANGED <<listingVars, lock, stage, target, outcome, sent, reply, leftUp>>
DiscoverOneFails(c) ==
    /\ stage[c] = "discover" /\ next < Len(Bridged)
    /\ \E still \in {up \ {Bridged[next + 1]}, up \cup {Bridged[next + 1]}} : Unlock(c, "error", still)
    /\ UNCHANGED <<listingVars, target, next, outcome, sent>>
\* Its call_tool: a tool that was not discovered is unknown; a failed call stops the server.
MakeCall(c) ==
    /\ stage[c] = "discover" /\ next = Len(Bridged) /\ Goto(c, "shutdown")
    /\ \/ /\ outcome' = [outcome EXCEPT ![c] = "error"] /\ UNCHANGED <<up, sent>>
       \/ /\ target[c] # Unlisted /\ sent' = [sent EXCEPT ![c] = @ + 1]
          /\ \/ outcome' = [outcome EXCEPT ![c] = "result"] /\ UNCHANGED up
             \/ outcome' = [outcome EXCEPT ![c] = "error"] /\ up' \in {up, up \ {target[c]}}
    /\ UNCHANGED <<listingVars, lock, target, next, reply, leftUp>>
\* Mutant: how the shutdown went is of no account.
ShutdownAllQuietly(c) ==
    /\ stage[c] = "shutdown"
    /\ \E still \in SUBSET up : Unlock(c, IF outcome[c] = "result" THEN "ok" ELSE "error", still)
    /\ UNCHANGED <<listingVars, target, next, outcome, sent>>
\* shutdown stops one server after another, up to the first that cannot be stopped, which
\* makes an error even of a call that was served.
ShutdownAll(c) ==
    /\ stage[c] = "shutdown"
    /\ \/ Unlock(c, IF outcome[c] = "result" THEN "ok" ELSE "error", {})
       \/ \E still \in SUBSET up \ {{}} : Unlock(c, "error", still)
    /\ UNCHANGED <<listingVars, target, next, outcome, sent>>

CallStep(c) == Check(c) \/ FindManager(c) \/ Lock(c) \/ DiscoverOne(c) \/ DiscoverOneFails(c) \/ MakeCall(c) \/ ShutdownAll(c)
BridgeNext ==
    \/ SetManager \/ \E s \in Names : RegisterServer(s) \/ SetAuthStatus(s) \/ DisconnectServer(s)
    \/ \E c \in Client : CallStep(c)
BridgeSpec == BridgeInit /\ [][BridgeNext]_bridgeVars
-----------------------------------------------------------------------------
\* However the calls of several threads and changes of the registry interleave, a call
\* that is told to have succeeded was served exactly once and left no server
\* running, one that was refused never reached a server, none reached one
\* twice, and a call between its discovery and its shutdown finds its servers running.
BridgeServes ==
    \A c \in Client :
        /\ reply[c] = "ok" => sent[c] = 1 /\ leftUp[c] = {}
        /\ reply[c] = "refused" => sent[c] = 0
        /\ sent[c] <= 1
        /\ stage[c] = "discover" /\ next = Len(Bridged) => \A i \in DOMAIN Bridged : Bridged[i] \in up
=============================================================================
