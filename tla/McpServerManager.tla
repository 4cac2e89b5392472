-------------------------- MODULE McpServerManager --------------------------
(***************************************************************************)
(* The manager of MCP servers (src/rust/crates/runtime/src/mcp_stdio.rs):  *)
(* it spawns a child process per configured server, initializes it, lists  *)
(* its tools and calls them over the child's stdin and stdout, one request *)
(* at a time and each under a timeout.  The children answer, answer with   *)
(* errors or nonsense, answer twice, answer late, stay silent or exit, at  *)
(* any time.                                                               *)
(*                                                                         *)
(* Request ids are abstracted to their use: a reply carries the id of the  *)
(* request under way or an older one.                                      *)
(***************************************************************************)
EXTENDS Naturals, Sequences

CONSTANTS
    Servers,    \* the configured servers in the order of the BTreeMap
    Tool,       \* the tools a server may list
    MaxOps,     \* bound: operations
    MaxPages,   \* bound: pages of one listing
    MaxOut      \* bound: unread replies of a server

Server == {Servers[i] : i \in DOMAIN Servers}
ASSUME ServersAssumption == Servers \in Seq(Server) /\ Servers # <<>>

VARIABLES
    process,      \* [Server -> "none", "alive", "dead"]: the child held
    initialized,  \* ManagedMcpServer::initialized
    tool_index,   \* [Server -> tools routed to it]
    pc,           \* the manager's next step, see PC
    op,           \* the operation under way
    out,          \* [Server -> replies of the child that were not read yet]
    asked,        \* [Server -> has the child a request it did not answer]
    ops,          \* counter, only for the bound
    \* History the code does not keep:
    handshaken,   \* servers whose present child granted an initialize
    listed,       \* [Server -> what its last complete listing held]
    heard,        \* tools of the pages the present listing was answered with
    running,      \* [Server -> children spawned for it that still run]
    calls,        \* tools/call requests written by the operation under way
    stale         \* was a reply to an older request ever accepted

manager == <<process, initialized, tool_index, pc, op, ops>>
children == <<out, asked>>
history == <<handshaken, listed, heard, running, calls, stale>>
vars == <<manager, children, history>>

PC == {"idle", "ensure", "boot", "await_init", "request", "await"}
Kind == {"none", "discover", "best_effort", "call", "resources"}
Operation == [kind : Kind, server : Server, todo : Nat,
              attempts : 0..1, init_attempts : 0..1, found : SUBSET Tool, pages : Nat]
NoOp == [kind |-> "none", server |-> Servers[1], todo |-> 0,
         attempts |-> 0, init_attempts |-> 0, found |-> {}, pages |-> 0]
\* Whatever does not belong to the request under way.
OldReply == [current |-> FALSE, class |-> "result"]
Reply == [current : {TRUE}, class : {"result", "error", "empty", "garbage"}] \cup {OldReply}

IsRetryable(e) == e \in {"Timeout", "Transport"}
ShouldReset(e) == e \in {"Timeout", "Transport", "InvalidResponse"}

Init ==
    /\ process = [s \in Server |-> "none"]
    /\ initialized = [s \in Server |-> FALSE]
    /\ tool_index = [s \in Server |-> {}]
    /\ pc = "idle" /\ op = NoOp /\ ops = 0
    /\ out = [s \in Server |-> <<>>]
    /\ asked = [s \in Server |-> FALSE]
    /\ handshaken = {} /\ listed = [s \in Server |-> {}]
    /\ heard = {} /\ running = [s \in Server |-> 0] /\ calls = 0 /\ stale = FALSE

-----------------------------------------------------------------------------
(***************************************************************************)
(* The child of a server.                                                  *)
(***************************************************************************)
Kill(S) ==
    /\ process' = [s \in Server |-> IF s \in S THEN "none" ELSE process[s]]
    /\ out' = [s \in Server |-> IF s \in S THEN <<>> ELSE out[s]]
    /\ asked' = [s \in Server |-> asked[s] /\ s \notin S]
    /\ handshaken' = handshaken \ S
    /\ running' = [s \in Server |->
                     IF s \in S /\ process[s] = "alive" THEN running[s] - 1 ELSE running[s]]

\* reset_server: what the child wrote before goes away with its pipe.
ResetServer(s) ==
    /\ Kill({s})
    /\ initialized' = [initialized EXCEPT ![s] = FALSE]

NoReset == UNCHANGED <<process, initialized, out, asked, handshaken, running>>

\* The request is written; what is still unread belongs to older ones.
Write(s) ==
    /\ out' = [out EXCEPT ![s] = [i \in 1..Len(out[s]) |-> OldReply]]
    /\ asked' = [asked EXCEPT ![s] = TRUE]

ServerReplies(s) ==
    /\ process[s] = "alive" /\ Len(out[s]) < MaxOut
    /\ \E r \in Reply :
         /\ r.current /\ r.class # "garbage" => asked[s]
         /\ out' = [out EXCEPT ![s] = Append(@, r)]
         /\ asked' = [asked EXCEPT ![s] = @ /\ ~r.current]
    /\ UNCHANGED <<manager, history>>

ServerExits(s) ==
    /\ process[s] = "alive"
    /\ process' = [process EXCEPT ![s] = "dead"]
    /\ running' = [running EXCEPT ![s] = @ - 1]
    /\ UNCHANGED <<initialized, tool_index, pc, op, ops, children,
                   handshaken, listed, heard, calls, stale>>

-----------------------------------------------------------------------------
(***************************************************************************)
(* Operations.                                                             *)
(***************************************************************************)
Begin(o) ==
    /\ pc = "idle" /\ ops < MaxOps
    /\ ops' = ops + 1 /\ calls' = 0
    /\ op' = o /\ pc' = "ensure"
    /\ UNCHANGED <<process, initialized, tool_index, children,
                   handshaken, listed, heard, running, stale>>

\* discover_tools and discover_tools_best_effort visit every server in order.
Discover == \E kind \in {"discover", "best_effort"} :
               Begin([NoOp EXCEPT !.kind = kind, !.todo = 1])

\* An unknown tool is refused before anything happens.
CallTool == \E s \in Server :
               tool_index[s] # {} /\ Begin([NoOp EXCEPT !.kind = "call", !.server = s])

\* list_resources and read_resource.
Resources == \E s \in Server : Begin([NoOp EXCEPT !.kind = "resources", !.server = s])

\* The first child that cannot be killed ends the loop.
Shutdown ==
    /\ pc = "idle" /\ ops < MaxOps
    /\ ops' = ops + 1
    /\ \E n \in 0..Len(Servers) :
         LET S == {Servers[i] : i \in 1..n}
         IN  /\ Kill(S)
             /\ initialized' = [s \in Server |-> initialized[s] /\ s \notin S]
    /\ UNCHANGED <<tool_index, pc, op, listed, heard, calls, stale>>

\* The operation is over for op.server: ok says how.
EndOperation ==
    /\ op' = NoOp /\ pc' = "idle"

NextServer ==
    IF op.todo < Len(Servers)
    THEN /\ op' = [NoOp EXCEPT !.kind = op.kind, !.todo = op.todo + 1,
                               !.server = Servers[op.todo + 1]]
         /\ pc' = "ensure"
    ELSE EndOperation

\* Mutant: the retry of a listing keeps the tools found so far.
FailKeepsFound(e) ==
    LET s == op.server IN
    IF IsRetryable(e) /\ op.attempts = 0 /\ op.kind # "call"
    THEN /\ ResetServer(s)
         /\ op' = [op EXCEPT !.attempts = 1, !.init_attempts = 0, !.pages = 0]
         /\ pc' = "ensure"
         /\ UNCHANGED tool_index
    ELSE /\ IF ShouldReset(e) THEN ResetServer(s) ELSE NoReset
         /\ IF op.kind = "best_effort"
            THEN NextServer /\ tool_index' = [tool_index EXCEPT ![s] = {}]
            ELSE EndOperation /\ UNCHANGED tool_index

\* Mutant: a call is retried like a listing.
FailRetriesCalls(e) ==
    LET s == op.server IN
    IF IsRetryable(e) /\ op.attempts = 0
    THEN /\ ResetServer(s)
         /\ op' = [op EXCEPT !.attempts = 1, !.init_attempts = 0, !.found = {}, !.pages = 0]
         /\ pc' = "ensure"
         /\ UNCHANGED tool_index
    ELSE /\ IF ShouldReset(e) THEN ResetServer(s) ELSE NoReset
         /\ EndOperation /\ UNCHANGED tool_index

\* What each operation does with an error: a listing or a resource operation
\* starts over once, a call is never repeated; best effort drops the server's
\* routes and goes on, everything else ends.
Fail(e) ==
    LET s == op.server IN
    IF IsRetryable(e) /\ op.attempts = 0 /\ op.kind # "call"
    THEN /\ ResetServer(s)
         /\ op' = [op EXCEPT !.attempts = 1, !.init_attempts = 0, !.found = {}, !.pages = 0]
         /\ pc' = "ensure"
         /\ UNCHANGED tool_index
    ELSE /\ IF ShouldReset(e) THEN ResetServer(s) ELSE NoReset
         /\ IF op.kind = "best_effort"
            THEN NextServer /\ tool_index' = [tool_index EXCEPT ![s] = {}]
            ELSE EndOperation /\ UNCHANGED tool_index

-----------------------------------------------------------------------------
(***************************************************************************)
(* ensure_server_ready.                                                    *)
(***************************************************************************)
\* A child that exited since the last operation is noticed.
Ensure ==
    /\ pc = "ensure"
    /\ IF process[op.server] = "dead" THEN ResetServer(op.server) ELSE NoReset
    /\ pc' = "boot"
    /\ UNCHANGED <<tool_index, op, ops, listed, heard, calls, stale>>

\* Spawn if there is no child; write initialize unless that was done.
Boot ==
    LET s == op.server IN
    /\ pc = "boot"
    /\ IF process[s] = "none"
       THEN /\ process' = [process EXCEPT ![s] = "alive"]
            /\ running' = [running EXCEPT ![s] = @ + 1]
            /\ initialized' = [initialized EXCEPT ![s] = FALSE]
       ELSE UNCHANGED <<process, running, initialized>>
    /\ IF initialized'[s]
       THEN pc' = "request" /\ UNCHANGED <<out, asked>>
       ELSE pc' = "await_init" /\ Write(s)
    /\ UNCHANGED <<tool_index, op, ops, handshaken, listed, heard, calls, stale>>

SpawnFails ==
    /\ pc = "boot" /\ process[op.server] = "none"
    /\ Fail("Io")
    /\ UNCHANGED <<ops, listed, heard, calls, stale>>

\* How an exchange can end in an error of its own: no reply in time, or a pipe
\* that is closed.
ExchangeError(s) ==
    {"Timeout"} \cup (IF process[s] = "dead" THEN {"Transport"} ELSE {})

\* Mutant: any reply will do.
IsAnswerAnyId(r) == r.class # "garbage"
\* The reply parses, is JSON-RPC 2.0 and has the id of the request.
IsAnswer(r) == r.class # "garbage" /\ r.current

\* Mutant: the attempts are not counted.
InitializeFailsForever ==
    /\ pc = "await_init"
    /\ \E e \in ExchangeError(op.server) :
         ResetServer(op.server) /\ pc' = "boot" /\ UNCHANGED <<op, tool_index>>
    /\ UNCHANGED <<ops, listed, heard, calls, stale>>

\* A second attempt is made by a new child.
InitializeFails ==
    LET s == op.server IN
    /\ pc = "await_init"
    /\ \E e \in ExchangeError(s) :
         IF op.init_attempts = 0
         THEN /\ ResetServer(s)
              /\ op' = [op EXCEPT !.init_attempts = 1]
              /\ pc' = "boot"
              /\ UNCHANGED tool_index
         ELSE Fail(e)
    /\ UNCHANGED <<ops, listed, heard, calls, stale>>

Accept(s) ==
    /\ out' = [out EXCEPT ![s] = Tail(@)]
    /\ stale' = (stale \/ ~Head(out[s]).current)

\* The reply to initialize.  A JSON-RPC error leaves the child running and
\* uninitialized, any other bad reply resets the server.
InitializeReplied ==
    LET s == op.server
        r == Head(out[s])
    IN
    /\ pc = "await_init" /\ out[s] # <<>>
    /\ \/ /\ IsAnswer(r) /\ r.class = "result"
          /\ Accept(s)
          /\ initialized' = [initialized EXCEPT ![s] = TRUE]
          /\ handshaken' = handshaken \cup {s}
          /\ pc' = "request"
          /\ UNCHANGED <<process, tool_index, op, ops, asked, listed, heard, running, calls>>
       \/ /\ ~IsAnswer(r) \/ r.class = "empty"
          /\ Fail("InvalidResponse")
          /\ UNCHANGED <<ops, listed, heard, calls, stale>>
       \/ /\ IsAnswer(r) /\ r.class = "error"
          /\ Accept(s)
          /\ IF op.kind = "best_effort"
             THEN NextServer /\ tool_index' = [tool_index EXCEPT ![s] = {}]
             ELSE EndOperation /\ UNCHANGED tool_index
          /\ UNCHANGED <<process, initialized, ops, asked, handshaken, listed, heard, running, calls>>

-----------------------------------------------------------------------------
(***************************************************************************)
(* The request.                                                            *)
(***************************************************************************)
SendRequest ==
    /\ pc = "request"
    /\ Write(op.server)
    /\ calls' = IF op.kind = "call" THEN calls + 1 ELSE calls
    /\ pc' = "await"
    /\ UNCHANGED <<process, initialized, tool_index, op, ops,
                   handshaken, listed, heard, running, stale>>

RequestFails ==
    /\ pc = "await"
    /\ \E e \in ExchangeError(op.server) : Fail(e)
    /\ UNCHANGED <<ops, listed, heard, calls, stale>>

BadReply ==
    LET r == Head(out[op.server]) IN
    /\ pc = "await" /\ out[op.server] # <<>>
    /\ ~IsAnswer(r) \/ (r.class = "empty" /\ op.kind # "call")
    /\ Fail("InvalidResponse")
    /\ UNCHANGED <<ops, listed, heard, calls, stale>>

\* The server's own error ends the operation and leaves the child as it is.
ErrorReply ==
    LET s == op.server
        r == Head(out[s])
    IN
    /\ pc = "await" /\ out[s] # <<>>
    /\ IsAnswer(r) /\ r.class = "error" /\ op.kind # "call"
    /\ Accept(s)
    /\ IF op.kind = "best_effort"
       THEN NextServer /\ tool_index' = [tool_index EXCEPT ![s] = {}]
       ELSE EndOperation /\ UNCHANGED tool_index
    /\ UNCHANGED <<process, initialized, ops, asked, handshaken, listed, heard, running, calls>>

\* call_tool hands any answer to its caller.
CallAnswered ==
    LET s == op.server IN
    /\ pc = "await" /\ out[s] # <<>> /\ op.kind = "call"
    /\ IsAnswer(Head(out[s]))
    /\ Accept(s)
    /\ EndOperation
    /\ UNCHANGED <<process, initialized, tool_index, ops, asked,
                   handshaken, listed, heard, running, calls>>

\* A page of a listing: the next one is requested, or the listing is complete
\* and replaces the routes of the server.
PageListed ==
    LET s == op.server IN
    /\ pc = "await" /\ out[s] # <<>> /\ op.kind \in {"discover", "best_effort"}
    /\ IsAnswer(Head(out[s])) /\ Head(out[s]).class = "result"
    /\ Accept(s)
    /\ \E page \in SUBSET Tool :
         LET found == op.found \cup page
             pages == IF op.pages = 0 THEN page ELSE heard \cup page
         IN  \/ /\ op.pages + 1 < MaxPages     \* next_cursor
                /\ op' = [op EXCEPT !.found = found, !.pages = @ + 1]
                /\ pc' = "request" /\ heard' = pages
                /\ UNCHANGED <<tool_index, listed>>
             \/ /\ tool_index' = [tool_index EXCEPT ![s] = found]
                /\ listed' = [listed EXCEPT ![s] = pages] /\ heard' = {}
                /\ NextServer
    /\ UNCHANGED <<process, initialized, ops, asked, handshaken, running, calls>>

ResourcesAnswered ==
    LET s == op.server IN
    /\ pc = "await" /\ out[s] # <<>> /\ op.kind = "resources"
    /\ IsAnswer(Head(out[s])) /\ Head(out[s]).class = "result"
    /\ Accept(s)
    /\ \/ /\ op.pages + 1 < MaxPages
          /\ op' = [op EXCEPT !.pages = @ + 1]
          /\ pc' = "request"
       \/ EndOperation
    /\ UNCHANGED <<process, initialized, tool_index, ops, asked,
                   handshaken, listed, heard, running, calls>>

\* What the manager does by itself once an operation began.
Proceed ==
    \/ Ensure \/ Boot \/ SpawnFails \/ InitializeFails \/ InitializeReplied
    \/ SendRequest \/ RequestFails \/ BadReply \/ ErrorReply
    \/ CallAnswered \/ PageListed \/ ResourcesAnswered

Next ==
    \/ Discover \/ CallTool \/ Resources \/ Shutdown
    \/ Proceed
    \/ \E s \in Server : ServerReplies(s) \/ ServerExits(s)

Spec == Init /\ [][Next]_vars

\* The task that runs the operation is polled, and its timeouts fire.
FairSpec == Spec /\ WF_vars(Proceed)

-----------------------------------------------------------------------------
(***************************************************************************)
(* Properties.                                                             *)
(***************************************************************************)
\* The type invariant.
TypeOK ==
    /\ process \in [Server -> {"none", "alive", "dead"}]
    /\ initialized \in [Server -> BOOLEAN]
    /\ tool_index \in [Server -> SUBSET Tool] /\ listed \in [Server -> SUBSET Tool]
    /\ pc \in PC /\ op \in Operation /\ ops \in Nat
    /\ \A s \in Server : out[s] \in Seq(Reply)
    /\ asked \in [Server -> BOOLEAN]
    /\ handshaken \subseteq Server
    /\ heard \subseteq Tool /\ running \in [Server -> Nat] /\ calls \in Nat /\ stale \in BOOLEAN

\* No answer is taken for the answer to another request, however late or often
\* a server answers.
NoStaleAnswer == ~stale

\* A tool call reaches a server at most once, although the initialize before
\* it is retried after a timeout and listings are.
CallAtMostOnce == calls <= 1

\* A request other than initialize goes only to a child that itself granted
\* an initialize: never to one spawned in place of the one that did.
InitializedChild == pc = "await" => op.server \in handshaken

\* At most one child of a server runs, and it is the one the manager holds: no
\* reset, no retry and no restart leaves another one behind.
NoOrphan == \A s \in Server : running[s] = IF process[s] = "alive" THEN 1 ELSE 0

\* A request is answered by its own answer, of the one child of its server there is, which
\* granted an initialize first: no timeout, reset or retry leaves another one behind.
ChildAnswers == TypeOK /\ NoStaleAnswer /\ InitializedChild /\ NoOrphan

\* Routes lead only to tools that one child listed in one complete listing:
\* a listing that was retried adds nothing of the child that failed it.
RoutesAsListed == \A s \in Server : tool_index[s] \subseteq listed[s]

\* Every operation ends, however the servers behave, as long as their listings
\* have finitely many pages.
OperationsEnd == pc # "idle" ~> pc = "idle"
=============================================================================
