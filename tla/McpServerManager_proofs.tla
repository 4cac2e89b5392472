---------------------- MODULE McpServerManager_proofs ----------------------
(***************************************************************************)
(* Theorems about McpServerManager, and about what is told of servers      *)
(* (McpLifecycle).                                                         *)
(***************************************************************************)
EXTENDS McpServerManager, McpLifecycle, TLAPS
-----------------------------------------------------------------------------
(***************************************************************************)
(* The manager of MCP servers, for any number of servers and tools and any *)
(* length of listings: three invariants that hold together.                *)
(*                                                                         *)
(*   ChildInv  the child the manager holds of a server is the only one     *)
(*             that runs, and a server that counts as initialized was by   *)
(*             that child                                                  *)
(*   TaskInv   a request is under way only with such a child, a call was   *)
(*             not made before its request is, and what a listing has      *)
(*             found was heard since it last started over                  *)
(*   RouteInv  routes lead to what was listed, and no old answer was       *)
(*             taken                                                       *)
(***************************************************************************)
ChildInv ==
    /\ process \in [Server -> {"none", "alive", "dead"}]
    /\ initialized \in [Server -> BOOLEAN]
    /\ out \in [Server -> Seq(Reply)] /\ asked \in [Server -> BOOLEAN]
    /\ handshaken \subseteq Server /\ running \in [Server -> Nat]
    /\ NoOrphan
    /\ \A s \in Server : initialized[s] /\ process[s] # "none" => s \in handshaken

TaskInv ==
    /\ pc \in PC /\ op \in Operation /\ ops \in Nat
    /\ heard \subseteq Tool /\ calls \in Nat /\ calls <= 1
    /\ pc \notin {"idle", "await"} /\ op.kind = "call" => calls = 0
    /\ pc \in {"request", "await"} => op.server \in handshaken
    /\ op.found \subseteq IF op.pages = 0 THEN {} ELSE heard

RouteInv ==
    /\ tool_index \in [Server -> SUBSET Tool] /\ listed \in [Server -> SUBSET Tool]
    /\ RoutesAsListed
    /\ stale = FALSE

ManagerInv == ChildInv /\ TaskInv /\ RouteInv

LEMMA ServersAsNumbered ==
    /\ Len(Servers) \in Nat /\ DOMAIN Servers = 1..Len(Servers)
    /\ \A n \in 1..Len(Servers) : Servers[n] \in Server
    /\ Servers[1] \in Server
BY ServersAssumption DEF Server

LEMMA NoOpIsOperation ==
    /\ NoOp \in Operation /\ NoOp.found = {} /\ NoOp.pages = 0 /\ NoOp.kind = "none"
BY ServersAsNumbered DEF NoOp, Operation, Kind

LEMMA OpType ==
    ASSUME TaskInv
    PROVE  /\ op.kind \in Kind /\ op.server \in Server /\ op.todo \in Nat
           /\ op.found \subseteq Tool /\ op.pages \in Nat
BY DEF TaskInv, Operation

-----------------------------------------------------------------------------
(* The children.                                                           *)

LEMMA KillKeeps ==
    ASSUME ChildInv, NEW S \in SUBSET Server, Kill(S),
           initialized' = [s \in Server |-> initialized[s] /\ s \notin S]
    PROVE  ChildInv'
<1>1. /\ process' \in [Server -> {"none", "alive", "dead"}]
      /\ initialized' \in [Server -> BOOLEAN] /\ asked' \in [Server -> BOOLEAN]
      /\ handshaken' \subseteq Server
  BY DEF ChildInv, Kill
<1>2. out' \in [Server -> Seq(Reply)]
  <2>1. <<>> \in Seq(Reply)
    OBVIOUS
  <2> QED
    BY <2>1 DEF ChildInv, Kill
<1>3. /\ running' \in [Server -> Nat]
      /\ \A s \in Server : running'[s] = IF process'[s] = "alive" THEN 1 ELSE 0
  <2>1. \A s \in Server : running[s] = IF process[s] = "alive" THEN 1 ELSE 0
    BY DEF ChildInv, NoOrphan
  <2>2. \A s \in Server : /\ process'[s] = (IF s \in S THEN "none" ELSE process[s])
                          /\ running'[s] = IF s \in S /\ process[s] = "alive"
                                           THEN running[s] - 1 ELSE running[s]
    BY DEF Kill
  <2>3. \A s \in Server : running'[s] = IF process'[s] = "alive" THEN 1 ELSE 0
    BY <2>1, <2>2
  <2> QED
    BY <2>3 DEF Kill
<1>4. \A s \in Server : initialized'[s] /\ process'[s] # "none" => s \in handshaken'
  BY DEF ChildInv, Kill
<1> QED
  BY <1>1, <1>2, <1>3, <1>4 DEF ChildInv, NoOrphan

LEMMA ResetKeeps ==
    ASSUME ChildInv, NEW s \in Server, ResetServer(s)
    PROVE  ChildInv'
<1>1. initialized' = [x \in Server |-> initialized[x] /\ x \notin {s}]
  BY DEF ChildInv, ResetServer
<1> QED
  BY <1>1, KillKeeps DEF ResetServer

LEMMA NoResetKeeps ==
    ASSUME ChildInv, NoReset
    PROVE  ChildInv'
BY DEF ChildInv, NoReset, NoOrphan

LEMMA WriteKeeps ==
    ASSUME ChildInv, NEW s \in Server, Write(s)
    PROVE  out' \in [Server -> Seq(Reply)] /\ asked' \in [Server -> BOOLEAN]
<1>1. [n \in 1..Len(out[s]) |-> OldReply] \in Seq(Reply)
  <2>1. Len(out[s]) \in Nat /\ OldReply \in Reply
    BY DEF ChildInv, Reply
  <2> QED
    BY <2>1
<1> DEFINE q == [n \in 1..Len(out[s]) |-> OldReply]
<1>2. out' = [out EXCEPT ![s] = q]
  BY DEF Write
<1> HIDE DEF q
<1> QED
  BY <1>1, <1>2 DEF ChildInv, Write, q

LEMMA AcceptKeeps ==
    ASSUME ChildInv, RouteInv, NEW s \in Server, out[s] # <<>>, IsAnswer(Head(out[s])), Accept(s)
    PROVE  out' \in [Server -> Seq(Reply)] /\ stale' = FALSE
<1>1. out[s] \in Seq(Reply)
  BY DEF ChildInv
<1>2. Tail(out[s]) \in Seq(Reply)
  BY <1>1
<1>3. Head(out[s]).current = TRUE
  <2>1. Head(out[s]) \in Reply
    BY <1>1
  <2>2. \A r \in Reply : r.current \in BOOLEAN
    <3>1. \A r \in [current : {TRUE}, class : {"result", "error", "empty", "garbage"}] :
             r.current = TRUE
      OBVIOUS
    <3>2. OldReply.current = FALSE
      BY DEF OldReply
    <3> QED
      BY <3>1, <3>2 DEF Reply
  <2> QED
    BY <2>1, <2>2 DEF IsAnswer
<1> QED
  BY <1>2, <1>3 DEF ChildInv, RouteInv, Accept

-----------------------------------------------------------------------------
(* The task.                                                               *)

LEMMA EndKeeps ==
    ASSUME TaskInv, EndOperation, UNCHANGED <<ops, calls>>, heard' \subseteq Tool
    PROVE  TaskInv'
BY NoOpIsOperation DEF TaskInv, EndOperation, PC

LEMMA NextServerKeeps ==
    ASSUME TaskInv, NextServer, op.kind # "call", UNCHANGED <<ops, calls>>, heard' \subseteq Tool
    PROVE  TaskInv'
<1>1. CASE op.todo < Len(Servers)
  <2> DEFINE o == [NoOp EXCEPT !.kind = op.kind, !.todo = op.todo + 1,
                               !.server = Servers[op.todo + 1]]
  <2>1. op.kind \in Kind /\ op.todo + 1 \in Nat /\ Servers[op.todo + 1] \in Server
    BY <1>1, OpType, ServersAsNumbered
  <2>2. o \in Operation /\ o.kind = op.kind /\ o.found = {}
    BY <2>1, NoOpIsOperation DEF Operation
  <2>3. op' = o /\ pc' = "ensure"
    BY <1>1 DEF NextServer
  <2> HIDE DEF o
  <2> QED
    BY <2>2, <2>3 DEF TaskInv, PC
<1>2. CASE ~(op.todo < Len(Servers))
  BY <1>2, EndKeeps DEF NextServer
<1> QED
  BY <1>1, <1>2

\* The operation is over for one server, in an error.
LEMMA OverKeeps ==
    ASSUME TaskInv, RouteInv, UNCHANGED <<ops, listed, heard, calls>>, stale' = FALSE,
           IF op.kind = "best_effort"
           THEN NextServer /\ tool_index' = [tool_index EXCEPT ![op.server] = {}]
           ELSE EndOperation /\ UNCHANGED tool_index
    PROVE  TaskInv' /\ RouteInv'
<1>1. op.server \in Server /\ heard \subseteq Tool
  BY OpType DEF TaskInv
<1>2. TaskInv'
  BY <1>1, EndKeeps, NextServerKeeps
<1>3. RouteInv'
  BY <1>1 DEF RouteInv, RoutesAsListed
<1> QED
  BY <1>2, <1>3

LEMMA FailKeeps ==
    ASSUME ManagerInv, NEW e, Fail(e), UNCHANGED <<ops, listed, heard, calls, stale>>
    PROVE  ManagerInv'
<1>1. op.server \in Server /\ ChildInv /\ TaskInv /\ RouteInv
  BY OpType DEF ManagerInv
<1>2. CASE IsRetryable(e) /\ op.attempts = 0 /\ op.kind # "call"
  <2>1. /\ ResetServer(op.server) /\ pc' = "ensure" /\ UNCHANGED tool_index
        /\ op' = [op EXCEPT !.attempts = 1, !.init_attempts = 0, !.found = {}, !.pages = 0]
    BY <1>2 DEF Fail
  <2>2. op' \in Operation /\ op'.kind = op.kind /\ op'.found = {}
    <3>1. 0 \in 0..1 /\ 1 \in 0..1 /\ 0 \in Nat /\ {} \in SUBSET Tool
      OBVIOUS
    <3>2. op \in Operation
      BY <1>1 DEF TaskInv
    <3> QED
      BY <2>1, <3>1, <3>2 DEF Operation
  <2>3. TaskInv'
    BY <1>1, <1>2, <2>1, <2>2 DEF TaskInv, PC
  <2>4. RouteInv'
    BY <1>1, <2>1 DEF RouteInv, RoutesAsListed
  <2> QED
    BY <1>1, <2>1, <2>3, <2>4, ResetKeeps DEF ManagerInv
<1>3. CASE ~(IsRetryable(e) /\ op.attempts = 0 /\ op.kind # "call")
  <2>1. /\ IF ShouldReset(e) THEN ResetServer(op.server) ELSE NoReset
        /\ IF op.kind = "best_effort"
           THEN NextServer /\ tool_index' = [tool_index EXCEPT ![op.server] = {}]
           ELSE EndOperation /\ UNCHANGED tool_index
    BY <1>3 DEF Fail
  <2>2. ChildInv'
    BY <1>1, <2>1, ResetKeeps, NoResetKeeps
  <2>3. stale' = FALSE
    BY <1>1 DEF RouteInv
  <2>4. TaskInv' /\ RouteInv'
    BY <1>1, <2>1, <2>3, OverKeeps
  <2> QED
    BY <2>2, <2>4 DEF ManagerInv
<1> QED
  BY <1>2, <1>3

-----------------------------------------------------------------------------
(* One lemma for the steps of an operation, one for what happens besides.  *)

LEMMA BeginKeeps ==
    ASSUME ManagerInv, NEW o \in Operation, o.found = {}, Begin(o)
    PROVE  ManagerInv'
<1>1. TaskInv'
  BY DEF ManagerInv, TaskInv, Begin, PC
<1>2. ChildInv' /\ RouteInv'
  BY DEF ManagerInv, ChildInv, NoOrphan, RouteInv, RoutesAsListed, Begin, children
<1> QED
  BY <1>1, <1>2 DEF ManagerInv

LEMMA OperationsKeep ==
    ASSUME ManagerInv, Discover \/ CallTool \/ Resources \/ Shutdown
    PROVE  ManagerInv'
<1>1. CASE Discover
  <2>1. PICK kind \in {"discover", "best_effort"} : Begin([NoOp EXCEPT !.kind = kind, !.todo = 1])
    BY <1>1 DEF Discover
  <2> DEFINE o == [NoOp EXCEPT !.kind = kind, !.todo = 1]
  <2>2. o \in Operation /\ o.found = {}
    BY NoOpIsOperation DEF Operation, Kind
  <2> HIDE DEF o
  <2>3. Begin(o)
    BY <2>1 DEF o
  <2> QED
    BY <2>2, <2>3, BeginKeeps
<1>2. ASSUME NEW kind \in {"call", "resources"}, NEW s \in Server,
             Begin([NoOp EXCEPT !.kind = kind, !.server = s])
      PROVE  ManagerInv'
  <2> DEFINE o == [NoOp EXCEPT !.kind = kind, !.server = s]
  <2>1. o \in Operation /\ o.found = {}
    BY NoOpIsOperation DEF Operation, Kind
  <2> HIDE DEF o
  <2>2. Begin(o)
    BY <1>2 DEF o
  <2> QED
    BY <2>1, <2>2, BeginKeeps
<1>3. CASE Shutdown
  <2>1. PICK n \in 0..Len(Servers) :
          LET S == {Servers[k] : k \in 1..n}
          IN  Kill(S) /\ initialized' = [s \in Server |-> initialized[s] /\ s \notin S]
    BY <1>3 DEF Shutdown
  <2> DEFINE S == {Servers[k] : k \in 1..n}
  <2>2. S \subseteq Server
    BY ServersAsNumbered
  <2>3. Kill(S) /\ initialized' = [s \in Server |-> initialized[s] /\ s \notin S]
    BY <2>1
  <2> HIDE DEF S
  <2>4. ChildInv'
    BY <2>2, <2>3, KillKeeps DEF ManagerInv
  <2>5. TaskInv' /\ RouteInv'
    BY <1>3 DEF ManagerInv, TaskInv, RouteInv, RoutesAsListed, Shutdown
  <2> QED
    BY <2>4, <2>5 DEF ManagerInv
<1> QED
  BY <1>1, <1>2, <1>3 DEF CallTool, Resources

LEMMA ServerStepKeeps ==
    ASSUME ManagerInv, NEW s \in Server, ServerReplies(s) \/ ServerExits(s)
    PROVE  ManagerInv'
<1>1. CASE ServerReplies(s)
  <2>1. PICK r \in Reply : /\ out' = [out EXCEPT ![s] = Append(@, r)]
                           /\ asked' = [asked EXCEPT ![s] = @ /\ ~r.current]
    BY <1>1 DEF ServerReplies
  <2>2. UNCHANGED <<manager, history>>
    BY <1>1 DEF ServerReplies
  <2>3. Append(out[s], r) \in Seq(Reply)
    BY DEF ManagerInv, ChildInv
  <2>4. out' \in [Server -> Seq(Reply)] /\ asked' \in [Server -> BOOLEAN]
    BY <2>1, <2>3 DEF ManagerInv, ChildInv
  <2> QED
    BY <2>2, <2>4 DEF manager, history, ManagerInv, ChildInv, NoOrphan, TaskInv, RouteInv, RoutesAsListed
<1>2. CASE ServerExits(s)
  <2>1. ChildInv /\ process[s] = "alive" /\ running[s] = 1
    BY <1>2 DEF ManagerInv, ChildInv, NoOrphan, ServerExits
  <2>2. /\ process' \in [Server -> {"none", "alive", "dead"}] /\ running' \in [Server -> Nat]
        /\ NoOrphan'
    BY <1>2, <2>1 DEF ChildInv, NoOrphan, ServerExits
  <2>3. ChildInv'
    BY <1>2, <2>1, <2>2 DEF ChildInv, ServerExits, children
  <2>4. TaskInv' /\ RouteInv'
    BY <1>2 DEF ManagerInv, TaskInv, RouteInv, RoutesAsListed, ServerExits
  <2> QED
    BY <2>3, <2>4 DEF ManagerInv
<1> QED
  BY <1>1, <1>2

\* ensure_server_ready.
LEMMA ReadyKeeps ==
    ASSUME ManagerInv, Ensure \/ Boot \/ SpawnFails \/ InitializeFails \/ InitializeReplied
    PROVE  ManagerInv'
<1>1. op.server \in Server /\ ChildInv /\ TaskInv /\ RouteInv
  BY OpType DEF ManagerInv
<1> DEFINE s == op.server
<1>2. CASE Ensure
  <2>1. ChildInv'
    BY <1>1, <1>2, ResetKeeps, NoResetKeeps DEF Ensure
  <2>2. TaskInv' /\ RouteInv'
    BY <1>1, <1>2 DEF TaskInv, RouteInv, RoutesAsListed, Ensure, PC
  <2> QED
    BY <2>1, <2>2 DEF ManagerInv
<1>3. CASE Boot
  <2>1. /\ process' \in [Server -> {"none", "alive", "dead"}] /\ running' \in [Server -> Nat]
        /\ initialized' \in [Server -> BOOLEAN] /\ NoOrphan'
        /\ \A x \in Server : initialized'[x] /\ process'[x] # "none" => x \in handshaken
    <3>1. CASE /\ process[s] = "none"
               /\ process' = [process EXCEPT ![s] = "alive"]
               /\ running' = [running EXCEPT ![s] = @ + 1]
               /\ initialized' = [initialized EXCEPT ![s] = FALSE]
      <4>1. running[s] = 0
        BY <1>1, <3>1 DEF ChildInv, NoOrphan
      <4>2. /\ running' \in [Server -> Nat] /\ running'[s] = 1
            /\ \A x \in Server \ {s} : running'[x] = running[x]
        BY <1>1, <3>1, <4>1 DEF ChildInv
      <4> HIDE DEF s
      <4> QED
        BY <1>1, <3>1, <4>2 DEF ChildInv, NoOrphan, s
    <3>2. CASE UNCHANGED <<process, running, initialized>>
      BY <1>1, <3>2 DEF ChildInv, NoOrphan
    <3> QED
      BY <1>3, <3>1, <3>2 DEF Boot
  <2>2. out' \in [Server -> Seq(Reply)] /\ asked' \in [Server -> BOOLEAN]
    <3>1. CASE Write(s)
      BY <1>1, <3>1, WriteKeeps
    <3>2. CASE UNCHANGED <<out, asked>>
      BY <1>1, <3>2 DEF ChildInv
    <3> QED
      BY <1>3, <3>1, <3>2 DEF Boot
  <2>3. ChildInv' /\ handshaken' = handshaken
    BY <1>1, <1>3, <2>1, <2>2 DEF ChildInv, Boot
  <2>4. pc' = "await_init" \/ (pc' = "request" /\ s \in handshaken)
    <3>1. initialized'[s] => process'[s] # "none"
      BY <1>1, <1>3 DEF Boot, ChildInv
    <3> QED
      BY <1>1, <1>3, <2>1, <3>1 DEF Boot
  <2>5. TaskInv' /\ RouteInv'
    BY <1>1, <1>3, <2>3, <2>4 DEF TaskInv, RouteInv, RoutesAsListed, Boot, PC
  <2> QED
    BY <2>3, <2>5 DEF ManagerInv
<1>4. CASE SpawnFails
  BY <1>4, FailKeeps DEF SpawnFails
<1>5. CASE InitializeFails
  <2>1. PICK e \in ExchangeError(s) :
           IF op.init_attempts = 0
           THEN /\ ResetServer(s)
                /\ op' = [op EXCEPT !.init_attempts = 1]
                /\ pc' = "boot"
                /\ UNCHANGED tool_index
           ELSE Fail(e)
    BY <1>5 DEF InitializeFails
  <2>2. UNCHANGED <<ops, listed, heard, calls, stale>> /\ pc = "await_init"
    BY <1>5 DEF InitializeFails
  <2>3. CASE op.init_attempts = 0
    <3>1. /\ op' \in Operation /\ op'.kind = op.kind /\ op'.found = op.found
          /\ op'.pages = op.pages
      BY <1>1, <2>1, <2>3 DEF TaskInv, Operation
    <3>2. TaskInv' /\ RouteInv'
      BY <1>1, <2>1, <2>2, <2>3, <3>1 DEF TaskInv, RouteInv, RoutesAsListed, PC
    <3> QED
      BY <1>1, <2>1, <2>3, <3>2, ResetKeeps DEF ManagerInv
  <2> QED
    BY <2>1, <2>2, <2>3, FailKeeps
<1>6. CASE InitializeReplied
  <2> DEFINE r == Head(out[s])
  <2>1. pc = "await_init" /\ out[s] # <<>>
    BY <1>6 DEF InitializeReplied
  <2>2. CASE /\ IsAnswer(r) /\ Accept(s)
             /\ initialized' = [initialized EXCEPT ![s] = TRUE]
             /\ handshaken' = handshaken \cup {s} /\ pc' = "request"
             /\ UNCHANGED <<process, tool_index, op, ops, asked, listed, heard, running, calls>>
    <3>1. out' \in [Server -> Seq(Reply)] /\ stale' = FALSE
      BY <1>1, <2>1, <2>2, AcceptKeeps
    <3>2. ChildInv'
      BY <1>1, <2>2, <3>1 DEF ChildInv, NoOrphan
    <3>3. TaskInv' /\ RouteInv'
      BY <1>1, <2>1, <2>2, <3>1 DEF TaskInv, RouteInv, RoutesAsListed, PC
    <3> QED
      BY <3>2, <3>3 DEF ManagerInv
  <2>3. CASE Fail("InvalidResponse") /\ UNCHANGED <<ops, listed, heard, calls, stale>>
    BY <2>3, FailKeeps
  <2>4. CASE /\ IsAnswer(r) /\ Accept(s)
             /\ IF op.kind = "best_effort"
                THEN NextServer /\ tool_index' = [tool_index EXCEPT ![s] = {}]
                ELSE EndOperation /\ UNCHANGED tool_index
             /\ UNCHANGED <<process, initialized, ops, asked, handshaken, listed, heard, running, calls>>
    <3>1. out' \in [Server -> Seq(Reply)] /\ stale' = FALSE
      BY <1>1, <2>1, <2>4, AcceptKeeps
    <3>2. ChildInv'
      BY <1>1, <2>4, <3>1 DEF ChildInv, NoOrphan
    <3>3. TaskInv' /\ RouteInv'
      BY <1>1, <2>4, <3>1, OverKeeps
    <3> QED
      BY <3>2, <3>3 DEF ManagerInv
  <2> QED
    BY <1>6, <2>2, <2>3, <2>4 DEF InitializeReplied
<1> QED
  BY <1>2, <1>3, <1>4, <1>5, <1>6

\* The request and its answers.
LEMMA RequestKeeps ==
    ASSUME ManagerInv,
           \/ SendRequest \/ RequestFails \/ BadReply \/ ErrorReply
           \/ CallAnswered \/ PageListed \/ ResourcesAnswered
    PROVE  ManagerInv'
<1>1. op.server \in Server /\ ChildInv /\ TaskInv /\ RouteInv
  BY OpType DEF ManagerInv
<1> DEFINE s == op.server
<1>2. CASE SendRequest
  <2>1. out' \in [Server -> Seq(Reply)] /\ asked' \in [Server -> BOOLEAN]
    BY <1>1, <1>2, WriteKeeps DEF SendRequest
  <2>2. ChildInv'
    BY <1>1, <1>2, <2>1 DEF ChildInv, NoOrphan, SendRequest
  <2>3. calls' \in Nat /\ calls' <= 1
    BY <1>1, <1>2 DEF TaskInv, SendRequest
  <2>4. TaskInv' /\ RouteInv'
    BY <1>1, <1>2, <2>3 DEF TaskInv, RouteInv, RoutesAsListed, SendRequest, PC
  <2> QED
    BY <2>2, <2>4 DEF ManagerInv
<1>3. CASE RequestFails
  BY <1>3, FailKeeps DEF RequestFails
<1>4. CASE BadReply
  BY <1>4, FailKeeps DEF BadReply
<1>5. ASSUME out[s] # <<>>, IsAnswer(Head(out[s])), Accept(s),
             UNCHANGED <<process, initialized, asked, handshaken, running>>
      PROVE  ChildInv' /\ stale' = FALSE
  <2>1. out' \in [Server -> Seq(Reply)] /\ stale' = FALSE
    BY <1>1, <1>5, AcceptKeeps
  <2> QED
    BY <1>1, <1>5, <2>1 DEF ChildInv, NoOrphan
<1>6. CASE ErrorReply
  <2>1. ChildInv' /\ stale' = FALSE
    BY <1>5, <1>6 DEF ErrorReply
  <2>2. TaskInv' /\ RouteInv'
    BY <1>1, <1>6, <2>1, OverKeeps DEF ErrorReply
  <2> QED
    BY <2>1, <2>2 DEF ManagerInv
<1>7. CASE CallAnswered
  <2>1. ChildInv' /\ stale' = FALSE
    BY <1>5, <1>7 DEF CallAnswered
  <2>2. TaskInv'
    BY <1>1, <1>7, EndKeeps DEF CallAnswered, TaskInv
  <2>3. RouteInv'
    BY <1>1, <1>7, <2>1 DEF CallAnswered, RouteInv, RoutesAsListed
  <2> QED
    BY <2>1, <2>2, <2>3 DEF ManagerInv
<1>8. CASE PageListed
  <2>1. ChildInv' /\ stale' = FALSE
    BY <1>5, <1>8 DEF PageListed
  <2>2. PICK page \in SUBSET Tool :
         LET found == op.found \cup page
             pages == IF op.pages = 0 THEN page ELSE heard \cup page
         IN  \/ /\ op.pages + 1 < MaxPages
                /\ op' = [op EXCEPT !.found = found, !.pages = @ + 1]
                /\ pc' = "request" /\ heard' = pages
                /\ UNCHANGED <<tool_index, listed>>
             \/ /\ tool_index' = [tool_index EXCEPT ![s] = found]
                /\ listed' = [listed EXCEPT ![s] = pages] /\ heard' = {}
                /\ NextServer
    BY <1>8 DEF PageListed
  <2> DEFINE found == op.found \cup page
             pages == IF op.pages = 0 THEN page ELSE heard \cup page
  <2>3. found \subseteq pages /\ pages \subseteq Tool /\ op.pages \in Nat
    BY <1>1, OpType DEF TaskInv
  <2>4. found \subseteq Tool
    BY <2>3
  <2>5. /\ pc = "await" /\ op.kind \in {"discover", "best_effort"} /\ UNCHANGED <<ops, calls>>
        /\ handshaken' = handshaken /\ s \in handshaken
    BY <1>1, <1>8 DEF PageListed, TaskInv
  <2>6. CASE /\ op' = [op EXCEPT !.found = found, !.pages = @ + 1]
             /\ pc' = "request" /\ heard' = pages
             /\ UNCHANGED <<tool_index, listed>>
    <3> HIDE DEF found, pages
    <3>1. /\ op' \in Operation /\ op'.kind = op.kind /\ op'.server = s /\ op'.found = found
          /\ op'.pages = op.pages + 1
      <4>1. op \in Operation /\ found \in SUBSET Tool /\ op.pages + 1 \in Nat
        BY <1>1, <2>3, <2>4 DEF TaskInv
      <4> QED
        BY <2>6, <4>1 DEF Operation
    <3>2. TaskInv'
      BY <1>1, <2>3, <2>5, <2>6, <3>1 DEF TaskInv, PC
    <3>3. RouteInv'
      BY <1>1, <2>1, <2>6 DEF RouteInv, RoutesAsListed
    <3> QED
      BY <2>1, <3>2, <3>3 DEF ManagerInv
  <2>7. CASE /\ tool_index' = [tool_index EXCEPT ![s] = found]
             /\ listed' = [listed EXCEPT ![s] = pages] /\ heard' = {}
             /\ NextServer
    <3> HIDE DEF found, pages
    <3>1. TaskInv'
      BY <1>1, <2>5, <2>7, NextServerKeeps
    <3>2. RouteInv'
      BY <1>1, <2>1, <2>3, <2>4, <2>7 DEF RouteInv, RoutesAsListed
    <3> QED
      BY <2>1, <3>1, <3>2 DEF ManagerInv
  <2> QED
    BY <2>2, <2>6, <2>7
<1>9. CASE ResourcesAnswered
  <2>1. ChildInv' /\ stale' = FALSE
    BY <1>5, <1>9 DEF ResourcesAnswered
  <2>2. RouteInv'
    BY <1>1, <1>9, <2>1 DEF ResourcesAnswered, RouteInv, RoutesAsListed
  <2>3. ASSUME op' = [op EXCEPT !.pages = @ + 1], pc' = "request"
        PROVE  TaskInv'
    <3>1. /\ op' \in Operation /\ op'.kind = op.kind /\ op'.server = s /\ op'.found = op.found
          /\ op'.pages = op.pages + 1 /\ op.pages \in Nat
      <4>1. op \in Operation /\ op.pages \in Nat /\ op.pages + 1 \in Nat
        BY <1>1, OpType DEF TaskInv
      <4> QED
        BY <2>3, <4>1 DEF Operation
    <3>2. pc = "await" /\ op.kind = "resources" /\ UNCHANGED <<ops, calls, heard, handshaken>>
      BY <1>9 DEF ResourcesAnswered
    <3> QED
      BY <1>1, <2>3, <3>1, <3>2 DEF TaskInv, PC
  <2>4. ASSUME EndOperation
        PROVE  TaskInv'
    BY <1>1, <1>9, <2>4, EndKeeps DEF ResourcesAnswered, TaskInv
  <2>5. TaskInv'
    BY <1>9, <2>3, <2>4 DEF ResourcesAnswered
  <2> QED
    BY <2>1, <2>2, <2>5 DEF ManagerInv
<1> QED
  BY <1>2, <1>3, <1>4, <1>6, <1>7, <1>8, <1>9

\* The three invariants hold together in every reachable state of the manager.
THEOREM ManagerInvariant == Spec => []ManagerInv
<1>1. Init => ManagerInv
  <2> SUFFICES ASSUME Init PROVE ManagerInv
    OBVIOUS
  <2>1. <<>> \in Seq(Reply)
    OBVIOUS
  <2>2. ChildInv
    BY <2>1 DEF Init, ChildInv, NoOrphan
  <2>3. TaskInv
    BY NoOpIsOperation DEF Init, TaskInv, PC
  <2>4. RouteInv
    BY DEF Init, RouteInv, RoutesAsListed
  <2> QED
    BY <2>2, <2>3, <2>4 DEF ManagerInv
<1>2. ManagerInv /\ [Next]_vars => ManagerInv'
  <2> SUFFICES ASSUME ManagerInv, [Next]_vars PROVE ManagerInv'
    OBVIOUS
  <2>1. CASE UNCHANGED vars
    BY <2>1 DEF vars, manager, children, history, ManagerInv, ChildInv, NoOrphan, TaskInv,
                RouteInv, RoutesAsListed
  <2> QED
    BY <2>1, OperationsKeep, ServerStepKeeps, ReadyKeeps, RequestKeeps DEF Next, Proceed
<1> QED
  BY <1>1, <1>2, PTL DEF Spec

\* A request is answered by its own answer, of the only child of its server, which granted
\* an initialize first.
THEOREM ChildrenAnswer == Spec => []ChildAnswers
<1>1. ManagerInv => ChildAnswers
  BY DEF ManagerInv, ChildInv, TaskInv, RouteInv, ChildAnswers, TypeOK, NoStaleAnswer,
         InitializedChild
<1> QED
  BY <1>1, ManagerInvariant, PTL

\* A tool call reaches its server at most once, whatever is retried around it.
THEOREM CallsAreMadeOnce == Spec => []CallAtMostOnce
<1>1. ManagerInv => CallAtMostOnce
  BY DEF ManagerInv, TaskInv, CallAtMostOnce
<1> QED
  BY <1>1, ManagerInvariant, PTL

\* Routes lead only to tools of one complete listing, however often it started over.
THEOREM RoutesLeadToListed == Spec => []RoutesAsListed
<1>1. ManagerInv => RoutesAsListed
  BY DEF ManagerInv, RouteInv
<1> QED
  BY <1>1, ManagerInvariant, PTL
-----------------------------------------------------------------------------
(***************************************************************************)
(* The health of servers.  After a fatal failure the life of a server is   *)
(* in its last phases, and nothing it recorded since allows "ready"; each  *)
(* phase that succeeded while nothing failed came after the one before it. *)
(***************************************************************************)
Comes == {<<"config_load", "server_registration">>, <<"server_registration", "spawn_connect">>,
          <<"spawn_connect", "initialize_handshake">>, <<"initialize_handshake", "tool_discovery">>,
          <<"tool_discovery", "ready">>}
LifecycleInv ==
    /\ failure \in {"none", "fatal"} => last # "recoverable"
    /\ phase \notin {"none", "error_surfacing"} => phase \in passed
    /\ failure = "fatal" =>
          /\ phase \in {"error_surfacing", "shutdown", "cleanup"}
          /\ since \subseteq {"error_surfacing", "shutdown", "cleanup"}
    /\ "invocation" \in passed => "ready" \in passed
    /\ failure = "none" =>
          /\ \A c \in Comes : c[2] \in passed => c[1] \in passed
          /\ "resource_discovery" \in passed => "tool_discovery" \in passed

LEMMA PhaseKeeps == ASSUME LifecycleInv, NEW to \in Phase, RunPhase(to) PROVE LifecycleInv'
<1>1. CASE ~Admits(to)
  BY <1>1 DEF RunPhase, Recorded, LifecycleInv
<1>2. CASE Admits(to)
  <2>1. /\ phase' = to /\ last' = "success" /\ passed' = passed \cup {to} /\ since' = since \cup {to}
        /\ failure' = failure
    BY <1>2 DEF RunPhase
  <2>2. CASE phase = "none"
    BY <1>2, <2>1, <2>2 DEF Admits, LifecycleInv, Comes
  <2>3. CASE phase # "none"
    <3>1. Transition(phase, to) /\ (phase = "error_surfacing" /\ to = "ready" => last = "recoverable")
      BY <1>2, <2>3 DEF Admits
    <3>2. failure = "fatal" => to \in {"error_surfacing", "shutdown", "cleanup"}
      BY <3>1 DEF LifecycleInv, Transition, Forward
    <3>3. /\ to = "invocation" => "ready" \in passed
          /\ failure = "none" => /\ \A c \in Comes : to = c[2] => c[1] \in passed
                                 /\ to = "resource_discovery" => "tool_discovery" \in passed
      BY <2>3, <3>1 DEF LifecycleInv, Transition, Forward, Comes
    <3> QED
      BY <2>1, <3>2, <3>3 DEF LifecycleInv
  <2> QED
    BY <2>2, <2>3
<1> QED
  BY <1>1, <1>2

LEMMA LifecycleKeeps == ASSUME LifecycleInv, [LifecycleNext]_lifecycleVars PROVE LifecycleInv'
<1>1. CASE RecordFailure \/ RecordTimeout
  BY <1>1 DEF RecordFailure, RecordTimeout, Recorded, LifecycleInv
<1>2. CASE UNCHANGED lifecycleVars
  BY <1>2 DEF lifecycleVars, LifecycleInv
<1> QED
  BY <1>1, <1>2, PhaseKeeps DEF LifecycleNext

\* In what order the phases of a server succeeded, and what is left to it after a failure.
THEOREM LifecycleInvariant == HealthSpec => []LifecycleInv
<1>1. HealthInit => LifecycleInv
  BY DEF HealthInit, LifecycleInit, LifecycleInv, Comes
<1>2. LifecycleInv /\ [HealthNext]_<<lifecycleVars, question>> => LifecycleInv'
  <2> SUFFICES ASSUME LifecycleInv, [HealthNext]_<<lifecycleVars, question>> PROVE LifecycleInv'
    OBVIOUS
  <2>1. [LifecycleNext]_lifecycleVars
    BY DEF HealthNext
  <2> QED
    BY <2>1, LifecycleKeeps
<1> QED
  BY <1>1, <1>2, PTL DEF HealthSpec

\* What was asked is one of the questions, or nothing yet.
THEOREM OnlyAsked == HealthSpec => [](question \in HealthQuestions \cup {NoQuestion})
<1>1. HealthInit => question \in HealthQuestions \cup {NoQuestion}
  BY DEF HealthInit, Unasked
<1>2. question \in HealthQuestions \cup {NoQuestion} /\ [HealthNext]_<<lifecycleVars, question>>
        => (question \in HealthQuestions \cup {NoQuestion})'
  BY DEF HealthNext, Ask, Unasked
<1> QED
  BY <1>1, <1>2, PTL DEF HealthSpec

\* The report of a start: who is not pending works.
LEMMA StartTold ==
    ASSUME NEW servers, NEW tools
    PROVE  LET report == DegradedReport(servers, tools)
           IN  /\ report.working \cap report.failed = {} /\ report.working \cup report.failed = DOMAIN servers
               /\ \A t \in report.available : \E s \in report.working : t \in tools[s]
               /\ report.missing = {}
  BY DEF DegradedReport, MissingTools, Pending

LEMMA StateTold ==
    ASSUME NEW servers, \A s \in DOMAIN servers : servers[s].status \in HealthStatus
    PROVE  LET state == FromServers(servers)
               All(status) == \A s \in DOMAIN servers : servers[s].status = status
           IN  /\ state = "healthy" <=> DOMAIN servers # {} /\ All("healthy")
               /\ state = "failed" <=> All("failed")
<1>1. Named(servers, {"failed", "degraded"}) = {} <=> \A s \in DOMAIN servers : servers[s].status = "healthy"
  BY DEF Named, HealthStatus
<1>2. Named(servers, {"healthy", "degraded"}) = {} <=> \A s \in DOMAIN servers : servers[s].status = "failed"
  BY DEF Named, HealthStatus
<1> QED
  BY <1>1, <1>2 DEF FromServers

\* A tool both available and not is one that a failed server and another one offer.
LEMMA ModeTold ==
    ASSUME NEW servers, NEW discovered,
           discovered \subseteq UNION {servers[s].capabilities : s \in Named(servers, {"healthy", "degraded"})}
    PROVE  LET mode == DegradedMode(servers, discovered)
           IN  \A t \in mode.available \cap mode.unavailable :
                   \E s, u \in DOMAIN servers : s # u /\ t \in servers[s].capabilities \cap servers[u].capabilities
<1> SUFFICES ASSUME NEW t, t \in discovered, t \in UNION {servers[s].capabilities : s \in Named(servers, {"failed"})}
             PROVE  \E s, u \in DOMAIN servers : s # u /\ t \in servers[s].capabilities \cap servers[u].capabilities
  BY DEF DegradedMode
<1>1. PICK s \in Named(servers, {"failed"}) : t \in servers[s].capabilities
  OBVIOUS
<1>2. PICK u \in Named(servers, {"healthy", "degraded"}) : t \in servers[u].capabilities
  OBVIOUS
<1> QED
  BY <1>1, <1>2 DEF Named

LEMMA AllTold == ASSUME question \in HealthQuestions \cup {NoQuestion} PROVE HealthTold
<1>1. ASSUME Asked("start")
      PROVE  LET report == DegradedReport(question.servers, question.tools)
             IN  /\ report.working \cap report.failed = {} /\ report.working \cup report.failed = DOMAIN question.servers
                 /\ \A t \in report.available : \E s \in report.working : t \in question.tools[s]
                 /\ report.missing = {}
  BY StartTold
<1>2. ASSUME Asked("health")
      PROVE  \A s \in DOMAIN question.servers : question.servers[s].status \in HealthStatus
  BY <1>2, HealthAssumption DEF Asked, NoQuestion
<1>3. ASSUME Asked("health")
      PROVE  LET servers == question.servers
                 state == FromServers(servers)
                 All(status) == \A s \in DOMAIN servers : servers[s].status = status
             IN  /\ state = "healthy" <=> DOMAIN servers # {} /\ All("healthy")
                 /\ state = "failed" <=> All("failed")
  BY <1>2, <1>3, StateTold
<1> QED
  BY <1>1, <1>3, ModeTold DEF HealthTold

\* What is reported of servers and of their phases is what happened to them.
THEOREM HealthIsHonest == HealthSpec => []HealthHonest
<1>1. LifecycleInv => NoWayBack
  BY DEF LifecycleInv, NoWayBack, Comes
<1>2. LifecycleInv /\ question \in HealthQuestions \cup {NoQuestion} => HealthHonest
  BY <1>1, AllTold DEF HealthHonest
<1> QED
  BY <1>2, LifecycleInvariant, OnlyAsked, PTL
=============================================================================
