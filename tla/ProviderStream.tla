---------------------------- MODULE ProviderStream ----------------------------
(***************************************************************************)
(* One answer of the model: ApiClient::stream of the CLI's client          *)
(* (src/rust/crates/rusty-claude-cli/src/main.rs) and of a sub-agent's     *)
(* (src/rust/crates/tools/src/lib.rs), over the providers' clients         *)
(* (src/rust/crates/api): the check of the context window, the retries,    *)
(* the server's events as they come, the adaptor of OpenAI's chunks, the   *)
(* nudge after a stall, the chain of providers, the second request without *)
(* streaming, and the prompt cache.  A connection may fail, stall or end   *)
(* at every event.                                                         *)
(***************************************************************************)
EXTENDS Integers, Sequences, FiniteSets, SequencesExt

CONSTANTS
    Key,         \* requests: what the conversation asks
    MaxTools,    \* bound: tool calls in an answer
    Parts,       \* bound: pieces the input of a tool call comes in
    MaxRetries,  \* max_retries of the providers' clients
    ChainLen,    \* providers a sub-agent may use
    MaxCalls     \* bound: calls of stream()

ASSUME StreamBounds == /\ MaxTools \in Nat /\ Parts \in Nat \ {0} /\ MaxRetries \in Nat
                       /\ ChainLen \in Nat \ {0} /\ MaxCalls \in Nat

Tool == 1..MaxTools
Plan == [text : BOOLEAN, tools : 0..MaxTools]

VARIABLES
    call,     \* [client, key, post: the request ends with a tool result]
    pc,       \* where the call is
    turn,     \* the attempt of the CLI's client, or the provider of the chain
    tries,    \* attempts of send_with_retry
    srv,      \* the answer the server is sending
    ad,       \* the adaptor of OpenAI's chunks: StreamState
    st,       \* what the client has assembled
    cache,    \* [Key -> the answer in the completion cache, or 0]
    noted,    \* last_prompt_cache_record: the answer it is of, or 0
    \* History:
    calls, answers,  \* how many there have been
    keyOf,    \* [answer -> the request it answers]
    posts     \* POST /v1/messages of this call

vars == <<call, pc, turn, tries, srv, ad, st, cache, noted, calls, answers, keyOf, posts>>
history == <<calls, answers, keyOf, posts>>

NoCall == [client |-> "cli", key |-> CHOOSE k \in Key : TRUE, post |-> FALSE]
NoAnswer == [n |-> 0, kind |-> "anthropic", plan |-> [text |-> FALSE, tools |-> 0],
             block |-> 0, at |-> 0, parts |-> [t \in Tool |-> 0], said |-> FALSE, over |-> FALSE]
\* ToolCallState of each call, and the text block.
FreshAd == [text |-> FALSE, reason |-> FALSE,
            tool |-> [t \in Tool |-> [name |-> FALSE, args |-> 0, emitted |-> 0,
                                      started |-> FALSE, stopped |-> FALSE]]]
\* out: the events for the turn; pend: pieces of the input of the calls begun;
\* slot: the one call the CLI's client can hold, or 0; got: any event came.
FreshSt == [out |-> <<>>, pend |-> [t \in Tool |-> -1], slot |-> 0, stop |-> FALSE, got |-> FALSE]

Init ==
    /\ call = NoCall /\ pc = "idle" /\ turn = 0 /\ tries = 0
    /\ srv = NoAnswer /\ ad = FreshAd /\ st = FreshSt
    /\ cache = [k \in Key |-> 0] /\ noted = 0
    /\ calls = 0 /\ answers = 0 /\ keyOf = <<>> /\ posts = 0

-----------------------------------------------------------------------------
(* What the client makes of an event of the stream.                        *)

Ev(k, t, n) == [k |-> k, t |-> t, n |-> n]

\* A sub-agent's client keeps the calls begun by their index.
FeedByIndex(s, e) ==
    CASE e.k = "start" -> [s EXCEPT !.pend[e.t] = 0]
      [] e.k = "delta" -> [s EXCEPT !.pend[e.t] = IF @ = -1 THEN @ ELSE @ + e.n]
      [] OTHER -> IF e.t # 0 /\ s.pend[e.t] # -1
                         THEN [s EXCEPT !.pend[e.t] = -1,
                                  !.out = Append(@, [k |-> "tool", t |-> e.t, n |-> s.pend[e.t]])]
                         ELSE s
\* The CLI's client holds one: a start replaces it, a stop of any block ends it.
FeedSlot(s, e) ==
    CASE e.k = "start" -> [s EXCEPT !.slot = e.t, !.pend = [FreshSt.pend EXCEPT ![e.t] = 0]]
      [] e.k = "delta" -> IF s.slot = 0 THEN s ELSE [s EXCEPT !.pend[s.slot] = @ + e.n]
      [] OTHER -> IF s.slot = 0 THEN s
                         ELSE [s EXCEPT !.slot = 0, !.pend[s.slot] = -1,
                                  !.out = Append(@, [k |-> "tool", t |-> s.slot,
                                                     n |-> s.pend[s.slot]])]
Feed(client, s, e) ==
    LET g == [s EXCEPT !.got = TRUE]
    IN  CASE e.k = "text" -> [g EXCEPT !.out = Append(@, [k |-> "text", t |-> 0, n |-> 0])]
          [] e.k = "end" -> [g EXCEPT !.stop = TRUE]
          [] e.k = "other" -> g
          [] OTHER -> IF client = "cli" THEN FeedSlot(g, e) ELSE FeedByIndex(g, e)
FeedAll(client, s, es) ==
    LET After[n \in 0..Len(es)] == IF n = 0 THEN s ELSE Feed(client, After[n - 1], es[n])
    IN  After[Len(es)]
\* es: what there is of each tool call; the calls come in their order.
FeedEach(client, s, es) ==
    LET After[t \in 0..MaxTools] == IF t = 0 THEN s ELSE FeedAll(client, After[t - 1], es[t])
    IN  After[MaxTools]

\* What Anthropic sends for a plan: the text, block 0, then a block for each tool
\* call, then the end; every block is closed before the next.
BlockEvents(t) == [i \in 1..(Parts + 2) |-> IF i = 1 THEN Ev("start", t, 0)
                                           ELSE IF i < Parts + 2 THEN Ev("delta", t, 1) ELSE Ev("stop", t, 0)]
Script(plan, block) ==
    IF block = 0 THEN IF plan.text THEN <<Ev("other", 0, 0), Ev("text", 0, 0), Ev("stop", 0, 0)>>
                                   ELSE <<Ev("other", 0, 0)>>
    ELSE IF block <= plan.tools THEN BlockEvents(block)
    ELSE <<Ev("other", 0, 0), Ev("end", 0, 0)>>

-----------------------------------------------------------------------------
(* StreamState of openai_compat.rs.                                        *)

\* Mutant: delta_event sends the whole input again.
StartAndDeltaWhole(a, t) ==
    LET c == a.tool[t]
        begins == ~c.started /\ c.name
        open == c.started \/ c.name
    IN  [a |-> IF open THEN [a EXCEPT !.tool[t].started = TRUE, !.tool[t].emitted = c.args] ELSE a,
         es |-> (IF begins THEN <<Ev("start", t, 0)>> ELSE <<>>)
                \o (IF open /\ c.args > c.emitted THEN <<Ev("delta", t, c.args)>> ELSE <<>>)]
\* ingest_chunk for a piece of tool call t: name and id come with the first
\* piece, or late; what has come before the name is sent with the start.
StartAndDelta(a, t) ==
    LET c == a.tool[t]
        begins == ~c.started /\ c.name
        open == c.started \/ c.name
    IN  [a |-> IF open THEN [a EXCEPT !.tool[t].started = TRUE, !.tool[t].emitted = c.args] ELSE a,
         es |-> (IF begins THEN <<Ev("start", t, 0)>> ELSE <<>>)
                \o (IF open /\ c.args > c.emitted
                    THEN <<Ev("delta", t, c.args - c.emitted)>> ELSE <<>>)]
IngestTool(a, t, name) ==
    StartAndDelta([a EXCEPT !.tool[t].name = @ \/ name, !.tool[t].args = @ + 1], t)
\* finish_reason: "tool_calls" closes the calls begun.
Close(a) ==
    [a |-> [a EXCEPT !.tool = [t \in Tool |-> [a.tool[t] EXCEPT !.stopped = @ \/ a.tool[t].started]]],
     es |-> [t \in Tool |-> IF a.tool[t].started /\ ~a.tool[t].stopped THEN <<Ev("stop", t, 0)>> ELSE <<>>]]
\* finish(), at the end of the connection, whatever ended it.
LateEvents(a, t) ==
    LET late == StartAndDelta(a, t)
    IN  (IF a.tool[t].started THEN <<>> ELSE late.es)
        \o (IF late.a.tool[t].started /\ ~a.tool[t].stopped THEN <<Ev("stop", t, 0)>> ELSE <<>>)
Finish(client, s, a) ==
    LET text == IF a.text THEN Feed(client, s, Ev("stop", 0, 0)) ELSE s
        tools == FeedEach(client, text, [t \in Tool |-> LateEvents(a, t)])
    IN  Feed(client, Feed(client, tools, Ev("other", 0, 0)), Ev("end", 0, 0))

-----------------------------------------------------------------------------
(* The call.                                                               *)

\* The runtime asks for the next answer: the conversation, hence the request,
\* may be one it asked before (after a crash, from a file).  After an answer
\* nothing is noted, after a failure the turn ends and its client with it.
Stream(client, k) ==
    /\ pc = "idle" /\ calls < MaxCalls
    /\ \E post \in BOOLEAN : call' = [client |-> client, key |-> k, post |-> post]
    /\ pc' = "preflight" /\ turn' = 1 /\ tries' = 0
    /\ st' = FreshSt /\ srv' = NoAnswer /\ ad' = FreshAd
    /\ noted' = 0
    /\ calls' = calls + 1 /\ posts' = 0
    /\ UNCHANGED <<cache, answers, keyOf>>

\* The call returns an error.
Fails == pc' = "failed"
Keep == UNCHANGED <<call, cache, calls, answers, keyOf>>

\* preflight_message_request: the server's count of the tokens, if it gives one;
\* the OpenAI client estimates it.
Preflight ==
    /\ pc \in {"preflight", "preflight2"}
    /\ \/ pc' = IF pc = "preflight" THEN "send" ELSE "send2"
       \/ Fails
    /\ tries' = 0
    /\ UNCHANGED <<turn, srv, ad, st, noted, posts>> /\ Keep

\* A request is sent: send_raw_request and expect_success.
Post == /\ tries' = tries + 1 /\ posts' = posts + 1
\* The attempt fails: a retryable error is retried, after a delay, at most
\* max_retries times.
SendError ==
    /\ pc \in {"send", "send2"} /\ Post
    /\ pc' \in {IF tries' > MaxRetries THEN "exhausted" ELSE pc, "fatal"}
    /\ UNCHANGED <<turn, srv, ad, st, noted>> /\ Keep

\* send_with_retry has failed: a sub-agent goes on to the next provider of its
\* chain if the error is retryable.
SendFails ==
    /\ pc \in {"exhausted", "fatal"}
    /\ IF call.client = "agent" /\ pc = "exhausted" /\ turn < ChainLen
       THEN /\ turn' = turn + 1 /\ pc' = "preflight" /\ st' = FreshSt /\ srv' = NoAnswer
            /\ ad' = FreshAd
       ELSE Fails /\ UNCHANGED <<turn, st, srv, ad>>
    /\ UNCHANGED <<tries, noted, posts>> /\ Keep

\* The server answers the streaming request.
Answered(kind, plan) ==
    /\ answers' = answers + 1
    /\ keyOf' = Append(keyOf, call.key)
    /\ srv' = [NoAnswer EXCEPT !.n = answers', !.kind = kind, !.plan = plan]
SendOk ==
    /\ pc = "send" /\ Post
    /\ \E kind \in {"anthropic", "openai"}, plan \in Plan :
          /\ call.client = "cli" => kind = "anthropic"
          /\ Answered(kind, plan)
    /\ st' = FreshSt /\ ad' = FreshAd /\ pc' = "events"
    /\ UNCHANGED <<call, turn, noted, cache, calls>>

\* observe_event at message_stop: the usage is recorded, unless the event came
\* in a last frame that no blank line ended.
Observe(observed) ==
    IF observed /\ call.client = "cli"
    THEN noted' = srv.n ELSE UNCHANGED noted

\* The next event of Anthropic.
Event ==
    LET block == Script(srv.plan, srv.block)
        e == block[srv.at + 1]
        last == srv.at + 1 = Len(block)
    IN  /\ pc = "events" /\ srv.kind = "anthropic" /\ ~srv.over
        /\ srv' = [srv EXCEPT !.block = IF last THEN @ + 1 ELSE @, !.at = IF last THEN 0 ELSE @ + 1,
                              !.over = e.k = "end"]
        /\ st' = Feed(call.client, st, e)
        /\ \E blank \in BOOLEAN : Observe(e.k = "end" /\ blank)
        /\ UNCHANGED <<call, pc, turn, tries, ad, cache, calls, answers, keyOf, posts>>

\* The next chunk of OpenAI: text, a piece of one of the tool calls, which may
\* take turns, or the reason it has finished.
Chunk ==
    /\ pc = "events" /\ srv.kind = "openai" /\ ~srv.over
    /\ \/ /\ srv.plan.text /\ ~srv.said
          /\ srv' = [srv EXCEPT !.said = TRUE]
          /\ ad' = [ad EXCEPT !.text = TRUE]
          /\ st' = Feed(call.client, st, Ev("text", 0, 0))
       \/ \E t \in 1..srv.plan.tools, name \in BOOLEAN :
             /\ srv.parts[t] < Parts
             /\ srv.parts[t] = Parts - 1 => name \/ ad.tool[t].name
             /\ srv' = [srv EXCEPT !.parts[t] = @ + 1]
             /\ LET i == IngestTool(ad, t, name)
                IN  ad' = i.a /\ st' = FeedAll(call.client, [st EXCEPT !.got = TRUE], i.es)
       \/ /\ srv.plan.text => srv.said
          /\ \A t \in 1..srv.plan.tools : srv.parts[t] = Parts
          /\ srv' = [srv EXCEPT !.over = TRUE]
          /\ LET got == [st EXCEPT !.got = TRUE]
             IN  IF srv.plan.tools > 0
                 THEN ad' = [Close(ad).a EXCEPT !.reason = TRUE] /\ st' = FeedEach(call.client, got, Close(ad).es)
                 ELSE ad' = [ad EXCEPT !.reason = TRUE] /\ st' = got
    /\ UNCHANGED <<call, pc, turn, tries, noted, cache, history>>

\* The connection breaks, or an event does not parse.
StreamError ==
    /\ pc = "events"
    /\ pc' \in {"fatal", "exhausted"}   \* whether is_retryable says so
    /\ UNCHANGED <<turn, tries, srv, ad, st, noted, posts>> /\ Keep

\* Nothing comes within POST_TOOL_STALL_TIMEOUT: the CLI's client asks again,
\* once, if the request ends with a tool result.
Stall ==
    /\ pc = "events" /\ ~st.got
    /\ call.client = "cli" /\ call.post /\ turn = 1
    /\ turn' = 2 /\ pc' = "preflight" /\ srv' = NoAnswer /\ ad' = FreshAd
    /\ UNCHANGED <<tries, st, noted, posts>> /\ Keep

\* The connection ends, also before the answer has.
Eof ==
    LET s == IF srv.kind = "openai" /\ st.got THEN Finish(call.client, st, ad) ELSE st
        content == s.out # <<>>
        stopped == s.stop \/ content
    IN  /\ pc = "events"
        /\ st' = [s EXCEPT !.stop = stopped]
        /\ noted' = 0      \* push_prompt_cache_record takes it
        /\ pc' = IF stopped THEN "done" ELSE "lookup"
        /\ UNCHANGED <<turn, tries, srv, ad, posts>> /\ Keep

\* Neither content nor a stop has come: send_message, which asks the completion
\* cache first.
Lookup ==
    /\ pc = "lookup"
    /\ IF call.client = "cli" /\ cache[call.key] # 0
       THEN \/ /\ srv' = [NoAnswer EXCEPT !.n = cache[call.key], !.over = TRUE]
               /\ st' = [FreshSt EXCEPT !.stop = TRUE] /\ pc' = "done" /\ UNCHANGED cache
            \/ /\ cache' = [cache EXCEPT ![call.key] = 0]    \* expired
               /\ pc' = "preflight2" /\ UNCHANGED <<srv, st>>
       ELSE pc' = "preflight2" /\ UNCHANGED <<srv, st, cache>>
    /\ UNCHANGED <<call, turn, tries, ad, noted, history>>

\* The whole answer: response_to_events.
Whole(plan) ==
    [FreshSt EXCEPT !.stop = TRUE,
        !.out = (IF plan.text THEN <<[k |-> "text", t |-> 0, n |-> 0]>> ELSE <<>>)
                \o [t \in 1..plan.tools |-> [k |-> "tool", t |-> t, n |-> Parts]]]
SendOk2 ==
    /\ pc = "send2" /\ Post
    /\ \E plan \in Plan :
          /\ Answered(srv.kind, plan)
          /\ st' = Whole(plan)
    /\ cache' = IF call.client = "cli" THEN [cache EXCEPT ![call.key] = answers'] ELSE cache
    /\ pc' = "done"
    /\ UNCHANGED <<call, turn, ad, noted, calls>>

\* stream() has returned.
Return ==
    /\ pc \in {"done", "failed"} /\ pc' = "idle"
    /\ UNCHANGED <<call, turn, tries, srv, ad, st, cache, noted, history>>

Next ==
    \/ \E client \in {"cli", "agent"}, k \in Key : Stream(client, k)
    \/ Preflight \/ SendError \/ SendFails \/ SendOk \/ Event \/ Chunk \/ StreamError
    \/ Stall \/ Eof \/ Lookup \/ SendOk2 \/ Return

Spec == Init /\ [][Next]_vars
-----------------------------------------------------------------------------
\* What the turn gets comes from one answer, which was given to this request: nothing of
\* an attempt that was given up, of a provider that failed, of a stream that stalled or of
\* another conversation's answer in the completion cache.  What is noted of the prompt
\* cache is about that answer, and nothing is left for the next call.
OwnAnswer ==
    /\ pc = "done" => keyOf[srv.n] = call.key /\ noted = 0
    /\ pc = "events" => noted \in {0, srv.n}
\* It is the whole answer if the server finished it, whichever way its tool calls were
\* cut and interleaved.  What a broken connection leaves is a prefix with whole tool
\* calls, but over OpenAI's protocol, where the input of a call may be cut short.
StreamFaithful ==
    /\ OwnAnswer
    /\ pc = "done" =>
        /\ srv.kind = "anthropic" => IsPrefix(st.out, Whole(srv.plan).out)
        /\ IsInjective(st.out)
        /\ \A i \in DOMAIN st.out : st.out[i].n <= Parts
        /\ srv.over => ToSet(st.out) = ToSet(Whole(srv.plan).out)

\* However attempts, nudges, providers and the second request without streaming
\* combine, a call sends no more than this.
RequestsBounded ==
    posts <= (MaxRetries + 1) * (IF call.client = "agent" THEN 2 * ChainLen
                                 ELSE IF call.post THEN 3 ELSE 2)

=============================================================================
