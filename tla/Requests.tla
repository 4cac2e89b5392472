------------------------------- MODULE Requests -------------------------------
(***************************************************************************)
(* What the program sends to a model and makes of what comes back, but for *)
(* the course of one stream (ProviderStream): the choice of the provider   *)
(* and of its credentials, the messages as a provider takes them, the      *)
(* frames of an event stream, the prompt cache, the classes of errors, the *)
(* waits between retries and the chain of fallback models                  *)
(* (src/rust/crates/api/src, src/rust/crates/tools/src/lib.rs).            *)
(***************************************************************************)
EXTENDS Question, Integers, FiniteSets, SequencesExt

CONSTANTS CompletionTtl, PromptTtl, \* how long an answer, a prompt is taken to be cached
          MinDrop,                  \* the smallest drop of cached tokens that counts
          InitialBackoff, MaxBackoff, Shifts \* 32: the bits of the multiplier
-----------------------------------------------------------------------------
(* Providers.  A variable of the environment is unset, empty, set or not   *)
(* Unicode; one that is unset or empty is looked up in the file .env.      *)
Alias == "opus" :> "claude-opus" @@ "sonnet" :> "claude-sonnet" @@ "haiku" :> "claude-haiku"
         @@ "grok" :> "grok-3" @@ "grok-mini" :> "grok-3-mini"
ResolveModelAlias(model) == IF model \in DOMAIN Alias THEN Alias[model] ELSE model
MetadataForModel(model) ==
    CASE ResolveModelAlias(model) \in {"claude-opus", "claude-sonnet", "claude-haiku", "claude-other"} -> "anthropic"
      [] ResolveModelAlias(model) \in {"grok-3", "grok-3-mini", "grok-2"} -> "xai"
      [] OTHER -> "unknown"
ReadEnv(env, dotenv, key) ==
    CASE env[key] = "bad" -> "error"
      [] env[key] = "set" \/ (env[key] \in {"unset", "empty"} /\ dotenv[key] = "set") -> "value"
      [] OTHER -> "none"
HasKey(q, key) == ReadEnv(q.env, q.dotenv, key) = "value"
\* has_auth_from_env_or_saved, an error taken for no.
HasAnthropicAuth(q) ==
    LET key == ReadEnv(q.env, q.dotenv, "ANTHROPIC_API_KEY")
        token == ReadEnv(q.env, q.dotenv, "ANTHROPIC_AUTH_TOKEN")
    IN  \/ key = "value"
        \/ key = "none" /\ token = "value"
        \/ key = "none" /\ token = "none" /\ q.saved \notin {"none", "unreadable"}
DetectProvider(q) ==
    CASE MetadataForModel(q.model) # "unknown" -> MetadataForModel(q.model)
      [] q.env["OPENAI_BASE_URL"] # "unset" -> "openai"
      [] q.env["XAI_BASE_URL"] # "unset" -> "xai"
      [] HasAnthropicAuth(q) -> "anthropic"
      [] HasKey(q, "OPENAI_API_KEY") -> "openai"
      [] HasKey(q, "XAI_API_KEY") -> "xai"
      [] OTHER -> "anthropic"
\* AuthSource: what the requests carry; from_env, and with usesSaved from_env_or_saved.
AuthSource(q, usesSaved) ==
    LET key == ReadEnv(q.env, q.dotenv, "ANTHROPIC_API_KEY")
        token == ReadEnv(q.env, q.dotenv, "ANTHROPIC_AUTH_TOKEN")
    IN  CASE "error" \in {key, token} -> {"error"}
          [] key = "value" /\ token = "value" -> {"x-api-key", "bearer"}
          [] key = "value" -> {"x-api-key"}
          [] token = "value" -> {"bearer"}
          [] usesSaved /\ q.saved = "valid" -> {"bearer"}
          [] OTHER -> {"error"}
\* ProviderClient::from_model: the provider, or none for want of its credentials.
FromModel(q) ==
    LET provider == DetectProvider(q)
        ok == CASE provider = "anthropic" -> AuthSource(q, FALSE) # {"error"}
                [] provider = "openai" -> HasKey(q, "OPENAI_API_KEY")
                [] provider = "xai" -> HasKey(q, "XAI_API_KEY")
    IN  [provider |-> provider, ok |-> ok]
\* model_token_limit, and the preflight over an estimate of the input.
ContextWindow(model) ==
    CASE ResolveModelAlias(model) \in {"claude-opus", "claude-sonnet", "claude-haiku"} -> 200000
      [] ResolveModelAlias(model) \in {"grok-3", "grok-3-mini"} -> 131072
      [] OTHER -> 0
MaxTokens(model) == IF ResolveModelAlias(model) \in {"claude-opus", "other-opus"} THEN 32000 ELSE 64000
Preflight(model, input) == ContextWindow(model) = 0 \/ input + MaxTokens(model) <= ContextWindow(model)
-----------------------------------------------------------------------------
(* Messages.  A text is empty or not; a JSON value is a sequence of words, *)
(* and a string is one that holds JSON or some other <<"text", ...>>.      *)
ParseArguments(string) == IF string[1] = "json" THEN Tail(string) ELSE <<"raw", string[2]>>
PrintValue(value) == <<"json">> \o value
ConvertMessages(messages) ==
    LET Block(b) == IF b.kind = "use" THEN [b EXCEPT !.input = ParseArguments(b.input)] ELSE b
        One(m) == [role |-> IF m.role = "assistant" THEN "assistant" ELSE "user", content |-> [i \in DOMAIN m.blocks |-> Block(m.blocks[i])]]
    IN  SelectSeq([i \in DOMAIN messages |-> One(messages[i])], LAMBDA m : m.content # <<>>)
OfKind(content, kind) == SelectSeq(content, LAMBDA b : b.kind = kind)
\* Mutant: an assistant message without a text is left out.
TranslateMessageOfText(message) ==
    LET text == FlattenSeq([i \in DOMAIN OfKind(message.content, "text") |-> OfKind(message.content, "text")[i].text])
        uses == OfKind(message.content, "use")
        calls == [i \in DOMAIN uses |-> [id |-> uses[i].id, arguments |-> PrintValue(uses[i].input)]]
    IN  IF message.role = "assistant"
        THEN IF text = <<>> THEN <<>> ELSE <<[role |-> "assistant", content |-> text, calls |-> calls]>>
        ELSE [i \in DOMAIN SelectSeq(message.content, LAMBDA b : b.kind # "use") |->
                LET b == SelectSeq(message.content, LAMBDA c : c.kind # "use")[i] IN
                IF b.kind = "text" THEN [role |-> "user", content |-> b.text] ELSE [role |-> "tool", id |-> b.id, error |-> b.error]]
TranslateMessage(message) ==
    LET text == FlattenSeq([i \in DOMAIN OfKind(message.content, "text") |-> OfKind(message.content, "text")[i].text])
        uses == OfKind(message.content, "use")
        calls == [i \in DOMAIN uses |-> [id |-> uses[i].id, arguments |-> PrintValue(uses[i].input)]]
    IN  IF message.role = "assistant"
        THEN IF text = <<>> /\ calls = <<>> THEN <<>> ELSE <<[role |-> "assistant", content |-> text, calls |-> calls]>>
        ELSE [i \in DOMAIN SelectSeq(message.content, LAMBDA b : b.kind # "use") |->
                LET b == SelectSeq(message.content, LAMBDA c : c.kind # "use")[i] IN
                IF b.kind = "text" THEN [role |-> "user", content |-> b.text] ELSE [role |-> "tool", id |-> b.id, error |-> b.error]]
\* build_chat_completion_request.
ChatRequest(messages, system, provider) ==
    [messages |-> (IF system = <<>> THEN <<>> ELSE <<[role |-> "system", content |-> system]>>)
                  \o FlattenSeq([i \in DOMAIN messages |-> TranslateMessage(messages[i])]),
     usage |-> provider = "openai"]
\* A whole response (normalize_response, response_to_events), and a stream of the same.
Events(response, whole) ==
    (IF response.text = <<>> THEN <<>> ELSE <<[kind |-> "text", text |-> response.text]>>)
    \o [i \in DOMAIN response.calls |->
          [kind |-> "use", id |-> response.calls[i].id,
           input |-> IF whole THEN PrintValue(ParseArguments(response.calls[i].arguments)) ELSE response.calls[i].arguments]]
-----------------------------------------------------------------------------
(* Frames.  The bytes of a stream are words: "LF", "CR", ":" and a comment,*)
(* "ping", and the data of an event; lines of a frame are joined.          *)
Position(bytes, separator) ==
    LET at == {i \in 0..Len(bytes) - Len(separator) : SubSeq(bytes, i + 1, i + Len(separator)) = separator}
    IN  IF at = {} THEN -1 ELSE Min(at)
NextFrame(buffer) ==
    LET lf == Position(buffer, <<"LF", "LF">>)
        crlf == Position(buffer, <<"CR", "LF", "CR", "LF">>)
    IN  IF lf >= 0 THEN [found |-> TRUE, frame |-> SubSeq(buffer, 1, lf), rest |-> SubSeq(buffer, lf + 3, Len(buffer))]
        ELSE IF crlf >= 0 THEN [found |-> TRUE, frame |-> SubSeq(buffer, 1, crlf), rest |-> SubSeq(buffer, crlf + 5, Len(buffer))]
        ELSE [found |-> FALSE, frame |-> <<>>, rest |-> buffer]
ParseFrame(frame) ==
    LET data == SelectSeq(frame, LAMBDA w : w \notin {"LF", "CR", ":", "ping"})
    IN  IF data = <<>> \/ Contains(frame, "ping") \/ data = <<"[DONE]">> THEN <<>> ELSE <<data>>
Drained(buffer) ==
    LET D[n \in 0..Len(buffer)] ==
            IF n = 0 THEN [events |-> <<>>, rest |-> buffer, more |-> TRUE]
            ELSE LET d == D[n - 1]
                     f == NextFrame(d.rest)
                 IN  IF f.found THEN [events |-> d.events \o ParseFrame(f.frame), rest |-> f.rest, more |-> TRUE] ELSE [d EXCEPT !.more = FALSE]
    IN  D[Len(buffer)]
\* SseParser::push for every chunk, then its finish, which only one of the two parsers has.
Parsed(chunks, finishes) ==
    LET pushed == FoldLeft(LAMBDA s, chunk : LET d == Drained(s.rest \o chunk) IN [events |-> s.events \o d.events, rest |-> d.rest],
                           [events |-> <<>>, rest |-> <<>>], chunks)
    IN  pushed.events \o (IF finishes THEN ParseFrame(pushed.rest) ELSE <<>>)
-----------------------------------------------------------------------------
(* The prompt cache of a session.  A request is its parts; "read" is the   *)
(* number of tokens the provider took from its own cache.                  *)
NoStats == [tracked |-> 0, hits |-> 0, misses |-> 0, writes |-> 0, expected |-> 0, unexpected |-> 0, read |-> 0]
NewCache == [stats |-> NoStats, previous |-> <<>>, version |-> 1, entries |-> <<>>, disk |-> [stats |-> NoStats, previous |-> <<>>],
             outcome |-> <<"none">>]
\* persist_state.
Persist(c) == [c EXCEPT !.disk = [stats |-> c.stats, previous |-> IF c.previous = <<>> THEN @.previous ELSE c.previous]]
Tracked(c, op) == <<[at |-> op.now, version |-> c.version, request |-> op.request, read |-> op.read]>>
Misses(c) == Persist([c EXCEPT !.stats.misses = @ + 1, !.outcome = <<"miss">>])
LookupCompletion(c, op) ==
    LET stored == SelectSeq(c.entries, LAMBDA e : e.request = op.request)
        e == stored[1]
        removed == [c EXCEPT !.entries = SelectSeq(@, LAMBDA o : o.request # op.request)]
    IN  IF stored = <<>> THEN Misses(c)
        ELSE IF e.version # c.version \/ op.now - e.at >= CompletionTtl THEN Misses(removed)
        ELSE Persist([c EXCEPT !.stats.hits = @ + 1, !.stats.read = @ + e.read,
                               !.previous = Tracked(c, [op EXCEPT !.read = e.read]), !.outcome = <<"hit", e.at, e.read>>])
DetectCacheBreak(previous, current) ==
    IF previous = <<>> THEN "none"
    ELSE LET p == previous[1]
             changed == \E part \in DOMAIN p.request : p.request[part] # current.request[part]
         IN  CASE p.version # current.version -> "expected"
               [] p.read - current.read < MinDrop -> "none"
               [] changed \/ current.at - p.at > PromptTtl -> "expected"
               [] OTHER -> "unexpected"
\* record_response, and without an answer to keep record_usage.
RecordUsage(c, op) ==
    LET current == Tracked(c, op)
        break == DetectCacheBreak(c.previous, current[1])
        counted == [c.stats EXCEPT !.tracked = @ + 1, !.read = @ + op.read, !.writes = @ + (IF op.keeps THEN 1 ELSE 0),
                                   !.expected = @ + (IF break = "expected" THEN 1 ELSE 0),
                                   !.unexpected = @ + (IF break = "unexpected" THEN 1 ELSE 0)]
        entry == [request |-> op.request, at |-> op.now, version |-> c.version, read |-> op.read]
    IN  Persist([c EXCEPT !.stats = counted, !.previous = current, !.outcome = <<"break", break>>,
                          !.entries = IF op.keeps THEN <<entry>> \o SelectSeq(@, LAMBDA o : o.request # op.request) ELSE @])
\* PromptCache::with_config: the next process, perhaps of another version.
Reopen(c, op) == [c EXCEPT !.stats = c.disk.stats, !.previous = c.disk.previous, !.version = op.version, !.outcome = <<"none">>]
CacheRun(ops) ==
    FoldLeft(LAMBDA cs, op : Append(cs, CASE op.op = "record" -> RecordUsage(Last(cs), op)
                                          [] op.op = "lookup" -> LookupCompletion(Last(cs), op)
                                          [] op.op = "reopen" -> Reopen(Last(cs), op)), <<NewCache>>, ops)
-----------------------------------------------------------------------------
(* Errors.  "attempts" is not 0 for an error that ended all retries.       *)
RetryableStatus == {408, 409, 429, 500, 502, 503, 504}
ExpectSuccess(status, text) == [kind |-> "api", status |-> status, text |-> text, retryable |-> status \in RetryableStatus, attempts |-> 0]
IsRetryable(e) == CASE e.kind = "http" -> e.retryable [] e.kind = "api" -> e.retryable [] OTHER -> FALSE
IsContextWindowFailure(e) == e.kind = "context" \/ (e.kind = "api" /\ e.status \in {400, 413, 422} /\ e.text = "context")
IsGenericWrapper(e) == e.kind = "api" /\ e.text = "generic"
SafeFailureClass(e) ==
    CASE e.attempts > 0 /\ IsContextWindowFailure(e) -> "context_window"
      [] e.attempts > 0 /\ IsGenericWrapper(e) -> "provider_retry_exhausted"
      [] e.kind \in {"credentials", "expired", "auth"} \/ (e.kind = "api" /\ e.status \in {401, 403}) -> "provider_auth"
      [] IsContextWindowFailure(e) -> "context_window"
      [] e.kind = "api" /\ e.status = 429 -> "provider_rate_limit"
      [] IsGenericWrapper(e) -> "provider_internal"
      [] e.kind = "api" -> "provider_error"
      [] e.kind \in {"http", "frame", "backoff"} -> "provider_transport"
      [] e.kind \in {"env", "io", "json"} -> "runtime_io"
\* format_user_visible_api_error: what the user is told.
UserVisible(e) == IF IsContextWindowFailure(e) THEN "compact" ELSE IF IsGenericWrapper(e) THEN SafeFailureClass(e) ELSE "as it is"
\* backoff_for_attempt, <<>> for an overflow, and the longest wait with its jitter.
Backoff(attempt) == IF attempt > Shifts THEN <<>> ELSE <<Min({InitialBackoff * 2^(Max({attempt, 1}) - 1), MaxBackoff})>>
LongestWait(attempt) == 2 * Backoff(attempt)[1]
\* send_with_retry against a provider that always answers with the same error.
SendWithRetry(e, maxRetries) ==
    IF ~IsRetryable(e) THEN [e EXCEPT !.attempts = 0]
    ELSE IF maxRetries <= Shifts THEN [e EXCEPT !.attempts = maxRetries + 1]
    ELSE [kind |-> "backoff", retryable |-> FALSE, text |-> "", status |-> 0, attempts |-> 0]
\* ProviderRuntimeClient: the entries that could be built, the first of them the primary;
\* each is its outcome, an error or none.  What is tried, and where that ends.
Chain(entries) ==
    LET usable == SelectSeq(entries, LAMBDA e : e.built)
        T[i \in 1..Len(usable)] ==
            IF usable[i].error # <<>> /\ IsRetryable(usable[i].error[1]) /\ i < Len(usable) THEN T[i + 1]
            ELSE [tried |-> i, error |-> usable[i].error]
    IN  IF ~entries[1].built THEN [tried |-> 0, error |-> <<>>] ELSE T[1]
-----------------------------------------------------------------------------
(* The provider of the parity tests (mock-anthropic-service): a service    *)
(* that keeps no conversation and reads from each request how far its      *)
(* scenario is.  The input of a call is the pieces of JSON it is streamed  *)
(* in and the value it is sent as; the output of a tool has fields, or is  *)
(* some other text.  A text has the names of scenarios among its words.    *)
Wants(id, name, pieces, input) == <<[id |-> id, name |-> name, pieces |-> pieces, input |-> input]>>
WantsRead(id) == Wants(id, "read_file", << <<"path">> >>, <<"path">>)
WantsGrep(id) == Wants(id, "grep_search", << <<"pattern">>, <<"path">>, <<"mode">> >>, <<"pattern", "path", "mode">>)
WantsWrite(id) == Wants(id, "write_file", << <<"path", "content">> >>, <<"path", "content">>)
WantsBash(id) == Wants(id, "bash", << <<"command", "timeout">> >>, <<"command", "timeout">>)
Scenario ==
    "streaming_text" :> <<>> @@ "auto_compact_triggered" :> <<>> @@ "token_cost_reporting" :> <<>>
    @@ "read_file_roundtrip" :> WantsRead("toolu_read_fixture")
    @@ "grep_chunk_assembly" :> WantsGrep("toolu_grep_fixture")
    @@ "write_file_allowed" :> WantsWrite("toolu_write_allowed")
    @@ "write_file_denied" :> WantsWrite("toolu_write_denied")
    @@ "multi_tool_turn_roundtrip" :> WantsRead("toolu_multi_read") \o WantsGrep("toolu_multi_grep")
    @@ "bash_stdout_roundtrip" :> WantsBash("toolu_bash_stdout")
    @@ "bash_permission_prompt_approved" :> WantsBash("toolu_bash_prompt_allow")
    @@ "bash_permission_prompt_denied" :> WantsBash("toolu_bash_prompt_deny")
    @@ "plugin_tool_roundtrip" :> Wants("toolu_plugin_echo", "plugin_echo", << <<"message">> >>, <<"message">>)
BlocksOf(messages) == FlattenSeq([i \in DOMAIN messages |-> messages[i].content])
\* detect_scenario: the last text whose first name of a scenario is that of one; <<>> without one.
DetectScenario(messages) ==
    LET good == SelectSeq(BlocksOf(messages), LAMBDA b : b.kind = "text" /\ b.names # <<>> /\ b.names[1] \in DOMAIN Scenario)
    IN  IF good = <<>> THEN <<>> ELSE <<Last(good).names[1]>>
LatestToolResult(messages) ==
    LET results == OfKind(BlocksOf(messages), "result") IN IF results = <<>> THEN <<>> ELSE <<Last(results)>>
\* tool_results_by_name: the last result of each tool, under its id if its use is not in the request.
ToolResultsByName(messages) ==
    LET uses == OfKind(BlocksOf(messages), "use")
        results == OfKind(BlocksOf(messages), "result")
        NameOf(id) == LET of == SelectSeq(uses, LAMBDA u : u.id = id) IN IF of = <<>> THEN id ELSE Last(of).name
    IN  [name \in {NameOf(results[i].id) : i \in DOMAIN results} |->
            Last(SelectSeq(results, LAMBDA r : NameOf(r.id) = name))]
\* extract_read_content and its like.
Extract(output, field) ==
    CASE field \in DOMAIN output.fields -> output.fields[field]
      [] field = "numMatches" -> "0"
      [] OTHER -> output.text
Shows == [read_file |-> "content", grep_search |-> "numMatches", write_file |-> "filePath", bash |-> "stdout", plugin_echo |-> "message"]
\* What a scenario says at its end, in the pieces that it is streamed in; <<>> while it wants its tools.
FinalText(messages, scenario) ==
    LET latest == LatestToolResult(messages)
        by == ToolResultsByName(messages)
    IN  CASE scenario = "streaming_text" -> << <<"hello">>, <<"from the harness">> >>
          [] Scenario[scenario] = <<>> -> << <<scenario>> >>
          [] scenario = "multi_tool_turn_roundtrip" ->
               IF {"read_file", "grep_search"} \subseteq DOMAIN by
               THEN << <<scenario, Extract(by["read_file"].output, "content"), Extract(by["grep_search"].output, "numMatches")>> >> ELSE <<>>
          [] Len(Scenario[scenario]) = 1 /\ latest = <<>> -> <<>>
          [] OTHER ->
               LET raw == scenario \in {"write_file_denied", "bash_permission_prompt_denied"}
                          \/ (scenario = "bash_permission_prompt_approved" /\ latest[1].error)
               IN  << <<scenario, IF raw THEN latest[1].output.text ELSE Extract(latest[1].output, Shows[Scenario[scenario][1].name])>> >>
\* The tokens that the two scenarios about usage report.
ReportedUsage == "auto_compact_triggered" :> <<50000, 200>> @@ "token_cost_reporting" :> <<1000, 500>>
UsageOr(scenario, usage) == IF scenario \in DOMAIN ReportedUsage THEN ReportedUsage[scenario] ELSE usage
TextMessageResponse(scenario, text) ==
    [content |-> <<[kind |-> "text", text |-> text, names |-> <<>>]>>, stop |-> "end_turn", usage |-> UsageOr(scenario, <<10, 6>>)]
ToolMessageResponse(calls) ==
    [content |-> [i \in DOMAIN calls |-> [kind |-> "use", id |-> calls[i].id, name |-> calls[i].name, input |-> calls[i].input]],
     stop |-> "tool_use", usage |-> <<10, 3>>]
BuildMessageResponse(messages, scenario) ==
    LET text == FinalText(messages, scenario)
    IN  IF text # <<>> THEN TextMessageResponse(scenario, FlattenSeq(text)) ELSE ToolMessageResponse(Scenario[scenario])
\* The events of a stream: where it starts, its blocks, and where it ends.
Opened(usage) == <<[event |-> "message_start", usage |-> <<usage[1], 0>>]>>
Closed(stop, usage) == <<[event |-> "message_delta", stop |-> stop, usage |-> usage], [event |-> "message_stop"]>>
BlockEvents(index, block, pieces) ==
    <<[event |-> "content_block_start", index |-> index, block |-> block]>>
    \o [i \in DOMAIN pieces |-> [event |-> "content_block_delta", index |-> index, piece |-> pieces[i]]]
    \o <<[event |-> "content_block_stop", index |-> index]>>
FinalTextSse(text, usage) == Opened(usage) \o BlockEvents(0, [kind |-> "text", text |-> <<>>, names |-> <<>>], text) \o Closed("end_turn", usage)
ToolUsesSse(calls) ==
    Opened(<<12, 4>>)
    \o FlattenSeq([i \in DOMAIN calls |->
                     BlockEvents(i - 1, [kind |-> "use", id |-> calls[i].id, name |-> calls[i].name, input |-> <<>>], calls[i].pieces)])
    \o Closed("tool_use", <<12, 4>>)
BuildStreamBody(messages, scenario) ==
    LET text == FinalText(messages, scenario)
    IN  IF text = <<>> THEN ToolUsesSse(Scenario[scenario])
        ELSE FinalTextSse(text, UsageOr(scenario, IF scenario = "streaming_text" THEN <<11, 8>> ELSE <<14, 7>>))
\* read_http_request: the reads that a socket gives, and the length its last header of that name told.
ReadHttpRequest(reads, length) ==
    LET blank == <<"CR", "LF", "CR", "LF">>
        Upto(n) == FlattenSeq(SubSeq(reads, 1, n))
        ends == {n \in DOMAIN reads : Position(Upto(n), blank) >= 0}
        head == Position(Upto(Min(ends)), blank)
        got == SubSeq(Upto(Min(ends)), head + 5, Len(Upto(Min(ends))))
        all == SubSeq(FlattenSeq(reads), head + 5, Len(FlattenSeq(reads)))
    IN  IF ends = {} THEN <<"missing http headers">>
        ELSE IF Len(got) >= length THEN got ELSE SubSeq(all, 1, Min({length, Len(all)}))
\* handle_connection: what is captured and answered; nothing without a scenario.
HandleConnection(request) ==
    LET scenario == DetectScenario(request.messages)
    IN  IF scenario = <<>> THEN [captured |-> <<>>, body |-> <<>>]
        ELSE [captured |-> scenario,
              body |-> IF request.stream THEN BuildStreamBody(request.messages, scenario[1])
                       ELSE <<BuildMessageResponse(request.messages, scenario[1])>>]
-----------------------------------------------------------------------------
(* What is asked: [about : "provider"], "transcript", "response", "sse",   *)
(* "cache", "error", "chain", "parity" and "http".                         *)

\* A model that no provider claims goes to one whose credentials the program has, as long as
\* no base URL, no saved token and no unreadable variable tell otherwise, and to Anthropic's
\* first; a model by its alias or by its name has the same provider, limits and fate.
\* (src/rust/crates/api/src/providers/mod.rs, detect_provider_kind and resolve_model_alias)
ProviderChosen ==
    Asked("provider") =>
        LET q == question
            known == MetadataForModel(q.model) # "unknown"
            credentials == {"ANTHROPIC_API_KEY", "ANTHROPIC_AUTH_TOKEN", "OPENAI_API_KEY", "XAI_API_KEY"}
            resolved == [q EXCEPT !.model = ResolveModelAlias(q.model)]
        IN  /\ FromModel(resolved) = FromModel(q) /\ ContextWindow(resolved.model) = ContextWindow(q.model)
            /\ known => \A e \in {"unset", "set"} : DetectProvider([q EXCEPT !.env["OPENAI_BASE_URL"] = e]) = DetectProvider(q)
            /\ (/\ ~known /\ q.saved = "none" /\ \A k \in DOMAIN q.env : q.env[k] # "bad"
                /\ q.env["OPENAI_BASE_URL"] = "unset" /\ q.env["XAI_BASE_URL"] = "unset"
                /\ \E k \in credentials : HasKey(q, k))
               => /\ FromModel(q).ok
                  /\ (HasKey(q, "ANTHROPIC_API_KEY") \/ HasKey(q, "ANTHROPIC_AUTH_TOKEN")) => FromModel(q).provider = "anthropic"
            /\ (AuthSource(q, FALSE) # {"error"}) => AuthSource(q, TRUE) = AuthSource(q, FALSE)
\* A provider that speaks the other protocol is sent every call and every result of the
\* transcript, in its order, and every text; the next request says the same of a call
\* whether its response was streamed or whole.
\* (src/rust/crates/api/src/providers/openai_compat.rs, translate_message)
WireTellsAll ==
    /\ Asked("transcript") =>
          LET blocks == FlattenSeq([i \in DOMAIN question.messages |-> question.messages[i].blocks])
              sent == ChatRequest(ConvertMessages(question.messages), question.system, "openai").messages
              Told(m) == CASE m.role = "assistant" -> [i \in DOMAIN m.calls |-> <<"use", m.calls[i].id>>]
                           [] m.role = "tool" -> <<<<"result", m.id>>>>
                           [] OTHER -> <<>>
              told == FlattenSeq([i \in DOMAIN sent |-> Told(sent[i])])
              said == FlattenSeq([i \in DOMAIN sent |-> IF sent[i].role = "tool" THEN <<>> ELSE sent[i].content])
              actions == SelectSeq(blocks, LAMBDA b : b.kind # "text")
              texts == OfKind(blocks, "text")
          IN  /\ told = [i \in DOMAIN actions |-> <<actions[i].kind, actions[i].id>>]
              /\ said = question.system \o FlattenSeq([i \in DOMAIN texts |-> texts[i].text])
    /\ Asked("response") =>
          LET Next(whole) == ConvertMessages(<<[role |-> "assistant", blocks |-> Events(question.response, whole)]>>)
          IN  Next(TRUE) = Next(FALSE)
\* However the bytes of a stream are cut into chunks, the same events come out: one for
\* every run of lines between blank ones that has data, if the stream uses one kind of line
\* end throughout.
\* (src/rust/crates/api/src/sse.rs, push, next_frame and finish; openai_compat.rs, next_sse_frame)
FramesWhole ==
    Asked("sse") =>
        LET q == question
            bytes == FlattenSeq(q.chunks)
            words == SelectSeq(bytes, LAMBDA w : w # "CR")
            data == {i \in DOMAIN words : words[i] \notin {"LF", ":"}}
            opens == {i \in data : \A k \in data : k < i => \E j \in k + 1 .. i - 2 : words[j] = "LF" /\ words[j + 1] = "LF"}
        IN  /\ Parsed(q.chunks, q.finishes) = Parsed(<<bytes>>, q.finishes)
            /\ FlattenSeq(Parsed(q.chunks, TRUE)) = SelectSeq(words, LAMBDA w : w \notin {"LF", ":"})
            /\ Len(Parsed(q.chunks, TRUE)) = Cardinality(opens)
\* A prompt cache that is opened again goes on as if it never had been closed; it answers only
\* with what was kept for the same request and version less than its time ago; and it calls a
\* loss of cached tokens unexpected only if the same request was the last one used, within its time.
\* (src/rust/crates/api/src/prompt_cache.rs, lookup_completion, record_usage_internal and persist_state)
CacheTells ==
    Asked("cache") =>
        LET ops == question.ops
            run == CacheRun(ops)
            live == SelectSeq(ops, LAMBDA o : o.op # "reopen")
            same == \A i \in DOMAIN ops : ops[i].op = "reopen" => ops[i].version = 1
            Used(i) == {j \in 1..i - 1 : ops[j].op = "record" \/ run[j + 1].outcome[1] = "hit"}
        IN  /\ same => Last(CacheRun(live)).stats = Last(run).stats /\ Last(CacheRun(live)).entries = Last(run).entries
            /\ \A i \in DOMAIN ops :
                  /\ run[i + 1].outcome[1] = "hit" =>
                        \E j \in 1..i - 1 : /\ ops[j].op = "record" /\ ops[j].keeps /\ ops[j].request = ops[i].request
                                            /\ run[i + 1].outcome = <<"hit", ops[j].now, ops[j].read>>
                                            /\ ops[i].now - ops[j].now < CompletionTtl /\ run[j + 1].version = run[i].version
                  /\ run[i + 1].outcome = <<"break", "unexpected">> =>
                        /\ Used(i) # {}
                        /\ LET last == Max(Used(i)) IN
                           ops[last].request = ops[i].request /\ ops[i].now - ops[last].now <= PromptTtl
\* The advice to compact is given of an error that no retry and no fallback was spent on; an
\* error that ended the retries came after one request more than the retries, keeps its class
\* unless it says nothing, and its fallbacks are those before it that might have helped; no
\* wait is longer than twice the longest, or shorter than the one before it but for its jitter.
\* (src/rust/crates/api/src/error.rs; src/rust/crates/tools/src/lib.rs, stream)
ErrorsClassed ==
    /\ Asked("error") =>
          LET raw == question.error
              e == SendWithRetry(raw, question.retries)
          IN  /\ UserVisible(e) = "compact" => e.attempts = 0 /\ SafeFailureClass(e) = "context_window" /\ ~IsRetryable(e)
              /\ e.attempts > 0 => /\ IsRetryable(e) /\ e.attempts = question.retries + 1
                                   /\ SafeFailureClass(e) \in {SafeFailureClass(raw), "provider_retry_exhausted"}
              /\ \A n \in 1..Min({question.retries, Shifts - 1}) : Backoff(n)[1] <= Backoff(n + 1)[1] /\ LongestWait(n) <= 2 * MaxBackoff
    /\ Asked("chain") =>
          LET done == Chain(question.entries)
              usable == SelectSeq(question.entries, LAMBDA e : e.built)
          IN  done.tried > 0 =>
                  /\ \A i \in 1..done.tried - 1 : usable[i].error # <<>> /\ IsRetryable(usable[i].error[1])
                  /\ done.error = usable[done.tried].error
                  /\ (done.error # <<>> /\ IsRetryable(done.error[1])) => done.tried = Len(usable)
\* A scenario of the parity tests is over at its second request, whatever the tools answered and
\* the conversation held before; the first request of a conversation is asked for its tools, and
\* the end shows what each answered; a stream is the same blocks and the same reported usage as
\* the whole response; and a request is read alike however its bytes arrive.
\* (src/rust/crates/mock-anthropic-service/src/lib.rs, build_stream_body, build_message_response
\* and read_http_request)
ParityServed ==
    /\ Asked("parity") =>
          LET q == question
              Answer(messages, stream) == HandleConnection([messages |-> messages, stream |-> stream])
              Piece(events, index) == FlattenSeq([i \in DOMAIN events |->
                  IF events[i].event = "content_block_delta" /\ events[i].index = index THEN events[i].piece ELSE <<>>])
              Assembled(events) ==
                  LET starts == SelectSeq(events, LAMBDA e : e.event = "content_block_start")
                  IN  [i \in DOMAIN starts |-> IF starts[i].block.kind = "text" THEN [starts[i].block EXCEPT !.text = Piece(events, starts[i].index)]
                                               ELSE [starts[i].block EXCEPT !.input = Piece(events, starts[i].index)]]
              Alike(streamed, whole) ==
                  LET events == streamed.body
                      End(event) == /\ event.stop = whole.stop
                                    /\ q.scenario \in DOMAIN ReportedUsage => event.usage = whole.usage
                  IN  /\ streamed.captured = <<q.scenario>> /\ Assembled(events) = whole.content
                      /\ End(SelectSeq(events, LAMBDA e : e.event = "message_delta")[1])
                      /\ q.scenario \in DOMAIN ReportedUsage => events[1].usage[1] = whole.usage[1]
              Same(messages) == Alike(Answer(messages, TRUE), Answer(messages, FALSE).body[1])
              first == Append(q.history, [content |-> <<[kind |-> "text", text |-> <<>>, names |-> q.names \o <<q.scenario>>]>>])
              Result(call) == [content |-> <<[kind |-> "result", id |-> call.id, output |-> q.outputs[call.name], error |-> q.error]>>]
              Second(asked) == Append(first, [content |-> asked.content]) \o [i \in DOMAIN asked.content |-> Result(asked.content[i])]
              Tells(name, text) == \E i \in DOMAIN text :
                                      text[i] \in {q.outputs[name].text, "0"} \cup {q.outputs[name].fields[f] : f \in DOMAIN q.outputs[name].fields}
              Over(asked, over) ==
                  over.stop = "end_turn" /\ \A i \in DOMAIN asked.content : Tells(asked.content[i].name, over.content[1].text)
              Asks(asked) ==
                  /\ q.history = <<>> => IF Scenario[q.scenario] = <<>> THEN asked.stop = "end_turn"
                                         ELSE [i \in DOMAIN asked.content |-> asked.content[i].id] = [i \in DOMAIN Scenario[q.scenario] |-> Scenario[q.scenario][i].id]
                  /\ asked.stop = "tool_use" => Same(Second(asked)) /\ Over(asked, Answer(Second(asked), FALSE).body[1])
          IN  IF q.names # <<>> THEN \A stream \in BOOLEAN : Answer(first, stream) = Answer(q.history, stream)
              ELSE Same(first) /\ Asks(Answer(first, FALSE).body[1])
    /\ Asked("http") =>
          LET read == ReadHttpRequest(question.reads, question.length)
              sent == question.body
          IN  IF Len(sent) <= question.length THEN read = sent ELSE IsPrefix(SubSeq(sent, 1, question.length), read) /\ IsPrefix(read, sent)
RequestsRight == ProviderChosen /\ WireTellsAll /\ FramesWhole /\ CacheTells /\ ErrorsClassed /\ ParityServed
=============================================================================
