------------------------------ MODULE MCDecisions ------------------------------
(***************************************************************************)
(* What the program computes without keeping state, asked of every input   *)
(* of a bounded set: how a command line is read, what the permission       *)
(* layers and the sandbox decide, which declarations of plugins and        *)
(* settings are accepted, what goes over the wire to providers and MCP     *)
(* servers, what is written to files and read back, what the built-in      *)
(* tools compute, and what the user and the model are shown.               *)
(*                                                                         *)
(* Every module defines its functions and says what must hold of an        *)
(* answer; here are the questions.  (CommandLine and ToolGate are          *)
(* extended, as the words that are asked about are those of their tables.) *)
(***************************************************************************)
EXTENDS CommandLine, ToolGate, FiniteSets, TLC

CONSTANTS
    Trimmed,                                \* texts with blanks around them
    MaxSize, Sniffed,                         \* how large and how binary a file may be
    DefaultLimit, MaxGlob, MaxHits,         \* limits of searches
    MaxPreview, MaxHops, MaxReply,          \* what is told of a page or a reply
    DictWindow,                             \* how far back a dictionary is sought
    CompletionTtl, PromptTtl, MinDrop,      \* the prompt cache
    InitialBackoff, MaxBackoff, Shifts,     \* retries
    Preserve, UsageBits,                    \* records and counters
    MaxFile, MaxTotal, Suffix, Commits,     \* what a prompt holds of files and commits
    MaxLines, MaxChars, MaxReadLines, MaxReadChars, \* what is shown of a result
    ErrorChars, PatchChars, MaxHunks, MaxHunkLines, MaxNames

Declares == INSTANCE Declarations
Mcp == INSTANCE McpProtocol
Tool == INSTANCE ToolBodies
Api == INSTANCE Requests
Record == INSTANCE Records
Place == INSTANCE Workspace
Screen == INSTANCE Terminal

UpTo(S, n) == UNION {[1..k -> S] : k \in 0..n}
Maybe(S) == {<<>>} \cup {<<v>> : v \in S}
CutAt(b, c, d) == <<SubSeq(b, 1, c), SubSeq(b, c + 1, d), SubSeq(b, d + 1, Len(b))>>
-----------------------------------------------------------------------------
(* Command lines: every command of the table, with and without words.      *)
SlashNames == SpecNames \cup SpecAliases \cup {"", "nope", "tmp/x"}
MCSlash == [word \in {"/" \o name : name \in SlashNames} |-> CHOOSE name \in SlashNames : "/" \o name = word]
MCAfterInstall == "installer" :> "er"
ArgWord == {"list", "help", "install", "installer", "--confirm", "2", "delete", "show"}
ResumeWords == {<<"/status">>, <<"/export">>, <<"/export", "/tmp/x">>, <<"/export", "notes">>,
                <<"/skills", "install", "/tmp/x">>, <<"/nope">>, <<"/clear", "--confirm">>}
\* A chain of commands in a session that was compacted before.
ChainSession ==
    [id |-> 1, messages |-> [i \in 1..5 |-> [summary |-> i = 1, tells |-> IF i = 1 THEN {0, 1} ELSE {i}]]]
ChainLine == {<<"/compact">>, <<"/clear", "--confirm">>, <<"/clear">>, <<"/status">>, <<"/vim">>}
Word == {"--permission-mode", "read-only", "-p", "--help", "explain", "skills", "installer", "list", "--unknown"}
AskCommand ==
    \/ Ask([about : {"line"},
            line : {<<s>> \o args : s \in DOMAIN Slash,
                      args \in UpTo(ArgWord, 1) \cup {<<a, b>> : a \in ArgWord, b \in {"list", "2", "--force"}}}])
    \/ Ask([about : {"resume"}, commands : UNION {[1..n -> ResumeWords] : n \in 1..3}])
    \/ Ask([about : {"resumed"}, session : {ChainSession}, lines : [1..3 -> ChainLine],
            times : {<<1, 2, 3>>, <<1, 1, 1>>}, json : {TRUE},
            failing : {[i \in 1..3 |-> IF i = at THEN k ELSE 0] : at \in 1..3, k \in 0..2}])
    \/ Ask([about : {"arguments"},
            args : UpTo(Word, 3) \cup {<<w>> : w \in SpecNames \cup Subcommands \cup LocalWords}])
-----------------------------------------------------------------------------
(* Access: requests for permission, names and hints of tools that clash in *)
(* every way, and commands of every class with what can be in them.        *)
MCToolKey == [n \in {"Lint-All", "lint_all", "WebFetch"} |-> IF n = "WebFetch" THEN "webfetch" ELSE "lint_all"]
PluginTools ==
    LET Declared == [name : {"Lint-All", "lint_all", "bash", "mcp__s__t"}, requires : {ReadOnly, "full"}]
    IN  Maybe(Declared) \cup {<<[name |-> "lint_all", requires |-> ReadOnly], t>> : t \in Declared}
McpTools ==
    LET Listed == [name : {"mcp__s__t", "mcp__s__u", "lint_all"}, hints : {{"readOnly"}, {"readOnly", "destructive"}}]
    IN  {[servers |-> {}, tools |-> <<>>]} \cup {[servers |-> {"s"}, tools |-> ts] : ts \in UpTo(Listed, 2)}
Firsts == WriteCommands \cup StateModifyingCommands \cup AlwaysDestructive \cup ReadOnlyCommands
          \cup NetworkCommands \cup ProcessCommands \cup PackageCommands \cup SystemAdminCommands
          \cup {"git", "python3", ""}
Blank(word) == <<" ", word>>
AfterFirst == {<<>>, <<Blank("status")>>, <<Blank("push")>>, << <<"-", "C">>, Blank("log")>>, <<Blank("rm")>>,
               <<Blank("git"), Blank("push")>>, <<Blank("git"), Blank("log")>>, << <<"-", "n">>, Blank("ls")>>}
Flag == Maybe(BOOLEAN)
Files == Maybe({"off", "allow-list"})
AskAccess ==
    \/ Ask([about : {"permission"}, request : Permission!Request])
    \/ Ask([about : {"gate"}, plugins : PluginTools, mcp : McpTools,
            allowed : {Unset, <<{}>>, <<{"read"}>>, <<{"bash", "lint_all"}>>, <<{"mcp__s__t"}>>, <<{"MCPTool"}>>},
            called : {{"bash", "ToolSearch", "Brief", "lint_all", "mcp__s__t", "MCPTool"}}])
    \/ Ask([about : {"enforcer"}, root : {<<"w">>}, path : {[absolute |-> FALSE, parts |-> <<"a">>]},
            command : [first : Firsts \cup EnforcerReadOnly, rest : AfterFirst,
                       has : {{}, {" -i"}, {" -i", "-i "}, {"--in-place"}, {"redirect"}, {"redirect", " > "}}]])
    \/ Ask([about : {"enforcer"}, root : {<<"w">>}, path : [absolute : BOOLEAN, parts : UpTo({"w", "a", ".."}, 3)],
            command : {[first |-> "ls", rest |-> <<>>, has |-> {}]}])
    \/ Ask([about : {"command"},
            command : [first : Firsts, rest : {<<>>}, has : SUBSET {"redirect", " -i", "system path", "destructive", "../", "home"}]
                      \cup [first : {"git", "sudo"}, rest : AfterFirst, has : SUBSET {"redirect", "destructive"}]])
    \/ Ask([about : {"sandbox"}, loads : BOOLEAN, works : BOOLEAN,
            config : [enabled : Flag, namespaces : Flag, network : Maybe({TRUE}), files : Maybe({"off"}), mounts : {{"m"}}],
            input : [enabled : Flag, namespaces : Flag, network : Flag, files : Files, mounts : {<<>>, << {} >>}]])
-----------------------------------------------------------------------------
(* Declarations: plugin manifests with every fault, and settings files     *)
(* with a field of every kind, alone and beside another file.              *)
MCTrimmed == (" " :> "") @@ (" t " :> "t") @@ (" read" :> "read") @@ (" read-only " :> "read-only")
Forms == {[form |-> "blank", name |-> ""], [form |-> "literal", name |-> "make"], [form |-> "inside", name |-> "run.sh"],
          [form |-> "inside", name |-> "lib"], [form |-> "outside", name |-> "run.sh"], [form |-> "absolute", name |-> "run.sh"]}
Empty == [fields |-> {}, hookNames |-> {"PreToolUse"}, globs |-> FALSE, typed |-> TRUE, blank |-> {}, permissions |-> <<>>,
          hooks |-> [event \in {"PreToolUse"} |-> <<>>], init |-> <<>>, shutdown |-> <<>>, tools |-> <<>>, commands |-> <<>>]
DeclaredTool == [name : {"t", " t ", "u"}, described : BOOLEAN, command : Forms, schema : {TRUE}, permission : {" read-only ", "write"}]
Manifest ==
    {[Empty EXCEPT !.hooks["PreToolUse"] = h, !.init = l] : h \in Maybe(Forms), l \in Maybe(Forms)}
    \cup {[Empty EXCEPT !.tools = <<t>>] : t \in DeclaredTool}
    \cup {[Empty EXCEPT !.tools = <<t, u>>] : t \in DeclaredTool, u \in {x \in DeclaredTool : x.described}}
    \cup {[Empty EXCEPT !.commands = <<c>>, !.shutdown = <<f>>] :
             c \in [name : {"t", " "}, described : {TRUE}, command : Forms], f \in Forms}
    \cup {[Empty EXCEPT !.permissions = p, !.fields = f, !.hookNames = h, !.globs = g] :
             p \in {<<"read">>, <<"read", " read">>, <<"admin">>}, f \in {{}, {"skills"}}, h \in {{}, {"Stop"}}, g \in BOOLEAN}
DiskFiles == [plain : {{<<"source", "run.sh">>} \cup x :
                          x \in SUBSET {<<"beside", "source", "run.sh">>, <<"anywhere", "run.sh">>, <<"cwd", "make">>}},
              directories : {{<<"source", "lib">>}}]
Values == {Declares!Value("null"), Declares!Value("bool"), Declares!Number(-1), Declares!Number(5), Declares!Number(70000), Declares!Text("plan"),
           Declares!Text("x"), Declares!Value("strings"), Declares!Value("array"), Declares!Object(<<>>)}
Fields == UNION { {<<s, n>> : n \in DOMAIN Declares!Section[s] \cup {"permissionMode", "nope"}} : s \in DOMAIN Declares!Section }
McpFields == {<<>>, [url |-> Declares!Text("x")], [command |-> Declares!Text("x"), toolCallTimeoutMs |-> Declares!Number(-1)],
              [command |-> Declares!Text("x")], [url |-> Declares!Text("x"), id |-> Declares!Text("x")], [name |-> Declares!Text("x")],
              [url |-> Declares!Text("x"), oauth |-> Declares!Object([callbackPort |-> Declares!Number(70000)])]}
McpTypes == {Declares!Text("stdio"), Declares!Text("ws"), Declares!Text("sdk"), Declares!Text("claudeai-proxy"), Declares!Text("sse"),
             Declares!Text("x"), Declares!Number(5)}
WholeOAuth == [clientId |-> Declares!Text("x"), authorizeUrl |-> Declares!Text("x"), tokenUrl |-> Declares!Text("x")]
SettingsFile ==
    {(f[1] :> Declares!Object(f[2] :> v)) : f \in Fields, v \in Values}
    \cup {("oauth" :> Declares!Object(("callbackPort" :> v) @@ WholeOAuth)) : v \in Values}
    \cup {(n :> v) : n \in DOMAIN Declares!TopLevelFields \cup {"nope"}, v \in Values}
    \cup {("mcpServers" :> Declares!Object("s" :> Declares!Object(("type" :> t) @@ g))) : t \in McpTypes, g \in McpFields}
    \cup {("mcpServers" :> Declares!Object("s" :> Declares!Value("string")))}
    \cup {("aliases" :> Declares!Object("a" :> v)) : v \in Values}
    \cup {("plugins" :> Declares!Object("enabled" :> Declares!Object("p" :> v))) : v \in Values}
LoadingFile == {f \in SettingsFile : Declares!Loads(<<f>>)}
FewFields == {f \in LoadingFile : DOMAIN f \in {{"permissions"}, {"sandbox"}, {"mcpServers"}, {"aliases"}, {"oauth"}}}
HookChild == {[ends |-> e, stdout |-> o, stderr |-> ""] : e \in {"0", "2"}, o \in {"", "a"}}
             \cup {[ends |-> e, stdout |-> "", stderr |-> o] : e \in {"1", "signal", "no start"}, o \in {"", " t "}}
HookPlugin(hooks) == {[enabled |-> e, validates |-> v, hooks |-> [event \in Declares!HookEvent |-> hooks]] : e, v \in BOOLEAN}
AskDeclared ==
    \/ Ask([about : {"plugin"}, raw : Manifest, files : DiskFiles, relative : BOOLEAN])
    \/ \E a \in UpTo(HookChild, 2), b \in UpTo(HookChild, 1) :
          Ask([about : {"hooks"}, event : Declares!HookEvent, plugins : {<<p, q>> : p \in HookPlugin(a), q \in HookPlugin(b)},
               call : {[tool |-> "bash", input |-> "i", parses |-> FALSE, output |-> <<"o">>, error |-> FALSE]}])
    \/ Ask([about : {"hooks"}, event : Declares!HookEvent, plugins : {<<>>},
            call : [tool : {"bash"}, input : {"i"}, parses : BOOLEAN, output : {<<"o">>}, error : BOOLEAN]])
    \/ Ask([about : {"config"}, files : {<<f>> : f \in SettingsFile} \cup {<<f, g>> : f \in FewFields, g \in SettingsFile}])
-----------------------------------------------------------------------------
(* The wire: names and frames of MCP, requests and answers of providers.   *)
ServerNames == UpTo({"a", "_", "."}, 3) \cup {<<Mcp!Hosted>> \o w : w \in UpTo({"a", " ", "."}, 2)}
Part == UpTo({"a", "|", "\\"}, 2)
McpConfig == [type : {"stdio"}, command : Part, args : UpTo(Part, 1)]
             \cup [type : {"sse", "ws"}, url : [text : {"u", "v"}, proxied : BOOLEAN, inner : {"", "u"}]] \cup {[type |-> "sdk"]}
McpLine == {Mcp!Line("length", 0), Mcp!Line("length", 2), Mcp!Line("bad", 0), Mcp!Line("other", 0), Mcp!Line("crlf", 0),
            Mcp!Line("lf", 0), Mcp!Byte}
McpMessage ==
    {[kind |-> k, id |-> "", method |-> "", params |-> ""] : k \in {"garbage", "notification", "no request"}}
    \cup [kind : {"request"}, id : {"1", "2"}, method : {"initialize", "tools/list", "tools/call", "resources/list"},
          params : {"none", "bad", "call"}]
EnvKeys == {"ANTHROPIC_API_KEY", "ANTHROPIC_AUTH_TOKEN", "OPENAI_API_KEY", "XAI_API_KEY", "OPENAI_BASE_URL", "XAI_BASE_URL"}
Environment == {e \in [EnvKeys -> {"unset", "empty", "set", "bad"}] : Cardinality({k \in EnvKeys : e[k] # "unset"}) <= 2}
Said(t) == [kind |-> "text", text |-> t]
Use(id, input) == [kind |-> "use", id |-> id, input |-> input]
Result(id, error) == [kind |-> "result", id |-> id, error |-> error]
Message == [role : {"assistant"},
            blocks : UpTo({Said(<<>>), Said(<<"a">>), Use(1, <<"text", "junk">>), Use(2, <<"json", "object">>)}, 2)]
           \cup [role : {"user", "system"}, blocks : {<<>>, <<Said(<<"u">>)>>, <<Said(<<>>)>>}]
           \cup [role : {"tool"}, blocks : {<<Result(1, TRUE)>>, <<Result(2, FALSE)>>}]
Arguments == {<<"text", "">>, <<"text", "junk">>, <<"json", "object">>, <<"json", "raw", "junk">>}
SseLine == {<<>>, <<"d1">>, <<"d2">>, <<":">>}
Bytes(lines, crlf, ended) ==
    FlattenSeq([i \in DOMAIN lines |-> lines[i] \o (IF i = Len(lines) /\ ~ended THEN <<>> ELSE IF crlf THEN <<"CR", "LF">> ELSE <<"LF">>)])
ModelAnd(m) == [p \in {"messages", "model"} |-> IF p = "model" THEN 1 ELSE m]
CacheOp(op, m, read, keeps, now, version) ==
    [op |-> op, request |-> ModelAnd(m), read |-> read, keeps |-> keeps, now |-> now, version |-> version]
CacheOps(now) ==
    {CacheOp("record", m, read, k, now, 1) : m \in {1, 2}, read \in {0, 2}, k \in BOOLEAN}
    \cup {CacheOp("lookup", m, 0, FALSE, now, 1) : m \in {1, 2}}
    \cup {CacheOp("reopen", 1, 0, FALSE, now, v) : v \in {1, 2}}
ApiError ==
    {Api!ExpectSuccess(s, t) : s \in {400, 401, 403, 408, 413, 422, 429, 500, 503, 404}, t \in {"context", "generic", "other"}}
    \cup [kind : {"http"}, status : {0}, text : {""}, retryable : BOOLEAN, attempts : {0}]
    \cup [kind : {"context", "credentials", "expired", "auth", "env", "io", "json", "frame"}, status : {0}, text : {""},
          retryable : {FALSE}, attempts : {0}]
ParityOutput(json) == [n \in DOMAIN Api!Shows |-> [fields |-> IF json THEN Api!Shows[n] :> "field of " \o n ELSE <<>>, text |-> "text of " \o n]]
ParityUse(id) == [content |-> <<[kind |-> "use", id |-> id, name |-> "read_file", input |-> <<"path">>]>>]
ParityResult(id) == [content |-> <<[kind |-> "result", id |-> id, output |-> ParityOutput(TRUE)["read_file"], error |-> FALSE]>>]
ParityText(name) == [content |-> <<[kind |-> "text", text |-> <<>>, names |-> <<name>>]>>]
ParityHistory == {<<>>, <<ParityText("read_file_roundtrip"), ParityUse("toolu_read_fixture"), ParityResult("toolu_read_fixture")>>,
                  <<ParityText("nope"), ParityResult("toolu_multi_read")>>}
AskParity ==
    \/ Ask([about : {"parity"}, scenario : DOMAIN Api!Scenario, history : ParityHistory, names : {<<>>, <<"nope">>},
            outputs : {ParityOutput(TRUE), ParityOutput(FALSE)}, error : BOOLEAN])
    \/ \E body \in {<<>>, <<"{">>, <<"{", "CR", "LF", "CR", "LF", "}">>}, lines \in {<<"h">>, <<"h", "CR", "LF", "h">>} :
          LET bytes == lines \o <<"CR", "LF", "CR", "LF">> \o body IN
          \E c \in 0..Len(bytes), d \in 0..Len(bytes) :
             Ask([about : {"http"}, reads : {CutAt(bytes, Min({c, d}), Max({c, d}))}, body : {body}, length : 0..7])
AskWire ==
    \/ AskParity
    \/ \E s, t \in ServerNames : Ask({[about |-> "names", servers |-> {s, t}, tools |-> UpTo({"a", "_"}, 2)]})
    \/ \E c, d \in McpConfig : Ask({[about |-> "signatures", servers |-> {c, d}]})
    \/ \E k \in 0..5 : Ask([about : {"stream"}, stream : [1..k -> McpLine]])
    \/ \E k \in 0..3 : Ask([about : {"messages"}, messages : [1..k -> McpMessage]])
    \/ \E env \in Environment :
          Ask([about : {"provider"}, model : {"opus", "claude-other", "grok", "gpt"}, env : {env},
               dotenv : {[k \in EnvKeys |-> "none"], [k \in EnvKeys |-> "set"]}, saved : {"none", "valid", "expired", "unreadable"}])
    \/ Ask([about : {"transcript"}, messages : [1..2 -> Message], system : {<<>>, <<"s">>}])
    \/ \E k \in 0..2 : Ask([about : {"response"},
                            response : [text : {<<>>, <<"a">>}, calls : [1..k -> [id : {1, 2}, arguments : Arguments]]]])
    \/ \E lines \in UpTo(SseLine, 3), crlf, ended \in BOOLEAN :
          LET bytes == Bytes(lines, crlf, ended) IN
          \E c \in 0..Len(bytes) :
             Ask([about : {"sse"}, chunks : {CutAt(bytes, c, d) : d \in {c, c + 1, Len(bytes)} \cap (0..Len(bytes))},
                  crlf : {crlf}, finishes : BOOLEAN])
    \/ \E a \in CacheOps(0), b \in CacheOps(1) \cup CacheOps(3) : Ask([about : {"cache"}, ops : {<<a, b, c>> : c \in CacheOps(3)}])
    \/ Ask([about : {"error"}, error : ApiError, retries : {0, 1, 2, 4}])
    \/ \E k \in 1..3 :
          Ask([about : {"chain"}, entries : [1..k -> [built : BOOLEAN,
                  error : Maybe({Api!ExpectSuccess(503, "generic"), Api!ExpectSuccess(400, "context")})]]])
-----------------------------------------------------------------------------
(* Records: values and texts with everything that is escaped, sessions with*)
(* and without each field, summaries, prompts to compress, usage and days. *)
Atoms == {Record!Str(t) : t \in {<<>>, <<"a">>, <<"\"", "LF">>, <<"\\", "n">>, <<"ESC", "a">>}}
         \cup {Record!Num("7"), Record!Boolean(TRUE), [null |-> 0]}
FlatValue == Atoms \cup {Record!Arr(s) : s \in UpTo(Atoms, 2)} \cup {Record!Obj(f) : f \in UNION {[K -> Atoms] : K \in SUBSET {"a", "\""}}}
JsonValue == FlatValue \cup {Record!Arr(<<v>>) : v \in FlatValue} \cup {Record!Obj("k" :> v) : v \in FlatValue}
Token == {"[", "]", "{", "}", ",", ":", "\"", "1"}
OneUse == [kind |-> "tool_use", id |-> <<"i">>, name |-> <<"b">>, text |-> <<"\"">>]
KeptBlock == {[kind |-> "text", text |-> <<"LF", "a">>], [kind |-> "text", text |-> <<>>], OneUse,
              [kind |-> "tool_result", id |-> <<"i">>, name |-> <<"b">>, text |-> <<"\\">>, error |-> TRUE]}
UseMessage == [role |-> "assistant", blocks |-> <<[kind |-> "text", text |-> <<"a">>], OneUse>>, usage |-> <<"2">>]
Kept == {[role |-> "user", blocks |-> <<b>>, usage |-> <<>>] : b \in KeptBlock} \cup {UseMessage}
SessionKept ==
    [version : {"1"}, id : {<<"s">>}, created : {"1", "big"}, updated : {"2"},
     messages : Maybe(Kept \ {[role |-> "user", blocks |-> <<OneUse>>, usage |-> <<>>]}) \cup {<<UseMessage, [role |-> "tool", blocks |-> <<>>, usage |-> <<>>]>>},
     compaction : Maybe({[count |-> "1", removed |-> "2", summary |-> <<"LF">>]}),
     fork : Maybe({[parent |-> <<"p">>, branch |-> <<<<"b">>>>]}), root : Maybe({<<"r">>, <<"not Unicode">>}),
     history : {<<>>, <<[at |-> "1", text |-> <<"\"">>], [at |-> "big", text |-> <<"a">>]>>}]
Talk == [role : {"user"}, texts : {<<<<"x", "y">>>>, <<<<>>, <<"z">>>>, <<<<"- Key timeline:">>>>, <<<<"p", "</analysis>">>>>, <<<<"<analysis>", "q">>>>,
                                   <<<<"<analysis>", "r", "</analysis>", "v">>>>},
         pending : BOOLEAN]
        \cup [role : {"tool"}, texts : {<<>>}, pending : {FALSE}]
Batch == {<<m>> : m \in Talk} \cup {<<m, [role |-> "user", texts |-> <<<<"w">>>>, pending |-> FALSE]>> : m \in Talk}
AskRecords ==
    \/ Ask([about : {"json"}, value : JsonValue])
    \/ \E n \in 1..4 : Ask([about : {"tokens"}, text : [1..n -> Token]])
    \/ Ask([about : {"session"}, session : SessionKept])
    \/ \E n \in 1..2 : Ask([about : {"summaries"}, batches : [1..n -> Batch]])
    \/ Ask([about : {"summaries"}, batches : [1..3 -> {<<m>> : m \in Talk}]])
    \/ \E n \in 0..3 : Ask([about : {"compress"}, lines : [1..n -> [chars : {0, 1, 3}, key : {1, 2}, priority : {1, 2}]],
                            budget : [chars : {0, 1, 4, 6}, lines : {0, 1, 2, 3}, line : {0, 2}]])
    \/ \E n \in 0..3 : Ask([about : {"usage"}, usages : [1..n -> Maybe({1, 3})], removed : 0..n])
    \/ Ask([about : {"day"}, day : {58, 59, 364, 365, 789, 11016, 11017, 47540, 47541, 47542, 19722, 19781, 19782}])
-----------------------------------------------------------------------------
(* Tools: texts to read, search and edit, notebooks, lists, pages with     *)
(* whole and broken links, and names to look for.                          *)
ToolText == [kind : {"text"}, text : UpTo({"a", "b", "NUL"}, 4)] \cup [kind : {"missing"}, text : {<<>>}]
            \cup [kind : {"invalid"}, text : {<<>>, <<"NUL">>, <<"?">>, <<"a", "a", "a", "?">>}]
GrepFiles ==
    {<<>>} \cup {<<f>> : f \in [name : {"f"}, lines : UpTo(BOOLEAN, 2), found : 0..2, passes : BOOLEAN, readable : {TRUE}]}
    \cup {<<f, g>> : f \in [name : {"f"}, lines : {<<FALSE, TRUE, FALSE, TRUE>>, <<TRUE>>}, found : {1, 2}, passes : {TRUE}, readable : BOOLEAN],
                     g \in [name : {"g"}, lines : {<<TRUE, FALSE>>, <<FALSE, FALSE>>, <<TRUE, TRUE, FALSE>>}, found : {0, 2}, passes : {TRUE}, readable : {TRUE}]}
Cells(n) == [i \in 1..n |-> [id |-> IF i = 1 THEN "a" ELSE "b", source |-> "s", type |-> IF i = 1 THEN "markdown" ELSE "raw",
                             outputs |-> FALSE, made |-> 0]]
CellEdit ==
    [mode : {"insert"}, id : Maybe({"a", "cell-2", "cell-3"}), source : {<<"x">>}, type : {<<>>, <<"markdown">>}]
    \cup [mode : {"replace", "delete"}, id : Maybe({"a", "cell-1", "cell-2", "cell-3", "cell-4"}), source : {<<"y">>}, type : {<<>>}]
    \cup [mode : {"replace"}, id : {<<>>}, source : {<<>>}, type : {<<>>}]
Todo(done, verifies) == [done |-> done, verifies |-> verifies, blank |-> FALSE]
TodoList == UpTo({Todo(TRUE, FALSE), Todo(FALSE, FALSE), Todo(TRUE, TRUE)}, 3)
            \cup {<<[done |-> FALSE, verifies |-> FALSE, blank |-> TRUE]>>}
Url(n) == [name |-> n, domains |-> IF n \in {"a.x", "b.x"} THEN {n, "x"} ELSE {n}]
Absolute(n) == [kind |-> "absolute", to |-> Url(n)]
PageLink == {Absolute(n) : n \in {"a.x", "b.x", "y"}} \cup {[kind |-> "relative", to |-> Url("")]}
Mark(what) == Tool!Mark(what, "")
WholeResult(l) == <<Mark("<a"), Mark("class"), Tool!Mark("href", l), Mark(">"), Mark("title"), Mark("end")>>
Anchor(l) == <<Mark("<a"), Tool!Mark("href", l), Mark(">"), Mark("title"), Mark("end")>>
Broken == {<<Mark("<a"), Mark("class"), Mark(">"), Mark("end")>>,
           <<Mark("<a"), Tool!Mark("href", Absolute("y")), Mark("class"), Mark(">"), Mark("title"), Mark("end")>>,
           <<Mark("<a"), Tool!Mark("href", Absolute("y")), Mark(">"), Mark("end")>>,
           <<Mark("<a"), Mark("class"), Tool!Mark("href", Absolute("y")), Mark(">"), Mark("title")>>}
Domains == Maybe({{"x"}, {"a.x"}, {"y", "x"}, {}})
UrlsOf(links) == SelectSeq([i \in DOMAIN links |-> IF links[i].kind = "relative" THEN Url("") ELSE links[i].to], LAMBDA u : u.name # "")
PdfParts == {<<>>, <<"x">>, <<"\\(", "y">>, <<"x", "\\)">>, <<"(", "y", ")">>, <<"\\101">>}
PdfLine == {[op |-> "TJ", parts |-> <<p, q>>] : p \in PdfParts, q \in PdfParts}
           \cup {[op |-> op, parts |-> <<p>>] : op \in {"Tj", "'"}, p \in PdfParts}
TextOf(lines) == <<[op |-> "BT", parts |-> <<>>], [op |-> "Tf", parts |-> <<>>]>> \o lines \o <<[op |-> "ET", parts |-> <<>>]>>
TwoShows == [packed |-> FALSE, long |-> FALSE, lines |-> TextOf(<<[op |-> "TJ", parts |-> <<<<"x">>>>], [op |-> "'", parts |-> <<<<"y">>>>]>>)]
PdfStream == [packed : BOOLEAN, long : BOOLEAN,
              lines : {TextOf(<<>>)} \cup UNION {{TextOf(<<l>>), TextOf(<<l>> \o SubSeq(TwoShows.lines, 3, 4))} : l \in PdfLine}]
PageText == UpTo({"a", " ", "\n"}, 2)
Fetched == [html : {FALSE}, grows : {0}, title : {<<>>}, before : {<<>>}, after : UpTo({"a", " ", "\n"}, 5)]
           \cup [html : {TRUE}, grows : -2..2, title : Maybe(UpTo({"t", " "}, 2)), before : PageText, after : PageText]
FetchedUrl == [scheme : {"http", "https"}, host : {"localhost", "127.0.0.1", "[::1]", "x"}]
Match == {"name", "spelt", "inside", "described", "not"}
AskTools ==
    \/ Ask([about : {"window"}, file : ToolText])
    \/ \E f \in GrepFiles :
          Ask([about : {"grep"}, files : {f}, mode : {"content", "count", "files_with_matches"}, before : Maybe({0, 1}),
               after : Maybe({2}), context : {0, 1}, limit : Maybe({0, 1, 2}), offset : Maybe({1, 3})])
    \/ Ask([about : {"glob"}, entries : UpTo([file : BOOLEAN, modified : 0..2], 3)])
    \/ Ask([about : {"write"}, file : ToolText, content : UpTo({"a", "NUL"}, 4)])
    \/ Ask([about : {"edit"}, file : ToolText, old : UpTo({"a", "b"}, 2), new : UpTo({"a", "c"}, 2), all : BOOLEAN])
    \/ \E n \in 0..2, k \in 1..3 : Ask([about : {"notebook"}, cells : {Cells(n)}, edits : [1..k -> CellEdit]])
    \/ Ask([about : {"todo"}, store : {Tool!Garbage} \cup {Tool!Stored(l) : l \in UpTo({Todo(TRUE, FALSE), Todo(FALSE, FALSE)}, 1)},
            first : TodoList, second : TodoList])
    \/ \E k \in 0..2 : \E links \in [1..k -> PageLink] :
          Ask([about : {"web"}, page : {FlattenSeq([i \in 1..k |-> WholeResult(links[i])])}, links : {UrlsOf(links)},
               allowed : Domains, blocked : Domains])
    \/ \E k \in 0..2 : \E links \in [1..k -> PageLink], odd \in Broken :
          Ask([about : {"web"}, page : {FlattenSeq([i \in 1..k |-> Anchor(links[i])]) \o odd,
                                        FlattenSeq([i \in 1..k |-> WholeResult(links[i])]) \o odd},
               links : {<<>>}, allowed : Domains, blocked : Domains])
    \/ \E first \in PdfStream, next \in {<<>>, <<TwoShows>>, <<[TwoShows EXCEPT !.packed = TRUE]>>} :
          Ask([about : {"pdf"}, streams : {<<first>> \o next}])
    \/ Ask([about : {"fetch"}, url : {[scheme |-> "http", host |-> "x"]}, hops : {<<>>}, page : Fetched, prompt : {"title", "summary"}])
    \/ \E n \in 0..2 : Ask([about : {"fetch"}, url : FetchedUrl, hops : [1..n -> FetchedUrl], page : {[html |-> FALSE, grows |-> 0,
                              title |-> <<>>, before |-> <<>>, after |-> <<"a">>]}, prompt : {"summary"}])
    \/ Ask([about : {"trigger"}, method : {"GET", "TRACE"}, reply : Maybe([status : {200, 204, 301, 404}, body : UpTo({1, 2}, 4)])])
    \/ Ask([about : {"user"}, options : UpTo({"a", "b", "1", "2"}, 3)])
    \/ Ask([about : {"tool"}, found : [1..3 -> [{"t"} -> Match]], required : {{}, {"t"}}, optional : {{}, {"t"}}, most : 1..3])
    \/ Ask([about : {"tool"}, found : [1..2 -> [{"t", "u"} -> Match]], required : {{}, {"t"}, {"u"}},
            optional : {{}, {"t"}, {"u"}}, most : 1..3])
-----------------------------------------------------------------------------
(* The workspace as it is found, and what is shown on the terminal.        *)
Instructions(key, chars) == [file |-> "text", key |-> key, chars |-> chars]
NoFile == [file |-> "missing", key |-> 0, chars |-> 0]
Unreadable == [file |-> "unreadable", key |-> 0, chars |-> 0]
GivenFile == {NoFile, Instructions(1, 2), Instructions(2, 5), Instructions(3, 0), Instructions(4, 4)}
\* The pairs of letters that a status of git begins with.
StatusLine ==
    ({<<x, y>> : x, y \in {" ", "M", "A", "U", "D"}} \cup {<<"?", "?">>})
    \ {<<" ", " ">>, <<" ", "U">>, <<"M", "U">>, <<"U", "M">>, <<"U", " ">>, <<"A", "D">>,
       <<" ", "A">>, <<"M", "A">>, <<"D", "A">>, <<"D", "M">>}
GitFacts == [current : Maybe({"", "b"}), abbrev : Maybe({"HEAD", "b"}),
             header : {<<>>, <<"HEAD", "(no", "branch)">>, <<"b">>, <<"b", "", "", "origin/b">>}, inside : {TRUE},
             log : {<<>>}, stagedFiles : {<<>>}]
ProxyVars == {"CLAUDE_CODE_REMOTE", "CCR_UPSTREAM_PROXY_ENABLED", "CLAUDE_CODE_REMOTE_SESSION_ID", "CCR_CA_BUNDLE_PATH",
              "HTTPS_PROXY", "SSL_CERT_FILE", "no_proxy"}
AskWorkspace ==
    \/ \E a, b, c, e \in GivenFile, d \in {NoFile, Instructions(1, 2)} :
          Ask([about : {"instructions"}, depth : {2}, disk : {<< <<a, NoFile, d, NoFile>>, <<b, c, NoFile, e>> >>}])
    \/ Ask([about : {"instructions"}, depth : {1}, disk : {<< <<Instructions(1, 2), Unreadable, NoFile, NoFile>> >>}])
    \/ Ask([about : {"git"}, lines : UpTo(StatusLine, 2), git : GitFacts])
    \/ Ask([about : {"base"}, flag : {"", "HEAD", "x"}, file : {"", "x"}, rev : UNION {[K -> {1, 2}] : K \in SUBSET {"HEAD", "x"}},
            isPrefix : {{}, {<<"x", 1>>}}])
    \/ Ask([about : {"init"},
            disk : [claw : {"missing", "dir", "file"}, config : Maybe({"mine"}), memory : Maybe({"mine"}),
                    gitignore : Maybe({<<>>, <<"target">>, <<Place!Ignored[2]>>, Place!Ignored})],
            markers : SUBSET {"Cargo.toml", "setup.py", "next"}, later : {{}, {"src", "tests"}}, steps : 0..4])
    \/ Ask([about : {"doctor"},
            asked : [key : {"unset", "blank", "set"}, token : {"unset", "blank", "set"}, dotenv : {"unset", "set"},
                     saved : {"none", "valid", "expired", "unreadable"}, loads : BOOLEAN, inside : BOOLEAN, unreadable : BOOLEAN,
                     sandbox : [enabled : BOOLEAN, active : BOOLEAN], plain : [enabled : {TRUE}, active : BOOLEAN]]])
    \/ \E K \in SUBSET ProxyVars : Ask([about : {"proxy"}, env : [K -> {"1", "p"}], token : {"", "t"}])
    \/ \E word \in UpTo({"a", "b"}, 4) :
          Ask([about : {"suggest"}, input : UpTo({"a", "b"}, 3),
               names : {<<word>>, <<word, <<"b", "a">>, <<"c", "a", "b">>, <<"c", "c", "c", "c", "c">> >>}])

Fence(char, length, info) == [char |-> char, len |-> length, info |-> info]
Fences == {Screen!NoFence, Fence("tick", 1, TRUE), Fence("tick", 1, FALSE), Fence("tick", 2, FALSE), Fence("tilde", 1, TRUE)}
MarkdownLine == {<<"tick", "LF">>, <<"tick", "w", "LF">>, <<"tick", "tick", "LF">>, <<"tilde", "LF">>, <<"w", "LF">>, <<"LF">>,
                 <<" ", "w", "tick", "LF">>}
Spans == {<< <<"text", "a">> >>,
          << <<"+emphasis">>, <<"text", "a">>, <<"+strong">>, <<"text", "b">>, <<"-strong">>, <<"-emphasis">> >>,
          << <<"+link", "d">>, <<"text", "a">>, <<"-link">> >>,
          << <<"+strong">>, <<"+link", "d">>, <<"raw", "c">>, <<"-link">>, <<"text", "b">>, <<"-strong">> >>,
          << <<"+link", "d">>, <<"-link">> >>}
List(first, items) ==
    << <<"+list", first>> >> \o FlattenSeq([i \in DOMAIN items |-> << <<"+item">> >> \o items[i] \o << <<"-item">> >>]) \o << <<"-list">> >>
Cell(c) == << <<"+cell">> >> \o c \o << <<"-cell">> >>
Events ==
    Spans \cup {<< <<"+heading", n>> >> \o s \o << <<"-heading">> >> : n \in {2, 3}, s \in Spans}
    \cup {<< <<"+quote">> >> \o s \o << <<"-quote">> >> : s \in Spans}
    \cup {<< <<"+code">>, <<"text", "a">>, <<"text", "b">>, <<"-code">> >>}
    \cup {List(n, <<s, t \o List(m, <<s, t>>), s>>) : n \in {0, 1, 3}, m \in {0, 1}, s, t \in Spans}
    \cup {<< <<"+table">>, <<"+head">> >> \o Cell(s) \o Cell(t) \o << <<"-head">>, <<"+row">> >> \o Cell(t) \o Cell(<<>>)
          \o << <<"-row">>, <<"-table">> >> : s, t \in Spans}
Typed == {<<"line", <<"a">>>>, <<"line", <<"a", "\\">>>>, <<"line", <<"/submit">>>>, <<"line", <<".cancel">>>>,
          <<"eof">>, <<"interrupt", TRUE>>, <<"interrupt", FALSE>>}
AskFences == Ask([about : {"fences"}, fences : UpTo(Fences, 6)])
AskTerminal ==
    \/ AskFences
    \/ \E lines \in UpTo(MarkdownLine, 3) :
          LET text == FlattenSeq(lines) IN
          \E c \in 0..Len(text) : Ask([about : {"markdown"}, deltas : {CutAt(text, c, d) : d \in c..Len(text)}])
    \/ Ask([about : {"render"}, events : {b \o s : b \in Events, s \in Spans \cup {<<>>}}])
    \/ Ask([about : {"result"}, tool : {"bash", "read_file", "grep_search", "glob_search", "edit_file", "write_file", "other"},
            result : [error : BOOLEAN, stdout : UpTo(0..3, 4), stderr : {<<>>, <<4>>}, names : {<<>>, <<1, 2, 3>>},
                      hunks : {<<>>, << <<1>>, <<2, 3, 4>>, <<5>> >>}]])
    \/ Ask([about : {"typed"}, typed : UpTo(Typed, 4)])
    \/ Ask([about : {"progress"}, schedule : [1..7 -> {"main", "beat"}],
            events : {<<a, b, end>> : a, b \in {"model", "bash", "text", "blank"}, end \in {"complete", "failed", "drop"}}])
-----------------------------------------------------------------------------
DecisionsSpec ==
    Unasked /\ [][/\ Unasked
                  /\ \/ AskCommand \/ AskAccess \/ AskDeclared \/ AskWire \/ AskRecords \/ AskTools
                     \/ AskWorkspace \/ AskTerminal]_question

\* What a plugin or a settings file declares is refused, or it is what will be used.
DeclaredIsKept == Declares!RunsAsChecked /\ Declares!PluginHooksDecide /\ Declares!ConfigComposes
\* What the program sends and reads means the same on both sides of the wire, to MCP servers and
\* clients and to providers of either protocol.
WireAgrees == Mcp!McpAgrees /\ Api!RequestsRight
\* What is written is read back, and what is counted or shortened keeps its sense.
RecordsHold == Record!RecordsHold
\* The built-in tools do to files, lists, notebooks and results what they report.
ToolsCompute == Tool!ToolsCompute
\* What the workspace holds is told to the model, and what the model and tools say is shown
\* to the user, whole or with a note of what is missing.
ShownWhole == Place!WorkspaceTold /\ Screen!TerminalTold
=============================================================================
