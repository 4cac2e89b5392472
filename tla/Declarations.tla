----------------------------- MODULE Declarations -----------------------------
(***************************************************************************)
(* What a plugin's manifest and the settings files may say.                *)
(*                                                                         *)
(* A manifest (src/rust/crates/plugins/src/lib.rs) is validated where the  *)
(* plugin comes from, again wherever its copy is loaded, its commands are  *)
(* resolved against the plugin's directory, validated once more when the   *)
(* plugin is enabled, and run by three different runners.  A command entry *)
(* is a record: its form, and a name.  "inside" stands for ./name,         *)
(* "outside" for ../name; "literal" is a word of the shell.  A location is *)
(* a directory and a name in it.                                           *)
(*                                                                         *)
(* The sections of the settings files                                      *)
(* (src/rust/crates/runtime/src/config_validate.rs and config.rs) have     *)
(* three readers that must agree on what a section may hold: the           *)
(* validator, which looks at each file on its own against tables of        *)
(* fields; the readers of hooks and of MCP servers, which look at each     *)
(* file, too; and the readers of everything else, which look at what the   *)
(* files give together.  A value is a record: its kind, the text of a      *)
(* string, the number, and the members of an object.  Files stand from the *)
(* weakest on.                                                             *)
(***************************************************************************)
EXTENDS Question, Integers, Sequences, SequencesExt, FiniteSets, TLC

CONSTANT Trimmed    \* [texts with blanks around them -> without]

Trim(text) == IF text \in DOMAIN Trimmed THEN Trimmed[text] ELSE text
Blank(text) == Trim(text) = ""
IsLiteral(entry) == entry.form \in {"literal", "bare"}

Located(root, entry) ==
    CASE entry.form = "outside" -> <<"beside", root, entry.name>>
      [] entry.form = "absolute" -> <<"anywhere", entry.name>>
      [] OTHER -> <<root, entry.name>>
-----------------------------------------------------------------------------
(* load_manifest_from_path and build_plugin_manifest.                      *)

Fault(holds, fault) == IF holds THEN {fault} ELSE {}
HookEvent == {"PreToolUse", "PostToolUse", "PostToolUseFailure"}
Foreign == {"skills", "mcpServers", "agents"}
\* detect_claude_code_manifest_contract_gaps, before the manifest is typed.
ContractGaps(raw) == (raw.fields \cap Foreign) \cup (raw.hookNames \ HookEvent)
                     \cup Fault(raw.globs, "commands")

\* validate_command_entry.
EntryFaults(kind, entry, root, files) ==
    IF entry.form = "blank" THEN {<<kind, "empty">>}
    ELSE IF IsLiteral(entry) \/ Located(root, entry) \in files.plain THEN {}
    ELSE IF Located(root, entry) \in files.directories THEN {<<kind, "directory", entry>>}
    ELSE {<<kind, "missing", entry>>}

Duplicate(names, i) == \E j \in 1..(i - 1) : Trim(names[j]) = Trim(names[i])
Names(items) == [i \in DOMAIN items |-> items[i].name]
\* Of an entry without a name, or with one that was there before, nothing else is
\* looked at.
ItemFaults(kind, items, faults) ==
    UNION {IF Blank(items[i].name) THEN {<<kind, "unnamed">>}
           ELSE IF Duplicate(Names(items), i) THEN {<<kind, "duplicate", Trim(items[i].name)>>}
           ELSE Fault(~items[i].described, <<kind, "description">>) \cup faults[items[i]] : i \in DOMAIN items}
PermissionFaults(permissions) ==
    {<<"permission", permissions[i]>> : i \in {j \in DOMAIN permissions :
        \/ Duplicate(permissions, j)
        \/ Trim(permissions[j]) \notin {"read", "write", "execute"}}}
ToolPermission == {"read-only", "workspace-write", "danger-full-access"}

ManifestFaults(raw, root, files) ==
    LET Entries(kind, entries) == UNION {EntryFaults(kind, entries[i], root, files) : i \in DOMAIN entries}
        OfTool == [tool \in ToSet(raw.tools) |->
                      EntryFaults("tool", tool.command, root, files)
                      \cup Fault(~tool.schema, <<"tool", "schema">>)
                      \cup Fault(Trim(tool.permission) \notin ToolPermission, <<"tool", "permission">>)]
        OfCommand == [c \in ToSet(raw.commands) |-> EntryFaults("command", c.command, root, files)]
    IN  {<<field>> : field \in raw.blank} \cup PermissionFaults(raw.permissions)
        \cup UNION {Entries("hook", raw.hooks[event]) : event \in DOMAIN raw.hooks}
        \cup Entries("lifecycle", raw.init) \cup Entries("lifecycle", raw.shutdown)
        \cup ItemFaults("tool", raw.tools, OfTool) \cup ItemFaults("command", raw.commands, OfCommand)

\* load_plugin_from_directory; raw is the manifest in the directory itself or, when
\* there is none, the packaged one.
PluginLoads(raw, root, files) ==
    ContractGaps(raw) = {} /\ raw.typed /\ ManifestFaults(raw, root, files) = {}
-----------------------------------------------------------------------------
(* load_plugin_definition: the entries of a plugin that loads.  Joined to  *)
(* a root that is itself relative, an entry is one no longer.              *)

Resolved(entry, root, relative) ==
    IF IsLiteral(entry) THEN entry
    ELSE [form |-> IF relative /\ entry.form # "absolute" THEN "bare" ELSE "absolute",
          name |-> Located(root, entry)]
Commands(raw) ==
    {<<"hook", e>> : e \in UNION {ToSet(raw.hooks[event]) : event \in DOMAIN raw.hooks}}
    \cup {<<"lifecycle", e>> : e \in ToSet(raw.init) \cup ToSet(raw.shutdown)}
    \cup {<<"tool", raw.tools[i].command>> : i \in DOMAIN raw.tools}
At(resolved) == IF resolved.form = "absolute" /\ Len(resolved.name) > 1 THEN resolved.name ELSE <<"cwd", resolved.name>>
\* Plugin::validate: validate_hook_paths, validate_lifecycle_paths, validate_tool_paths.
Validates(raw, root, relative, files) ==
    \A c \in Commands(raw) : LET r == Resolved(c[2], root, relative)
                             IN  IsLiteral(r) \/ At(r) \in files.plain

\* What runs: hooks are given to the shell where the program runs, tools are started
\* in the plugin's directory, and so are lifecycle commands, which are a script
\* if the program's directory has a file of that name.
Runs(kind, resolved, root, files) ==
    CASE resolved.form = "absolute" -> <<"file", At(resolved)>>
      [] resolved.form = "literal" ->
            IF kind = "lifecycle" /\ <<"cwd", resolved.name>> \in files.plain
            THEN <<"file", <<root, resolved.name>>>>
            ELSE <<IF kind = "tool" THEN "program" ELSE "shell", resolved.name>>
      [] resolved.form = "bare" -> IF kind = "hook" THEN <<"file", resolved.name>> ELSE <<"nothing">>
\* What the manifest asks for.
Asks(kind, entry, root) ==
    IF entry.form = "literal" THEN <<IF kind = "tool" THEN "program" ELSE "shell", entry.name>>
    ELSE <<"file", Located(root, entry)>>

\* copy_dir_all: what is in the source is in the copy.
Copied(files) ==
    [kind \in DOMAIN files |-> files[kind] \cup {<<"copy", l[2]>> : l \in {f \in files[kind] : f[1] = "source"}}]
Escapes(raw) == \E c \in Commands(raw) : c[2].form = "outside"
EscapesAny(raw) == Escapes(raw) \/ \E i \in DOMAIN raw.commands : raw.commands[i].command.form = "outside"

\* A plugin whose manifest was accepted at its source loads from its copy, and can be
\* enabled there: nothing its installation let through stops a later start.  Unless it
\* reaches out of its directory, the three runners start, for each entry, the file that was
\* validated or the words that were written, wherever the program runs, as
\* long as the configuration's directory is absolute and no file of the program's
\* directory has the name of a lifecycle command.
RunsAsChecked ==
    Asked("plugin") =>
        LET raw == question.raw
            copied == Copied(question.files)
        IN  /\ PluginLoads(raw, "source", question.files) /\ ~EscapesAny(raw) =>
                  PluginLoads(raw, "copy", copied) /\ Validates(raw, "copy", question.relative, copied)
            /\ PluginLoads(raw, "copy", copied) /\ ~question.relative =>
                  /\ Validates(raw, "copy", FALSE, copied)
                  /\ \A c \in Commands(raw) :
                        \/ Runs(c[1], Resolved(c[2], "copy", FALSE), "copy", copied) = Asks(c[1], c[2], "copy")
                        \/ c[1] = "lifecycle" /\ <<"cwd", c[2].name>> \in copied.plain
-----------------------------------------------------------------------------
(* The plugins' own runner of hooks (src/rust/crates/plugins/src/hooks.rs; *)
(* the program runs them with the one of the runtime).  A plugin is        *)
(* enabled or not, may still be validated or not, and has commands for     *)
(* each event; what a command does is how it ends and what it prints, ""   *)
(* for nothing.  A command that cannot start, or that ends before its      *)
(* payload is written, does not "run".                                     *)

\* aggregated_hooks: <<>> if a plugin that is enabled does not validate.
AggregatedHooks(plugins) ==
    LET enabled == SelectSeq(plugins, LAMBDA p : p.enabled)
    IN  IF \E i \in DOMAIN enabled : ~enabled[i].validates THEN <<>>
        ELSE <<[event \in HookEvent |-> FlattenSeq([i \in DOMAIN enabled |-> enabled[i].hooks[event]])]>>
\* run_pre_tool_use and its two like: the output and the error that an event has.
CallOf(event, call) ==
    [call EXCEPT !.output = IF event = "PreToolUse" THEN <<>> ELSE @,
                 !.error = event = "PostToolUseFailure" \/ (event = "PostToolUse" /\ @)]
HookPayload(event, call) ==
    [event |-> event, tool |-> call.tool, text |-> call.input, output |-> call.output,
     input |-> <<IF call.parses THEN "value" ELSE "raw", call.input>>,
     names |-> IF event = "PostToolUseFailure" THEN "tool_error" ELSE "tool_output",
     error |-> IF event = "PostToolUseFailure" THEN TRUE ELSE call.error]
HookEnv(event, call) ==
    [HOOK_EVENT |-> event, HOOK_TOOL_NAME |-> call.tool, HOOK_TOOL_INPUT |-> call.input, HOOK_TOOL_IS_ERROR |-> call.error]
    @@ IF call.output = <<>> THEN <<>> ELSE "HOOK_TOOL_OUTPUT" :> call.output[1]
\* run_command and format_hook_warning: the verdict, and the text of a message.
HookOutcome(command) ==
    LET said == IF Blank(command.stdout) THEN <<>> ELSE <<Trim(command.stdout)>>
        warned == IF said # <<>> THEN said ELSE IF Blank(command.stderr) THEN <<>> ELSE <<Trim(command.stderr)>>
    IN  CASE command.ends = "0" -> [is |-> "allow", said |-> said]
          [] command.ends = "2" -> [is |-> "deny", said |-> IF said = <<>> THEN <<"denied">> ELSE said]
          [] command.ends = "1" -> [is |-> "failed", said |-> <<"status">> \o warned]
          [] OTHER -> [is |-> "failed", said |-> <<command.ends>>]
HookCommands(commands) ==
    LET Run(acc, command) ==
            LET outcome == HookOutcome(command)
            IN  IF acc.denied \/ acc.failed THEN acc
                ELSE [ran |-> Append(acc.ran, command), denied |-> outcome.is = "deny", failed |-> outcome.is = "failed",
                      messages |-> IF outcome.said = <<>> THEN acc.messages ELSE Append(acc.messages, outcome.said)]
    IN  FoldLeft(Run, [ran |-> <<>>, denied |-> FALSE, failed |-> FALSE, messages |-> <<>>], commands)

\* The hooks of the enabled plugins run in the plugins' order up to the first that does not
\* allow the call, and none after it; that one decides and says why; and what every earlier one
\* printed is kept.  A hook is told the same in its environment as on its input.
\* (src/rust/crates/plugins/src/hooks.rs, HookRunner::run_commands and hook_payload)
PluginHooksDecide ==
    Asked("hooks") =>
        LET event == question.event
            call == CallOf(event, question.call)
            payload == HookPayload(event, call)
            env == HookEnv(event, call)
            hooks == AggregatedHooks(question.plugins)
            result == HookCommands(hooks[1][event])
            Owner(command) == {i \in DOMAIN question.plugins : Contains(question.plugins[i].hooks[event], command)}
            Refuses(command) == command.ends # "0"
        IN  /\ hooks # <<>> =>
                  /\ \A i \in DOMAIN result.ran :
                        /\ \E p \in Owner(result.ran[i]) : question.plugins[p].enabled
                        /\ Refuses(result.ran[i]) => i = Len(result.ran)
                        /\ i > 1 => \E p \in Owner(result.ran[i - 1]), q \in Owner(result.ran[i]) : p <= q
                  /\ \A p \in DOMAIN question.plugins :
                        (question.plugins[p].enabled /\ ~result.denied /\ ~result.failed)
                            => ToSet(question.plugins[p].hooks[event]) \subseteq ToSet(result.ran)
                  /\ result.denied \/ result.failed <=> \E i \in DOMAIN result.ran : Refuses(result.ran[i])
                  /\ ~(result.denied /\ result.failed)
                  /\ result.denied \/ result.failed => result.messages # <<>> /\ Last(result.messages) # <<>>
                  /\ \A i \in DOMAIN result.ran : ~Blank(result.ran[i].stdout) /\ result.ran[i].ends \in {"0", "1", "2"}
                        => \E m \in DOMAIN result.messages : Contains(result.messages[m], Trim(result.ran[i].stdout))
            /\ env["HOOK_TOOL_IS_ERROR"] = payload.error /\ env["HOOK_TOOL_INPUT"] = payload.text
            /\ ("HOOK_TOOL_OUTPUT" \in DOMAIN env) = (payload.output # <<>>)
            /\ payload.output # <<>> => env["HOOK_TOOL_OUTPUT"] = payload.output[1]
-----------------------------------------------------------------------------
(* The settings files.                                                     *)

Value(kind) == [kind |-> kind, text |-> "", number |-> 0, of |-> <<>>]
Text(text) == [Value("string") EXCEPT !.text = text]
Number(n) == [Value("number") EXCEPT !.number = n]
Object(of) == [Value("object") EXCEPT !.of = of]

\* FieldType::matches, and what the readers of config.rs take a field for.
Is(value, type) ==
    CASE type = "u16" -> value.kind = "number" /\ value.number \in 0..65535
      [] type \in {"u32", "u64"} -> value.kind = "number" /\ value.number >= 0
      [] type = "string map" -> value.kind = "object" /\ \A k \in DOMAIN value.of : value.of[k].kind = "string"
      [] type = "bool map" -> value.kind = "object" /\ \A k \in DOMAIN value.of : value.of[k].kind = "bool"
      [] OTHER -> value.kind = type     \* "strings" is an array of nothing else
-----------------------------------------------------------------------------
(* config_validate.rs.                                                     *)

TopLevelFields ==
    [model |-> "string", hooks |-> "object", permissions |-> "object", permissionMode |-> "string",
     mcpServers |-> "object", oauth |-> "object", enabledPlugins |-> "object", plugins |-> "object",
     sandbox |-> "object", env |-> "object", aliases |-> "object", providerFallbacks |-> "object",
     trustedRoots |-> "strings"] @@ ("$schema" :> "string")
HooksFields == [PreToolUse |-> "strings", PostToolUse |-> "strings", PostToolUseFailure |-> "strings"]
PermissionsFields == [defaultMode |-> "string", allow |-> "strings", deny |-> "strings", ask |-> "strings"]
PluginsFields == [enabled |-> "object", externalDirectories |-> "strings", installRoot |-> "string",
                  registryPath |-> "string", bundledRoot |-> "string", maxOutputTokens |-> "number"]
SandboxFields == [enabled |-> "bool", namespaceRestrictions |-> "bool", networkIsolation |-> "bool",
                  filesystemMode |-> "string", allowedMounts |-> "strings"]
OAuthFields == [clientId |-> "string", authorizeUrl |-> "string", tokenUrl |-> "string",
                callbackPort |-> "number", manualRedirectUrl |-> "string", scopes |-> "strings"]
Section == [hooks |-> HooksFields, permissions |-> PermissionsFields, plugins |-> PluginsFields,
            sandbox |-> SandboxFields, oauth |-> OAuthFields]
Deprecated == {"permissionMode", "enabledPlugins"}

\* Mutant: a known name is enough.
ValidKeysNamed(object, fields) == \A key \in DOMAIN object : key \in DOMAIN fields \cup Deprecated
\* validate_object_keys.  A deprecated name passes in every section.
ValidKeys(object, fields) ==
    \A key \in DOMAIN object :
        IF key \in DOMAIN fields THEN Is(object[key], fields[key]) ELSE key \in Deprecated
ValidateConfigFile(file) ==
    /\ ValidKeys(file, TopLevelFields)
    /\ \A name \in DOMAIN Section \cap DOMAIN file :
          file[name].kind = "object" => ValidKeys(file[name].of, Section[name])
-----------------------------------------------------------------------------
(* The readers of config.rs.                                               *)

Fits(object, fields) == \A name \in DOMAIN fields \cap DOMAIN object : Is(object[name], fields[name])
Has(object, names) == \A name \in names : name \in DOMAIN object /\ object[name].kind = "string"
\* expect_object: a section that is there is an object, and so are its fields.
Reads(root, name, fields) ==
    name \in DOMAIN root => root[name].kind = "object" /\ Fits(root[name].of, fields)
MemberText(root, section, name) ==
    IF section \in DOMAIN root /\ name \in DOMAIN root[section].of THEN {root[section].of[name].text} ELSE {}

ReadsHooks(root) == Reads(root, "hooks", HooksFields)
ReadsPlugins(root) ==
    /\ Fits(root, [enabledPlugins |-> "bool map"])
    /\ Reads(root, "plugins", [PluginsFields EXCEPT !.enabled = "bool map", !.maxOutputTokens = "u32"])
ReadsOAuth(root) ==
    /\ Reads(root, "oauth", [OAuthFields EXCEPT !.callbackPort = "u16"])
    /\ "oauth" \in DOMAIN root => Has(root["oauth"].of, {"clientId", "authorizeUrl", "tokenUrl"})
ReadsSandbox(root) ==
    /\ Reads(root, "sandbox", SandboxFields)
    /\ MemberText(root, "sandbox", "filesystemMode") \subseteq {"off", "workspace-only", "allow-list"}
PermissionModes == {"default", "plan", "read-only", "acceptEdits", "auto", "workspace-write",
                    "dontAsk", "danger-full-access"}
ReadsPermissions(root) ==
    LET flat == "permissionMode" \in DOMAIN root /\ root["permissionMode"].kind = "string"
        object == "permissions" \in DOMAIN root /\ root["permissions"].kind = "object"
    IN  /\ object => Fits(root["permissions"].of, [allow |-> "strings", deny |-> "strings", ask |-> "strings"])
        /\ IF flat THEN root["permissionMode"].text \in PermissionModes
           ELSE (object /\ "defaultMode" \in DOMAIN root["permissions"].of
                        /\ root["permissions"].of["defaultMode"].kind = "string")
                => root["permissions"].of["defaultMode"].text \in PermissionModes
ReadsRest(root) ==
    /\ Fits(root, [aliases |-> "string map", trustedRoots |-> "strings"])
    /\ Reads(root, "providerFallbacks", [primary |-> "string", fallbacks |-> "strings"])

\* parse_mcp_server_config: the type that is given, or else told by the url.
ServerType(server) == IF "type" \in DOMAIN server THEN server["type"].text
                      ELSE IF "url" \in DOMAIN server THEN "http" ELSE "stdio"
Remote == [headers |-> "string map", headersHelper |-> "string"]
McpOAuth == [clientId |-> "string", callbackPort |-> "u16", authServerMetadataUrl |-> "string", xaa |-> "bool"]
ReadsServer(value) ==
    LET server == value.of
        type == ServerType(server)
    IN  /\ value.kind = "object" /\ Fits(server, [type |-> "string"])
        /\ CASE type = "stdio" -> /\ Has(server, {"command"})
                                  /\ Fits(server, [args |-> "strings", env |-> "string map", toolCallTimeoutMs |-> "u64"])
             [] type \in {"http", "sse"} -> Has(server, {"url"}) /\ Fits(server, Remote) /\ Reads(server, "oauth", McpOAuth)
             [] type = "ws" -> Has(server, {"url"}) /\ Fits(server, Remote)
             [] type = "sdk" -> Has(server, {"name"})
             [] type = "claudeai-proxy" -> Has(server, {"url", "id"})
             [] OTHER -> FALSE
Servers(file) == IF "mcpServers" \in DOMAIN file THEN file["mcpServers"].of ELSE <<>>
-----------------------------------------------------------------------------
(* ConfigLoader::load.                                                     *)

\* deep_merge_objects, as deep as any reader looks.
Merge(target, source) ==
    LET Both(key, x, y) ==
            IF x.kind = "object" /\ y.kind = "object"
            THEN Object([k \in DOMAIN x.of \cup DOMAIN y.of |->
                    IF k \notin DOMAIN y.of THEN x.of[k]
                    ELSE IF k \in DOMAIN x.of /\ x.of[k].kind = "object" /\ y.of[k].kind = "object"
                    THEN Object(y.of[k].of @@ x.of[k].of) ELSE y.of[k]])
            ELSE y
    IN  [key \in DOMAIN target \cup DOMAIN source |->
            IF key \notin DOMAIN source THEN target[key]
            ELSE IF key \in DOMAIN target THEN Both(key, target[key], source[key]) ELSE source[key]]
FileLoads(file) ==
    /\ ValidateConfigFile(file) /\ ReadsHooks(file)
    /\ \A name \in DOMAIN Servers(file) : ReadsServer(Servers(file)[name])
ReadsMerged(root) ==
    /\ ReadsHooks(root) /\ ReadsPlugins(root) /\ ReadsOAuth(root) /\ ReadsSandbox(root)
    /\ ReadsPermissions(root) /\ ReadsRest(root)
Merged(files) == FoldLeft(Merge, <<>>, files)
\* A server is what the strongest file that has it says, with nothing of the others.
McpServers(files) == FoldLeft(LAMBDA acc, file : Servers(file) @@ acc, <<>>, files)
Loads(files) == (\A i \in DOMAIN files : FileLoads(files[i])) /\ ReadsMerged(Merged(files))

\* Files that load each on its own load together, so that no two of them can break each
\* other; and in files that load, no setting is passed over in silence: everything in
\* them has the type its reader wants, also where the reader would skip
\* anything else without a word.  A deprecated name is passed over wherever it stands.
ConfigComposes ==
    Asked("config") =>
        LET files == question.files
            root == Merged(files)
        IN  /\ (\A i \in DOMAIN files : Loads(<<files[i]>>)) => Loads(files)
            /\ Loads(files) =>
                  /\ \A name \in {"model", "permissionMode"} \cap DOMAIN root : root[name].kind = "string"
                  /\ \A name \in DOMAIN root : name \in DOMAIN TopLevelFields
                  /\ \A name \in DOMAIN Section \cap DOMAIN root :
                        /\ root[name].kind = "object"
                        /\ DOMAIN root[name].of \subseteq DOMAIN Section[name] \cup Deprecated
                        /\ Fits(root[name].of, Section[name])
                  /\ \A server \in DOMAIN McpServers(files) : ReadsServer(McpServers(files)[server])
=============================================================================
