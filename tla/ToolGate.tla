------------------------------- MODULE ToolGate -------------------------------
(***************************************************************************)
(* What a call must pass before its tool runs.  Which tools there are,     *)
(* which of them the model is shown, what each one requires, and who runs  *)
(* it when it is called: GlobalToolRegistry of                             *)
(* src/rust/crates/tools/src/lib.rs, and of rusty-claude-cli/src/main.rs   *)
(* the tools of MCP servers, permission_policy and CliToolExecutor.  What  *)
(* the policy, the sandbox and the validators of a command then decide     *)
(* (permissions.rs, permission_enforcer.rs, sandbox.rs, bash_validation.rs *)
(* of src/rust/crates/runtime/src).                                        *)
(***************************************************************************)
EXTENDS Question, Integers, Sequences, SequencesExt, FiniteSets, TLC

CONSTANT ToolKey    \* [names that normalize_tool_name changes -> what it makes of them]

Permission == INSTANCE PermissionPolicy
Unset == <<>>

ReadOnly == "ReadOnly"
WorkspaceWrite == "WorkspaceWrite"
DangerFullAccess == "DangerFullAccess"
-----------------------------------------------------------------------------
(* mvp_tool_specs: the built-in tools, in parts of its list.               *)

Requiring(reading, writing, everything) ==
    [n \in reading \cup writing \cup everything |->
        IF n \in reading THEN ReadOnly ELSE IF n \in writing THEN WorkspaceWrite ELSE DangerFullAccess]
FileSpecs == Requiring({"read_file", "glob_search", "grep_search", "WebFetch"}, {"write_file", "edit_file"}, {"bash"})
WorkSpecs == Requiring({"WebSearch", "Skill", "ToolSearch", "Sleep", "SendUserMessage"}, {"TodoWrite", "NotebookEdit"},
                       {"Agent"})
ModeSpecs == Requiring({"StructuredOutput", "AskUserQuestion"}, {"Config", "EnterPlanMode", "ExitPlanMode"},
                       {"REPL", "PowerShell", "TaskCreate", "RunTaskPacket"})
LaneSpecs == Requiring({"TaskGet", "TaskList", "TaskOutput", "WorkerGet", "WorkerObserve", "WorkerAwaitReady"}, {},
                       {"TaskStop", "TaskUpdate", "WorkerCreate", "WorkerResolveTrust", "WorkerSendPrompt"})
TeamSpecs == Requiring({"CronList", "LSP"}, {},
                       {"WorkerRestart", "WorkerTerminate", "WorkerObserveCompletion", "TeamCreate", "TeamDelete",
                        "CronCreate", "CronDelete"})
RemoteSpecs == Requiring({"ListMcpResources", "ReadMcpResource"}, {}, {"McpAuth", "RemoteTrigger", "MCP", "TestingPermission"})
Parts == {FileSpecs, WorkSpecs, ModeSpecs, LaneSpecs, TeamSpecs, RemoteSpecs}
Builtin == [n \in UNION {DOMAIN part : part \in Parts} |-> (CHOOSE part \in Parts : n \in DOMAIN part)[n]]

\* The names execute_tool_with_enforcer knows; "Brief" has no specification.
Dispatched == DOMAIN Builtin \cup {"Brief"}
\* What agent_permission_policy asks of a sub-agent, whose mode is DangerFullAccess.
Kinds == {"general-purpose", "Explore", "Plan", "Verification", "claw-guide", "statusline-setup"}
Reading == {"read_file", "glob_search", "grep_search", "ToolSearch"}
Looking == Reading \cup {"WebFetch", "WebSearch", "Skill", "StructuredOutput"}
AllowedTools(kind) ==
    CASE kind = "Explore" -> Looking
      [] kind = "Plan" -> Looking \cup {"TodoWrite", "SendUserMessage"}
      [] kind = "Verification" -> (Looking \ {"Skill"}) \cup
                                  {"bash", "TodoWrite", "SendUserMessage", "PowerShell"}
      [] kind = "claw-guide" -> Looking \cup {"SendUserMessage"}
      [] kind = "statusline-setup" -> Reading \cup {"bash", "write_file", "edit_file"}
      [] OTHER -> Looking \cup {"bash", "write_file", "edit_file", "TodoWrite", "NotebookEdit",
                                "Sleep", "SendUserMessage", "Config", "REPL", "PowerShell"}
-----------------------------------------------------------------------------
(* The registry of a session: plugin tools are [name, requires], the tools *)
(* of MCP servers [name, hints].                                           *)

HasDuplicates(names) == \E i, j \in DOMAIN names : i < j /\ names[i] = names[j]
NamesOf(tools) == [i \in DOMAIN tools |-> tools[i].name]

PermissionModeForMcpTool(hints) ==
    IF "destructive" \in hints \/ "openWorld" \in hints THEN DangerFullAccess
    ELSE IF "readOnly" \in hints THEN ReadOnly ELSE WorkspaceWrite
Wrappers == << [name |-> "MCPTool", requires |-> DangerFullAccess],
               [name |-> "ListMcpResourcesTool", requires |-> ReadOnly],
               [name |-> "ReadMcpResourceTool", requires |-> ReadOnly] >>
\* build_runtime_mcp_state: wrappers when a server is configured that can be reached at all.
RuntimeTools(mcp) ==
    [i \in DOMAIN mcp.tools |-> [name |-> mcp.tools[i].name,
                                 requires |-> PermissionModeForMcpTool(mcp.tools[i].hints)]]
    \o (IF mcp.servers # {} THEN Wrappers ELSE <<>>)

PluginToolsFit(plugins) ==
    ~HasDuplicates(NamesOf(plugins)) /\ ToSet(NamesOf(plugins)) \cap DOMAIN Builtin = {}
RuntimeToolsFit(runtime, plugins) ==
    /\ ~HasDuplicates(NamesOf(runtime))
    /\ ToSet(NamesOf(runtime)) \cap (DOMAIN Builtin \cup ToSet(NamesOf(plugins))) = {}
PermissionLabels == {ReadOnly, WorkspaceWrite, DangerFullAccess}
\* build_runtime_plugin_state_with_loader and permission_policy: a conflict, or a
\* plugin's label that is no mode, and there is no session.
Built(q) == /\ PluginToolsFit(q.plugins)
            /\ RuntimeToolsFit(RuntimeTools(q.mcp), q.plugins)
            /\ \A i \in DOMAIN q.plugins : q.plugins[i].requires \in PermissionLabels

\* permission_specs: a later specification of a name replaces an earlier one.
PermissionSpecs(q) ==
    LET tools == RuntimeTools(q.mcp) \o q.plugins
        At(name) == {i \in DOMAIN tools : tools[i].name = name}
    IN  [n \in DOMAIN Builtin \cup ToSet(NamesOf(tools)) |->
            IF At(n) = {} THEN Builtin[n] ELSE tools[Max(At(n))].requires]

\* normalize_allowed_tools: no value is no restriction, values of nothing but
\* separators allow nothing, and an unknown name is an error.
KeyOf(name) == IF name \in DOMAIN ToolKey THEN ToolKey[name] ELSE name
Aliases == [read |-> "read_file", write |-> "write_file", edit |-> "edit_file",
            glob |-> "glob_search", grep |-> "grep_search"]
Others(q) == NamesOf(q.plugins) \o NamesOf(RuntimeTools(q.mcp))
BuiltinKeys == [k \in {KeyOf(n) : n \in DOMAIN Builtin} |-> CHOOSE n \in DOMAIN Builtin : KeyOf(n) = k]
NameMap(q) ==
    LET others == Others(q)
        At(key) == {i \in DOMAIN others : KeyOf(others[i]) = key}
    IN  [k \in DOMAIN Aliases \cup DOMAIN BuiltinKeys \cup {KeyOf(n) : n \in ToSet(others)} |->
            IF k \in DOMAIN Aliases THEN Aliases[k] ELSE IF At(k) = {} THEN BuiltinKeys[k] ELSE others[Max(At(k))]]
Normalizes(q) == q.allowed # Unset => \A v \in q.allowed[1] : KeyOf(v) \in DOMAIN NameMap(q)
NormalizeAllowedTools(q) == IF q.allowed = Unset THEN Unset ELSE <<{NameMap(q)[KeyOf(v)] : v \in q.allowed[1]}>>

\* What a session keeps of all this.
Session(q) == [allowed |-> NormalizeAllowedTools(q), policy |-> PermissionSpecs(q),
               runtime |-> ToSet(NamesOf(RuntimeTools(q.mcp))), plugin |-> ToSet(NamesOf(q.plugins))]
RequiredMode(s, name) == IF name \in DOMAIN s.policy THEN s.policy[name] ELSE DangerFullAccess
Enabled(s, name) == s.allowed = Unset \/ name \in s.allowed[1]
\* definitions: what the model is shown.
Shown(s) == {n \in DOMAIN Builtin \cup s.runtime \cup s.plugin : Enabled(s, n)}

\* CliToolExecutor::execute and GlobalToolRegistry::execute: who runs a call.
RunBy(s, name) ==
    IF ~Enabled(s, name) THEN "refused"
    ELSE IF name = "ToolSearch" THEN "builtin"
    ELSE IF name \in s.runtime THEN "mcp"
    ELSE IF name \in DOMAIN Builtin THEN "builtin"
    ELSE IF name \in s.plugin THEN "plugin" ELSE "unsupported"
-----------------------------------------------------------------------------
\* In a session that was built, a tool the model is shown is the tool that runs:
\* one owner has its name, that owner runs it, what the policy requires of it is
\* what its owner declared, and it can be dispatched.  No other name runs, and what
\* a name requires that nobody declared is everything.  An MCP tool requires as much
\* by its own name as its server's hints call for, and no more than the wrapper that
\* can call it too.  If tools were named to be allowed, what is shown is what those
\* names mean.  What a kind of sub-agent may use exists, can be dispatched, and does
\* not start another agent.
GateHolds ==
  /\ \A kind \in Kinds \cup {"reviewer"} :
        AllowedTools(kind) \subseteq (DOMAIN Builtin \cap Dispatched) \ {"Agent"}
  /\ Asked("gate") /\ Built(question) /\ Normalizes(question) =>
        LET q == question
            s == Session(q)
            shown == Shown(s)
            mcp == ToSet(RuntimeTools(q.mcp))
            Declared(name) ==
                {<<"builtin", Builtin[n]>> : n \in {name} \cap DOMAIN Builtin}
                \cup {<<"plugin", t.requires>> : t \in {u \in ToSet(q.plugins) : u.name = name}}
                \cup {<<"mcp", t.requires>> : t \in {u \in mcp : u.name = name}}
            Means(v, n) == IF KeyOf(v) \in DOMAIN Aliases THEN n = Aliases[KeyOf(v)] ELSE KeyOf(n) = KeyOf(v)
        IN  /\ \A name \in shown :
                  /\ Declared(name) = {<<RunBy(s, name), RequiredMode(s, name)>>}
                  /\ RunBy(s, name) = "builtin" => name \in Dispatched
            /\ \A name \in q.called \ shown :
                  /\ RunBy(s, name) \in {"refused", "unsupported"}
                  /\ Declared(name) = {} => RequiredMode(s, name) = DangerFullAccess
            /\ \A t \in ToSet(q.mcp.tools) :
                  RequiredMode(s, t.name) = ReadOnly => t.hints = {"readOnly"}
            /\ q.allowed # Unset => /\ \A v \in q.allowed[1] : \E n \in shown : Means(v, n)
                                   /\ \A n \in shown : \E v \in q.allowed[1] : Means(v, n)
-----------------------------------------------------------------------------
(* A shell command before it runs: the sandbox it gets (sandbox.rs and     *)
(* bash.rs), and what the validators make of it (bash_validation.rs, a     *)
(* library that no tool calls yet).  A command is a record: the first word *)
(* after assignments, the words that follow it, and which texts the        *)
(* validators look for it contains.  An optional value is a sequence of at *)
(* most one.                                                               *)

Or(given, otherwise) == IF given = Unset THEN otherwise ELSE given[1]
Either(given, other) == IF given = Unset THEN other ELSE given

\* SandboxConfig::resolve_request: the call over the configuration over the default.
ResolveRequest(config, input) ==
    [enabled |-> Or(Either(input.enabled, config.enabled), TRUE),
     namespaces |-> Or(Either(input.namespaces, config.namespaces), TRUE),
     network |-> Or(Either(input.network, config.network), FALSE),
     files |-> Or(Either(input.files, config.files), "workspace-only"),
     mounts |-> Or(input.mounts, config.mounts)]
\* sandbox_status_for_input: without a configuration that loads, the default one.
NoConfig == [enabled |-> Unset, namespaces |-> Unset, network |-> Unset, files |-> Unset, mounts |-> {}]
RequestFor(input) == ResolveRequest(IF question.loads THEN question.config ELSE NoConfig, input)

\* resolve_sandbox_status_for_request; works tells whether unshare does.
SandboxStatus(r, works) ==
    [enabled |-> r.enabled,
     active |-> r.enabled /\ (r.namespaces => works) /\ (r.network => works),
     namespace |-> r.enabled /\ r.namespaces /\ works,
     network |-> r.enabled /\ r.network /\ works,
     files |-> r.enabled /\ r.files # "off",
     fallback |-> r.enabled /\ \/ (r.namespaces \/ r.network) /\ ~works
                               \/ r.files = "allow-list" /\ r.mounts = {}]
\* build_linux_sandbox_command and prepare_command: what the command runs in.
RunsIn(s) ==
    IF s.enabled /\ (s.namespace \/ s.network)
    THEN [unshared |-> {"user", "mount", "ipc", "pid", "uts"} \cup (IF s.network THEN {"net"} ELSE {}), home |-> "sandbox"]
    ELSE [unshared |-> {}, home |-> IF s.files THEN "sandbox" ELSE "user"]
-----------------------------------------------------------------------------
(* bash_validation.rs.                                                     *)

WriteCommands == {"cp", "mv", "rm", "mkdir", "rmdir", "touch", "chmod", "chown", "chgrp", "ln", "install",
    "tee", "truncate", "shred", "mkfifo", "mknod", "dd"}
StateModifyingCommands == {"apt", "apt-get", "yum", "dnf", "pacman", "brew", "pip", "pip3", "npm", "yarn",
    "pnpm", "bun", "cargo", "gem", "go", "rustup", "docker", "systemctl", "service", "mount", "umount", "kill",
    "pkill", "killall", "reboot", "shutdown", "halt", "poweroff", "useradd", "userdel", "usermod", "groupadd",
    "groupdel", "crontab", "at"}
GitReadOnly == {"status", "log", "diff", "show", "branch", "tag", "stash", "remote", "fetch", "ls-files",
    "ls-tree", "cat-file", "rev-parse", "describe", "shortlog", "blame", "bisect", "reflog", "config"}
AlwaysDestructive == {"shred", "wipefs"}
ReadOnlyCommands == {"ls", "cat", "head", "tail", "less", "more", "wc", "sort", "uniq", "grep", "egrep", "fgrep",
    "find", "which", "whereis", "whatis", "man", "info", "file", "stat", "du", "df", "free", "uptime", "uname",
    "hostname", "whoami", "id", "groups", "env", "printenv", "echo", "printf", "date", "cal", "bc", "expr",
    "test", "true", "false", "pwd", "tree", "diff", "cmp", "md5sum", "sha256sum", "sha1sum", "xxd", "od",
    "hexdump", "strings", "readlink", "realpath", "basename", "dirname", "seq", "yes", "tput", "column", "jq",
    "yq", "xargs", "tr", "cut", "paste", "awk", "sed"}
NetworkCommands == {"curl", "wget", "ssh", "scp", "rsync", "ftp", "sftp", "nc", "ncat", "telnet", "ping",
    "traceroute", "dig", "nslookup", "host", "whois", "ifconfig", "ip", "netstat", "ss", "nmap"}
ProcessCommands == {"kill", "pkill", "killall", "ps", "top", "htop", "bg", "fg", "jobs", "nohup", "disown",
    "wait", "nice", "renice"}
PackageCommands == {"apt", "apt-get", "yum", "dnf", "pacman", "brew", "pip", "pip3", "npm", "yarn", "pnpm",
    "bun", "cargo", "gem", "go", "rustup", "snap", "flatpak"}
SystemAdminCommands == {"sudo", "su", "chroot", "mount", "umount", "fdisk", "parted", "lsblk", "blkid",
    "systemctl", "service", "journalctl", "dmesg", "modprobe", "insmod", "rmmod", "iptables", "ufw",
    "firewall-cmd", "sysctl", "crontab", "at", "useradd", "userdel", "usermod", "groupadd", "groupdel",
    "passwd", "visudo"}

\* The first word that is no flag, of sudo or of git.
Operand(words) == LET i == SelectInSeq(words, LAMBDA w : w[1] # "-")
                  IN  IF i = 0 THEN <<>> ELSE SubSeq(words, i, Len(words))
WordOf(words) == IF words = <<>> THEN "" ELSE words[1][2]
GitAllowed(c) == LET sub == WordOf(Operand(c.rest)) IN sub = "" \/ sub \in GitReadOnly

\* validate_read_only in read-only mode: FALSE is Block.
ReadOnlyAllows(c) ==
    LET Writes(word) == word \in WriteCommands \cup StateModifyingCommands
        inner == Operand(c.rest)
    IN  /\ ~Writes(c.first)
        /\ c.first = "sudo" => /\ ~Writes(WordOf(inner)) /\ "redirect" \notin c.has
                               /\ WordOf(inner) = "git" => LET sub == WordOf(Operand(Tail(inner)))
                                                         IN  sub = "" \/ sub \in GitReadOnly
        /\ "redirect" \notin c.has
        /\ c.first = "git" => GitAllowed(c)
ValidateMode(c, mode) ==
    CASE mode = "read-only" -> IF ReadOnlyAllows(c) THEN "allow" ELSE "block"
      [] mode = "workspace-write" ->
            IF c.first \in WriteCommands \cup StateModifyingCommands /\ "system path" \in c.has THEN "warn" ELSE "allow"
      [] OTHER -> "allow"
ValidateSed(c, mode) == IF c.first = "sed" /\ mode = "read-only" /\ " -i" \in c.has THEN "block" ELSE "allow"
CheckDestructive(c) == IF "destructive" \in c.has \/ c.first \in AlwaysDestructive THEN "warn" ELSE "allow"
ValidatePaths(c) == IF \/ "../" \in c.has /\ "workspace" \notin c.has
                       \/ "home" \in c.has THEN "warn" ELSE "allow"
\* The first answer that is not "allow".
ValidateCommand(c, mode) ==
    LET answers == <<ValidateMode(c, mode), ValidateSed(c, mode), CheckDestructive(c), ValidatePaths(c)>>
        i == SelectInSeq(answers, LAMBDA a : a # "allow")
    IN  IF i = 0 THEN "allow" ELSE answers[i]

ClassifyCommand(c) ==
    CASE c.first \in ReadOnlyCommands -> IF c.first = "sed" /\ " -i" \in c.has THEN "Write" ELSE "ReadOnly"
      [] c.first \notin ReadOnlyCommands ->
            CASE c.first \in AlwaysDestructive \cup {"rm"} -> "Destructive"
              [] c.first \in WriteCommands \ (AlwaysDestructive \cup {"rm"}) -> "Write"
              [] c.first \in NetworkCommands -> "Network"
              [] c.first \in ProcessCommands -> "ProcessManagement"
              [] c.first \in PackageCommands -> "PackageManagement"
              [] c.first \in SystemAdminCommands \ ProcessCommands -> "SystemAdmin"
              [] c.first = "git" -> IF WordOf(Operand(c.rest)) \in GitReadOnly THEN "ReadOnly" ELSE "Write"
              [] OTHER -> "Unknown"
\* PermissionEnforcer::check_file_write and check_bash, which no other code calls yet: what is
\* looked for in a command is a text, with its blanks.  A path is its parts, ".." with them.
EnforcerReadOnly == {"cat", "head", "tail", "less", "more", "wc", "ls", "find", "grep", "rg", "awk", "sed", "echo", "printf",
    "which", "where", "whoami", "pwd", "env", "printenv", "date", "cal", "df", "du", "free", "uptime", "uname", "file", "stat",
    "diff", "sort", "uniq", "tr", "cut", "paste", "tee", "xargs", "test", "true", "false", "type", "readlink", "realpath",
    "basename", "dirname", "sha256sum", "md5sum", "b3sum", "xxd", "hexdump", "od", "strings", "tree", "jq", "yq", "python3",
    "python", "node", "ruby", "cargo", "rustc", "git", "gh"}
IsReadOnlyCommand(c) == c.first \in EnforcerReadOnly /\ c.has \cap {"-i ", "--in-place", " > ", " >> "} = {}
CheckBash(c, mode) == mode # "prompt" /\ (mode = "read-only" => IsReadOnlyCommand(c))
IsWithinWorkspace(path, root) == path.absolute => IsPrefix(root, path.parts)
CheckFileWrite(path, root, mode) ==
    mode \in {"allow", "danger-full-access"} \/ (mode = "workspace-write" /\ IsWithinWorkspace(path, root))
Strictness == <<"read-only", "workspace-write", "danger-full-access">>

\* The status that is told of a sandbox is the one the command runs in: a network or a
\* namespace told as active is unshared, no other is, the home directory moves if files
\* are told to be confined, and what was asked for and is not there has a reason.  The
\* validators and the classification agree: what read-only mode lets pass without a
\* word is no write (but a bare git, called one) and not destructive, and installs
\* nothing but by snap or flatpak, which only the classification knows; and a mode that
\* allows more never stops at what a stricter one lets pass.  So it is with the
\* enforcer's two checks, which let pass as read-only what the classification calls a
\* write only by tee, git, cargo and a sed whose -i has a suffix, and let a file be
\* written in the workspace alone, if its path does not go up.
BashJudged ==
    /\ Asked("sandbox") =>
          LET r == RequestFor(question.input)
              s == SandboxStatus(r, question.works)
              run == RunsIn(s)
          IN  /\ s.network <=> "net" \in run.unshared
              /\ s.namespace => {"user", "pid"} \subseteq run.unshared
              /\ run.unshared # {} => s.namespace \/ s.network
              /\ s.files => run.home = "sandbox"
              /\ (r.enabled /\ (r.namespaces # s.namespace \/ r.network # s.network)) => s.fallback
              /\ question.input.enabled # Unset => r.enabled = question.input.enabled[1]
    /\ Asked("command") =>
          LET c == question.command
          IN  /\ ValidateCommand(c, "read-only") = "allow" =>
                    /\ (ClassifyCommand(c) \in {"Write", "Destructive"} => c.first = "git" /\ Operand(c.rest) = <<>>)
                    /\ ClassifyCommand(c) = "PackageManagement" => c.first \in {"snap", "flatpak"}
              /\ \A i, j \in 1..3 : i < j /\ ValidateCommand(c, Strictness[i]) = "allow" => ValidateCommand(c, Strictness[j]) = "allow"
    /\ Asked("enforcer") =>
          LET c == question.command
              path == question.path
              leads == IF path.absolute THEN path.parts ELSE question.root \o path.parts
          IN  /\ CheckBash(c, "read-only") => \/ ClassifyCommand(c) \in {"ReadOnly", "Unknown"}
                                              \/ c.first \in {"tee", "git", "cargo"} \/ (c.first = "sed" /\ " -i" \in c.has)
              /\ \A i, j \in 1..3 : i < j => /\ CheckBash(c, Strictness[i]) => CheckBash(c, Strictness[j])
                                             /\ CheckFileWrite(path, question.root, Strictness[i]) => CheckFileWrite(path, question.root, Strictness[j])
              /\ ~CheckBash(c, "prompt") /\ ~CheckFileWrite(path, question.root, "prompt")
              /\ CheckFileWrite(path, question.root, "workspace-write") /\ ".." \notin ToSet(path.parts) => IsPrefix(question.root, leads)
-----------------------------------------------------------------------------
(* All that decides about a call.                                          *)

\* The permission cascade decides its closed form; and the two layers of a sub-agent agree: its
\* turn has no prompter and its tool executor checks the same policy again, without
\* what the hooks said; what the turn lets through, the executor does not refuse.
PermissionDecided ==
    Asked("permission") =>
        LET q == question.request
        IN  /\ Permission!AuthorizeWithContext(q) <=> Permission!ClosedForm(q)
            /\ q.answer = "absent" /\ Permission!AuthorizeWithContext(q) => Permission!EnforcerCheck(q)

\* Access is decided alike by every layer that decides it: the permission cascade and the
\* enforcer, the tool gate of a plugin or an MCP server, the classification of commands
\* and the sandbox they run in.
AccessDecided == PermissionDecided /\ GateHolds /\ BashJudged
=============================================================================
