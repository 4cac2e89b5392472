------------------------------ MODULE CommandLine ------------------------------
(***************************************************************************)
(* What the words of a command line and of a slash command ask for         *)
(* (commands/src/lib.rs: the table of slash commands and its parser;       *)
(* rusty-claude-cli/src/main.rs: parse_args, --resume, the REPL).  A line  *)
(* is the sequence of its words; --flag=value is the two words it stands   *)
(* for.  The same table, parser and three dispatchers must agree.          *)
(***************************************************************************)
EXTENDS Integers, Sequences, SequencesExt, Question

CONSTANTS
    Slash,          \* [words that begin with a slash -> what follows it]
    AfterInstall,   \* [words that begin with "install" -> what follows it]
    Numerals,       \* words that parse as a positive number
    PreserveRecent  \* messages that a compaction keeps
ASSUME PreserveAssumption == PreserveRecent \in Nat
ASSUME SlashAssumption ==
    /\ {"/clear", "/skills"} \subseteq DOMAIN Slash /\ Slash["/skills"] = "skills"
    /\ \A word \in DOMAIN Slash : Slash[word] = "clear" <=> word = "/clear"

-----------------------------------------------------------------------------
(* SLASH_COMMAND_SPECS: those marked as supported with --resume, and the   *)
(* others.                                                                 *)

Specs(resume, repl) == [resume |-> resume, repl |-> repl]
SessionSpecs == Specs(
    {"help", "status", "sandbox", "compact", "clear", "cost", "config", "mcp", "memory", "init", "diff", "version"},
    {"model", "permissions", "resume", "bughunter", "commit", "pr", "issue", "ultraplan", "teleport"})
AccountSpecs == Specs(
    {"export", "agents", "skills", "doctor", "plan", "tasks", "theme", "vim", "usage", "stats", "copy"},
    {"debug-tool-call", "session", "plugin", "login", "logout", "review", "voice", "upgrade", "rename"})
ViewSpecs == Specs(
    {"hooks", "files", "context", "color", "effort", "fast", "summary", "tag", "brief", "advisor",
     "stickers", "insights", "thinkback"},
    {"share", "feedback", "exit", "branch", "rewind", "desktop", "ide", "release-notes"})
ControlSpecs == Specs(
    {"keybindings", "privacy-settings", "output-style", "allowed-tools", "terminal-setup", "language"},
    {"security-review", "add-dir", "api-key", "approve", "deny", "undo", "stop", "retry", "paste",
     "screenshot", "image", "search", "listen", "speak", "profile"})
ModelSpecs == Specs(
    {"max-tokens", "temperature", "system-prompt", "tool-details", "bookmarks", "workspace", "history",
     "tokens", "cache", "providers", "notifications", "changelog"},
    {"format", "pin", "unpin", "test", "lint", "build", "run", "git"})
ProjectSpecs == Specs(
    {"blame", "log", "cron", "team", "telemetry", "env", "project"},
    {"stash", "benchmark", "migrate", "reset", "templates", "explain", "refactor", "docs", "fix", "perf",
     "chat", "focus", "unfocus", "web"})
CodeSpecs == Specs(
    {"map", "symbols", "hover", "diagnostics", "alias", "agent", "subagent", "reasoning", "budget",
     "rate-limit", "metrics"},
    {"references", "definition", "autofix", "multi", "macro", "parallel"})
Groups == {SessionSpecs, AccountSpecs, ViewSpecs, ControlSpecs, ModelSpecs, ProjectSpecs, CodeSpecs}
ResumeSupported == UNION {g.resume : g \in Groups}
SpecNames == ResumeSupported \cup UNION {g.repl : g \in Groups}
SpecAliases == {"plugins", "marketplace", "skill", "yes", "y", "no", "n", "cwd"}

-----------------------------------------------------------------------------
(* validate_slash_command_input.                                           *)

Bare == {"help", "status", "sandbox", "compact", "commit", "debug-tool-call", "cost", "memory", "init",
         "diff", "version", "doctor", "login", "logout", "vim", "upgrade", "stats", "share", "feedback",
         "files", "fast", "exit", "summary", "desktop", "brief", "advisor", "stickers", "insights",
         "thinkback", "release-notes", "security-review", "keybindings", "privacy-settings"}
AnyArgs == {"bughunter", "pr", "issue", "ultraplan", "export", "plan", "review", "tasks", "theme", "voice",
            "usage", "rename", "copy", "hooks", "context", "color", "effort", "branch", "rewind", "ide",
            "tag", "output-style", "add-dir", "skills"}
OneOf == [permissions |-> {"read-only", "workspace-write", "danger-full-access"},
          config |-> {"env", "hooks", "model", "plugins"}, clear |-> {"--confirm"}]
HelpArgs == {"help", "-h", "--help"}

SessionArgs(args) ==
    \/ args \in {<<>>, <<"list">>, <<"fork">>}
    \/ Len(args) = 2 /\ args[1] \in {"switch", "fork", "delete"}
    \/ Len(args) = 3 /\ args[1] = "delete" /\ args[3] = "--force"
McpArgs(args) == \/ args \in {<<>>, <<"list">>} \cup {<<h>> : h \in HelpArgs}
                 \/ Len(args) = 2 /\ args[1] = "show"
PluginArgs(args) == \/ args \in {<<>>, <<"list">>}
                    \/ Len(args) >= 2 /\ args[1] = "install"
                    \/ Len(args) = 2 /\ args[1] \in {"enable", "disable", "uninstall", "update"}

Canonical(name) == CASE name \in {"plugins", "marketplace"} -> "plugin" [] name = "skill" -> "skills" [] OTHER -> name
TakesArgs(name, args) ==
    \/ name \in Bare /\ args = <<>>
    \/ name \in AnyArgs /\ (name = "skills" => args # <<"install">>)
    \/ name \in {"teleport", "resume"} /\ args # <<>>
    \/ name \in {"model", "history"} /\ Len(args) <= 1
    \/ name \in DOMAIN OneOf /\ (args = <<>> \/ (Len(args) = 1 /\ args[1] \in OneOf[name]))
    \/ name = "agents" /\ (args \in {<<>>, <<"list">>} \/ (Len(args) = 1 /\ args[1] \in HelpArgs))
    \/ name = "session" /\ SessionArgs(args)
    \/ name = "mcp" /\ McpArgs(args)
    \/ name = "plugin" /\ PluginArgs(args)
Known == Bare \cup AnyArgs \cup DOMAIN OneOf
         \cup {"teleport", "resume", "model", "history", "agents", "session", "mcp", "plugin"}
\* parse_skills_args: "install" needs no space after it.
ParsedArgs(name, args) ==
    IF name = "skills" /\ args # <<>> /\ args[1] \in DOMAIN AfterInstall
    THEN <<"install", AfterInstall[args[1]]>> \o Tail(args) ELSE args
Parse(line) ==
    LET name == Canonical(Slash[line[1]])
        Result(is) == [is |-> is, name |-> name, args |-> ParsedArgs(name, Tail(line))]
    IN  IF line = <<>> \/ line[1] \notin DOMAIN Slash THEN [is |-> "no command"]
        ELSE IF name = "" THEN [is |-> "refused"]
        ELSE IF name \notin Known THEN Result("unknown")
        ELSE IF TakesArgs(name, Tail(line)) THEN Result("command") ELSE [is |-> "refused"]

-----------------------------------------------------------------------------
(* What is done with a command: in a resumed session, in the REPL.         *)

\* classify_skills_slash_command, on what parse made of the words.
InvokesSkill(args) == args # <<>> /\ args[1] # "install" /\ ~(Len(args) = 1 /\ args[1] \in HelpArgs \cup {"list"})
RunsResumed(command) ==
    /\ command.name \in {"help", "compact", "clear", "status", "sandbox", "cost", "config", "mcp", "memory",
                         "init", "diff", "version", "export", "agents", "skills", "doctor", "history"}
    /\ command.name = "skills" => ~InvokesSkill(command.args)
    /\ command.name = "history" => command.args = <<>> \/ command.args[1] \in Numerals
RunsInRepl(command) ==
    command.name \in {"help", "status", "bughunter", "commit", "pr", "issue", "ultraplan", "teleport",
                      "debug-tool-call", "sandbox", "compact", "model", "permissions", "clear", "cost",
                      "resume", "config", "mcp", "memory", "init", "diff", "version", "export", "session",
                      "plugin", "agents", "skills", "doctor", "history"}

\* parse_resume_args: the words after the session, grouped into commands.
LooksLikeSlashCommand(word) == word \in DOMAIN Slash /\ Slash[word] \in SpecNames \cup SpecAliases
\* Mutant: whatever follows /export is its path.
AbsorbsAny(current, word) ==
    current # <<>> /\ Parse(current).is = "command" /\ Parse(current).name = "export" /\ Parse(current).args = <<>>
Absorbs(current, word) ==
    /\ current # <<>> /\ Parse(current).is = "command"
    /\ Parse(current).name = "export" /\ Parse(current).args = <<>>
    /\ ~LooksLikeSlashCommand(word)
Push(acc) == IF acc.current = <<>> THEN acc.commands ELSE Append(acc.commands, acc.current)
GroupWord(acc, word) ==
    IF ~acc.ok THEN acc
    ELSE IF word \in DOMAIN Slash /\ ~Absorbs(acc.current, word)
         THEN [acc EXCEPT !.commands = Push(acc), !.current = <<word>>]
    ELSE IF acc.current = <<>> THEN [acc EXCEPT !.ok = FALSE]
    ELSE [acc EXCEPT !.current = Append(@, word)]
Grouped(words) ==
    LET After[n \in 0..Len(words)] ==
            IF n = 0 THEN [ok |-> TRUE, commands |-> <<>>, current |-> <<>>] ELSE GroupWord(After[n - 1], words[n])
    IN  After[Len(words)]
Split(words) == LET Out(end) == [ok |-> end.ok, commands |-> Push(end)] IN Out(Grouped(words))

-----------------------------------------------------------------------------
(* What a command carries, and what it does to the resumed session.        *)

\* SlashCommand: an action and its target, one flag, or the words as they are.
SlashCommand(name, args) ==
    CASE name = "clear" -> [confirm |-> args # <<>>]
      [] name \in {"session", "mcp", "plugin"} /\ args = <<>> -> [action |-> <<>>, target |-> <<>>]
      [] name \in {"session", "mcp", "plugin"} /\ args # <<>> ->
           [action |-> CASE name = "session" /\ Len(args) = 3 -> <<"delete-force">>
                         [] name = "mcp" /\ args[1] \in HelpArgs -> <<"help">>
                         [] OTHER -> <<args[1]>>,
            target |-> IF name = "session" /\ Len(args) = 3 THEN <<args[2]>> ELSE Tail(args)]
      [] OTHER -> [words |-> args]
\* render_mcp_report_for, and its JSON: the words are told apart once more.
McpReport(words) ==
    LET usage == [shows |-> "usage", of |-> ""]
    IN  CASE words \in {<<>>, <<"list">>} -> [shows |-> "servers", of |-> ""]
          [] Len(words) = 2 /\ words[1] = "show" /\ words[2] \notin HelpArgs -> [shows |-> "server", of |-> words[2]]
          [] OTHER -> usage

\* A session is its id and messages; a message tells those it summarizes, or itself.
CompactSession(session, large) ==
    LET prefix == SubSeq(session.messages, 1, IF session.messages # <<>> /\ session.messages[1].summary THEN 1 ELSE 0)
        keepFrom == Len(session.messages) - PreserveRecent
        Tells(ms) == UNION {ms[i].tells : i \in DOMAIN ms}
        kept == SubSeq(session.messages, keepFrom + 1, Len(session.messages))
    IN  IF ~large \/ Len(session.messages) - Len(prefix) <= PreserveRecent THEN [session |-> session, removed |-> 0]
        ELSE [session |-> [session EXCEPT !.messages =
                             <<[summary |-> TRUE, tells |-> Tells(SubSeq(session.messages, 1, keepFrom))]>> \o kept],
              removed |-> keepFrom - Len(prefix)]
Cleared(session) == [id |-> session.id + 1, messages |-> <<>>]
TellsJson == {"status", "sandbox", "mcp", "init", "version", "skills"}
Says(name, removed, json) == [of |-> name, removed |-> removed, json |-> json /\ name \in TellsJson]
\* run_resume_command and the loop of resume_session, at a time of the clock, where the
\* write that fails may be none (0), the first or the second: what is written stays.
RunParsed(acc, command, at, failing) ==
    LET runs == command.is = "command" /\ RunsResumed(command)
        Done(result, removed) == [result EXCEPT !.printed = Append(@, Says(command.name, removed, acc.json))]
        Compacted(to) == Done([acc EXCEPT !.session = to.session, !.file = to.session], to.removed)
        stopped == [acc EXCEPT !.exit = 2]
    IN  CASE acc.exit # 0 -> acc
          [] acc.exit = 0 /\ ~runs -> stopped
          [] acc.exit = 0 /\ runs /\ command.name = "compact" ->
               IF failing = 1 THEN stopped ELSE Compacted(CompactSession(acc.session, TRUE))
          [] acc.exit = 0 /\ runs /\ command.name = "clear" /\ SlashCommand("clear", command.args).confirm ->
               LET backed == [acc EXCEPT !.backups = [t \in {at} \cup DOMAIN @ |-> IF t = at THEN acc.session ELSE @[t]]]
               IN  CASE failing = 1 -> stopped
                     [] failing = 2 -> [backed EXCEPT !.exit = 2]
                     [] OTHER -> Done([backed EXCEPT !.session = Cleared(acc.session), !.file = Cleared(acc.session)], 0)
          [] OTHER -> IF failing = 1 THEN stopped ELSE Done(acc, 0)
RunResumeCommand(acc, line, at, failing) == RunParsed(acc, Parse(line), at, failing)
ResumeSession(session, lines, times, failing, json) ==
    LET opened == [session |-> session, file |-> session, backups |-> <<>>, printed |-> <<>>, exit |-> 0, json |-> json]
        After[n \in 0..Len(lines)] ==
            IF n = 0 THEN opened ELSE RunResumeCommand(After[n - 1], lines[n], times[n], failing[n])
    IN  After                                        \* how it is before the first, and after each
\* handle_slash_command: nothing is answered to what is no command of its own.
HandleParsed(command, session, large) ==
    LET Same(answer) == <<[message |-> answer, session |-> session]>>
        Compacted(result) == <<[message |-> IF result.removed = 0 THEN "skipped" ELSE "compacted", session |-> result.session]>>
    IN  CASE command.is = "refused" -> Same("error")
          [] command.is = "command" /\ command.name = "help" -> Same("help")
          [] command.is = "command" /\ command.name = "compact" -> Compacted(CompactSession(session, large))
          [] OTHER -> <<>>
HandleSlashCommand(line, session, large) == HandleParsed(Parse(line), session, large)
-----------------------------------------------------------------------------
(* parse_args.                                                             *)

Subcommands == {"dump-manifests", "bootstrap-plan", "agents", "mcp", "skills", "system-prompt", "login",
                "logout", "init", "export", "prompt"}
LocalWords == {"help", "version", "status", "sandbox", "doctor", "state"}
Modes == OneOf["permissions"]
ValueOptions == {"--model", "--output-format", "--permission-mode", "--base-commit", "--allowedTools"}
ValueFits(option, word) == /\ option = "--permission-mode" => word \in Modes
                           /\ option = "--output-format" => word \in {"text", "json"}
Nothing == [is |-> "reading", option |-> "", mode |-> "default", help |-> FALSE, version |-> FALSE, rest |-> <<>>]
Failed(acc) == [acc EXCEPT !.is = "error"]
ReadWord(acc, word) ==
    IF acc.is = "error" THEN acc
    ELSE IF acc.is = "-p" THEN [acc EXCEPT !.rest = Append(@, word)]
    ELSE IF acc.option # ""
         THEN IF ~ValueFits(acc.option, word) THEN Failed(acc)
              ELSE [acc EXCEPT !.option = "", !.mode = IF acc.option = "--permission-mode" THEN word ELSE @]
    ELSE CASE word \in ValueOptions -> [acc EXCEPT !.option = word]
           [] word = "--dangerously-skip-permissions" -> [acc EXCEPT !.mode = "danger-full-access"]
           [] word \in {"--compact", "--print"} -> acc
           [] word = "--version" -> [acc EXCEPT !.version = TRUE]
           [] word = "--help" /\ acc.rest = <<>> -> [acc EXCEPT !.help = TRUE]
           [] word = "-p" -> [acc EXCEPT !.is = "-p", !.rest = <<>>]
           [] word = "--unknown" /\ acc.rest = <<>> -> Failed(acc)
           [] OTHER -> [acc EXCEPT !.rest = Append(@, word)]     \* also "--resume"

Action(kind) == [action |-> kind, mode |-> "none", text |-> <<>>]
Prompt(acc, text) == [action |-> "prompt", mode |-> acc.mode, text |-> text]
\* parse_direct_slash_cli_action.
DirectSlash(acc, line) ==
    LET command == Parse(line)
    IN  IF command.is # "command" THEN Action("error")
        ELSE IF command.name = "skills" /\ InvokesSkill(command.args) THEN Prompt(acc, command.args)
        ELSE Action(IF command.name \in {"help", "agents", "mcp", "skills"} THEN "local" ELSE "error")
\* parse_single_word_command_alias; a slash command without its slash is explained.
SingleWord(word) ==
    IF word \in LocalWords THEN Action("local")
    ELSE IF word \in SpecNames \ Subcommands THEN Action("error") ELSE Action("none")
Dispatch(acc, rest) ==
    CASE rest[1] = "skills" /\ InvokesSkill(Tail(rest)) -> Prompt(acc, Tail(rest))
      [] rest[1] = "prompt" -> IF Tail(rest) = <<>> THEN Action("error") ELSE Prompt(acc, Tail(rest))
      [] rest[1] \in Subcommands /\ rest[1] # "prompt" /\ ~(rest[1] = "skills" /\ InvokesSkill(Tail(rest))) ->
            Action("local")
      [] rest[1] \in DOMAIN Slash \ Subcommands -> DirectSlash(acc, rest)
      [] OTHER -> Prompt(acc, rest)
ParseResumeArgs(words) ==
    LET commands == IF words = <<>> \/ LooksLikeSlashCommand(words[1]) THEN words ELSE Tail(words)
    IN  Action(IF Split(commands).ok THEN "resume" ELSE "error")
ActionOf(end) ==
    LET rest == end.rest
    IN  CASE end.is = "error" \/ end.option # "" -> Action("error")
          [] end.is = "-p" -> IF rest = <<>> THEN Action("error") ELSE Prompt(end, rest)
          [] end.is = "reading" /\ end.option = "" ->
               IF end.help \/ end.version THEN Action("local")
               ELSE IF rest = <<>> THEN [Action("repl") EXCEPT !.mode = end.mode]
               ELSE IF rest[1] = "--resume" THEN ParseResumeArgs(Tail(rest))
               ELSE IF Len(rest) = 2 /\ rest[2] = "--help" /\ rest[1] \in {"status", "sandbox", "doctor"}
                    THEN Action("local")
               ELSE IF Len(rest) = 1 /\ SingleWord(rest[1]) # Action("none") THEN SingleWord(rest[1])
               ELSE Dispatch(end, rest)
ReadWords(args) ==
    LET After[n \in 0..Len(args)] == IF n = 0 THEN Nothing ELSE ReadWord(After[n - 1], args[n])
    IN  After[Len(args)]
ParseArgs(args) == ActionOf(ReadWords(args))
-----------------------------------------------------------------------------
\* Whatever the parser makes a command of has a place in the table; what runs in a resumed
\* session runs in the REPL too and is marked for it in the table; and the words of /mcp mean
\* the same when they are told apart again.
LineAgrees ==
    Asked("line") =>
        LET Carried(carried) == carried.action \o carried.target
            Agrees(command) ==
                command.is = "command" =>
                    /\ command.name \in SpecNames
                    /\ RunsResumed(command) => RunsInRepl(command) /\ command.name \in ResumeSupported
                    /\ command.name = "mcp" => McpReport(Carried(SlashCommand("mcp", command.args))) = McpReport(command.args)
        IN  Agrees(Parse(question.line))
\* A chain of resumed commands leaves in the file what the last that was printed left in
\* memory, and loses no message that no summary or backup tells (two backups of the same
\* millisecond have one name), whatever fails; and /compact does the same to a session
\* whoever handles it.
Told(session) == UNION {session.messages[i].tells : i \in DOMAIN session.messages}
Clears(line) == line = <<"/clear", "--confirm">>
Succeeds(line, fails) ==
    LET Runs(command) == command.is = "command" /\ RunsResumed(command)
    IN  Runs(Parse(line)) /\ (fails = 0 \/ (fails = 2 /\ ~Clears(line)))
ChainAgrees ==
    Asked("resumed") =>
        LET q == question
            apart == \A i, j \in DOMAIN q.lines : i # j /\ Clears(q.lines[i]) /\ Clears(q.lines[j]) => q.times[i] # q.times[j]
            Good(i) == Succeeds(q.lines[i], q.failing[i])
            Alike(handled, before, after) ==
                handled # <<>> => handled[1].session = IF handled[1].message = "compacted" THEN after ELSE before
            Ends(end) ==
                /\ end.file = end.session
                /\ apart => Told(q.session) = Told(end.session) \cup UNION {Told(end.backups[t]) : t \in DOMAIN end.backups}
                /\ end.exit = 0 <=> \A i \in DOMAIN q.lines : Good(i)
                /\ \A i \in DOMAIN end.printed : Good(i) /\ end.printed[i].of = Parse(q.lines[i]).name
            Chained(chain) ==
                /\ Ends(chain[Len(q.lines)])
                /\ \A i \in DOMAIN chain[Len(q.lines)].printed, large \in BOOLEAN :
                      Alike(HandleSlashCommand(q.lines[i], chain[i - 1].session, large), chain[i - 1].session, chain[i].session)
        IN  Chained(ResumeSession(q.session, q.lines, q.times, q.failing, q.json))
\* Commands given to --resume come out as they went in, paths that begin with a slash included.
SplitAgrees ==
    Asked("resume") =>
        LET given == question.commands
            Plain(command) ==
                /\ LooksLikeSlashCommand(command[1])
                /\ \A j \in 2..Len(command) :
                      command[j] \in DOMAIN Slash => Slash[command[1]] = "export" /\ j = 2 /\ ~LooksLikeSlashCommand(command[j])
        IN  (\A i \in DOMAIN given : Plain(given[i])) => Split(FlattenSeq(given)) = [ok |-> TRUE, commands |-> given]
\* A single word that is the name of a command or a subcommand is never sent to the model;
\* and `claw skills` does with its words what `claw /skills` does, as long as none begins
\* with "install".
ArgumentsAgree ==
    Asked("arguments") =>
        LET args == question.args
            Same(x, y) == x.action = y.action /\ x.text = y.text
        IN  /\ (Len(args) = 1 /\ args[1] \in SpecNames \cup Subcommands \cup LocalWords)
                  => ParseArgs(args).action # "prompt"
            /\ (/\ Len(args) > 1 /\ args[1] = "skills"
                /\ \A i \in 2..Len(args) : args[i] \notin {"-p", "install"} \cup DOMAIN AfterInstall)
                  => Same(ParseArgs(args), ParseArgs(<<"/skills">> \o Tail(args)))
\* The table, the parser and the three dispatchers agree.
CommandsAgree == LineAgrees /\ ChainAgrees /\ SplitAgrees /\ ArgumentsAgree
=============================================================================
