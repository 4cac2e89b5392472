------------------------------- MODULE Workspace -------------------------------
(***************************************************************************)
(* What the program learns of the directory it runs in, and what it says   *)
(* of it: the instruction files of the system prompt (src/rust/crates/     *)
(* runtime/src/prompt.rs), the state of git (git_context.rs, stale_base.rs *)
(* and rusty-claude-cli/src/main.rs), `claw init` (init.rs), `claw doctor` *)
(* (main.rs), the proxy of a remote session (remote.rs), and the commands  *)
(* suggested for one that is not known (main.rs, commands/src/lib.rs).     *)
(***************************************************************************)
EXTENDS Question, Integers, FiniteSets, SequencesExt

CONSTANTS MaxFile,    \* characters of an instruction file that are told: 4,000
          MaxTotal,   \* of all of them: 12,000
          Suffix,     \* of the note that a text was truncated: 13
          Commits     \* recent commits told: 5
-----------------------------------------------------------------------------
(* Instruction files.  A file is "missing", "unreadable", or its text: a   *)
(* key that equal texts share, and how many characters it has, trimmed.    *)
Candidates == <<"CLAUDE.md", "CLAUDE.local.md", ".claw/CLAUDE.md", ".claw/instructions.md">>
Fault == [ok |-> FALSE]
\* discover_instruction_files: of the root's directory first, of the working directory last.
DedupeInstructions(files) ==
    LET Told(i) == \E j \in 1..i - 1 : files[j].text.key = files[i].text.key
    IN  FlattenSeq([i \in DOMAIN files |-> IF Told(i) THEN <<>> ELSE <<files[i]>>])
DiscoverInstructions(disk, depth) ==
    LET all == FlattenSeq([d \in 1..depth |-> [c \in DOMAIN Candidates |-> [dir |-> d, name |-> Candidates[c], text |-> disk[d][c]]]])
    IN  IF \E i \in DOMAIN all : all[i].text.file = "unreadable" THEN Fault
        ELSE [ok |-> TRUE, files |-> DedupeInstructions(SelectSeq(all, LAMBDA f : f.text.file = "text" /\ f.text.chars > 0))]
TruncateInstruction(chars, remaining) == LET limit == Min({MaxFile, remaining}) IN IF chars <= limit THEN chars ELSE limit + Suffix
\* Mutant: only the text of the file counts against the budget of all.
RenderInstructionsUncounted(files) ==
    FoldLeft(LAMBDA told, f :
                 IF told.omitted THEN told
                 ELSE IF told.remaining = 0 THEN [told EXCEPT !.omitted = TRUE]
                 ELSE LET chars == TruncateInstruction(f.text.chars, MaxFile)
                      IN  [told EXCEPT !.shown = Append(@, [file |-> f, chars |-> chars]), !.remaining = Max({0, @ - f.text.chars})],
             [shown |-> <<>>, remaining |-> MaxTotal, omitted |-> FALSE], files)
RenderInstructions(files) ==
    FoldLeft(LAMBDA told, f :
                 IF told.omitted THEN told
                 ELSE IF told.remaining = 0 THEN [told EXCEPT !.omitted = TRUE]
                 ELSE LET chars == TruncateInstruction(TruncateInstruction(f.text.chars, told.remaining), MaxFile)
                      IN  [told EXCEPT !.shown = Append(@, [file |-> f, chars |-> chars]), !.remaining = @ - Min({chars, @})],
             [shown |-> <<>>, remaining |-> MaxTotal, omitted |-> FALSE], files)
-----------------------------------------------------------------------------
(* Git.  A status line is the state of a path in the index and in the work *)
(* tree; git is what its commands answer, <<>> for one that fails.         *)
Staged(line) == line[1] \notin {" ", "?"}
Unstaged(line) == line[2] \notin {" ", "?"}
Untracked(line) == line = <<"?", "?">>
Conflicted(line) == (line[1] \in {"U", "A"} /\ line[2] \in {"U", "A"}) \/ line[1] = "U" \/ line[2] = "U"
Summary(lines) ==
    [changed |-> Len(lines), staged |-> Len(SelectSeq(lines, Staged)), unstaged |-> Len(SelectSeq(lines, Unstaged)),
     untracked |-> Len(SelectSeq(lines, Untracked)), conflicted |-> Len(SelectSeq(lines, Conflicted))]
\* Nothing of it is said of a clean tree.
Headline(s) == SelectSeq(<<<<"dirty", s.changed>>, <<"staged", s.staged>>, <<"unstaged", s.unstaged>>, <<"untracked", s.untracked>>,
                           <<"conflicted", s.conflicted>>>>, LAMBDA part : s.changed > 0 /\ part[2] > 0)
\* render_diff_report_for: the sides that differ.
DiffReport(staged, unstaged) == SelectSeq(<<<<"staged", staged>>, <<"unstaged", unstaged>>>>, LAMBDA side : side[2] # <<>>)
\* resolve_git_branch_for, else parse_git_status_branch of the first line of the status.
ResolveBranch(git) ==
    IF git.current \notin {<<>>, <<"">>} THEN git.current
    ELSE IF git.current # <<>> /\ git.abbrev = <<"HEAD">> THEN <<"detached HEAD">>
    ELSE IF git.current # <<>> THEN git.abbrev ELSE <<>>
\* The header is what "." and " " divide it into: the branch, what it follows and how far it is from that.
HeaderBranch(git) == IF git.header = <<>> THEN <<>> ELSE IF git.header[1] = "HEAD" THEN <<"detached HEAD">> ELSE <<git.header[1]>>
BranchTold(git) == IF ResolveBranch(git) # <<>> THEN ResolveBranch(git) ELSE HeaderBranch(git)
\* GitContext::detect; a detached HEAD has no branch here.
ReadBranch(git) == IF git.abbrev = <<"HEAD">> THEN <<>> ELSE git.abbrev
ReadStagedFiles(git) == git.stagedFiles
RecentCommits(git) == SubSeq(git.log, 1, Min({Commits, Len(git.log)}))
GitContext(git) == IF git.inside THEN <<[branch |-> ReadBranch(git), commits |-> RecentCommits(git), files |-> ReadStagedFiles(git)]>> ELSE <<>>
If(holds, section) == IF holds THEN <<section>> ELSE <<>>
RenderContext(context) == If(context.branch # <<>>, "branch") \o If(context.commits # <<>>, "commits") \o If(context.files # <<>>, "staged files")
ReadGitDiff(staged, unstaged) == FlattenSeq(<<If(staged # <<>>, "staged"), If(unstaged # <<>>, "unstaged")>>)
\* render_project_context and build: what the dynamic part of the system prompt tells, in order.
ProjectContext(git, staged, unstaged) ==
    LET context == GitContext(git)
        rendered == IF context = <<>> THEN <<>> ELSE RenderContext(context[1])
    IN  If(git.header # <<>>, "status") \o If(Contains(rendered, "commits"), "commits") \o ReadGitDiff(staged, unstaged) \o rendered
PromptSections(git, files, staged, unstaged) ==
    <<"environment">> \o ProjectContext(git, staged, unstaged) \o If(files # <<>>, "instructions") \o <<"config">>
\* check_base_commit; rev maps the revisions git knows to their commits.
ExpectedBase(flag, file) == IF flag # "" THEN flag ELSE file
CheckBaseCommit(flag, file, rev, isPrefix) ==
    LET expected == ExpectedBase(flag, file)
    IN  IF expected = "" THEN "none"
        ELSE IF "HEAD" \notin DOMAIN rev THEN "not a repository"
        ELSE IF expected \in DOMAIN rev THEN (IF rev[expected] = rev["HEAD"] THEN "matches" ELSE "diverged")
        ELSE IF <<expected, rev["HEAD"]>> \in isPrefix THEN "matches" ELSE "diverged"
StaleBaseWarned(verdict) == verdict \in {"diverged", "not a repository"}
-----------------------------------------------------------------------------
(* claw init.  The disk has .claw ("missing", "dir" or "file"), and the    *)
(* texts of .claw.json, .gitignore and CLAUDE.md, <<>> for a missing one.  *)
Ignored == <<"# Claw Code local artifacts", ".claw/settings.local.json", ".claw/sessions/">>
\* render_init_claude_md: of the markers found in the directory.
PythonMarkers == {"pyproject.toml", "requirements.txt", "setup.py"}
Languages(m) == SelectSeq(<<IF m \cap {"rust/Cargo.toml", "Cargo.toml"} # {} THEN "Rust" ELSE "", IF m \cap PythonMarkers # {} THEN "Python" ELSE "",
                            IF "typescript" \in m THEN "TypeScript" ELSE IF "package.json" \in m THEN "JavaScript" ELSE "">>, LAMBDA l : l # "")
Frameworks(m) == SelectSeq(<<"next", "react", "vite", "nest">>, LAMBDA f : f \in m)
Verification(m) ==
    SelectSeq(<<IF "rust/Cargo.toml" \in m THEN "rust/" ELSE IF "Cargo.toml" \in m THEN "cargo" ELSE "",
                IF "pyproject.toml" \in m THEN "pyproject.toml" ELSE IF m \cap PythonMarkers # {} THEN "python" ELSE "",
                IF "package.json" \in m THEN "npm" ELSE "", IF {"src", "tests"} \subseteq m THEN "src and tests" ELSE "">>, LAMBDA l : l # "")
FrameworkNotes(m) == SelectSeq(Frameworks(m), LAMBDA f : ~(f = "react" /\ "next" \in m))
ShapeLines(m) == SelectSeq(<<"rust", "src", "tests">>, LAMBDA d : d \in m)
Guidance(m) == <<"guidance", Languages(m), Frameworks(m), Verification(m), ShapeLines(m), FrameworkNotes(m)>>
GitignoreLines(existing) == existing \o SelectSeq(Ignored, LAMBDA line : ~Contains(existing, line))
EnsureGitignore(existing) ==
    IF existing = <<>> THEN <<Ignored, "created">>
    ELSE IF GitignoreLines(existing[1]) = existing[1] THEN <<existing[1], "skipped">> ELSE <<GitignoreLines(existing[1]), "updated">>
IfMissing(existing, content) == IF existing = <<>> THEN <<content, "created">> ELSE <<existing[1], "skipped">>
\* initialize_repo, of which the first steps are done: it ends early if it cannot go on or dies.
Initialize(disk, markers, steps) ==
    LET ignore == EnsureGitignore(disk.gitignore)
        config == IfMissing(disk.config, "starter")
        memory == IfMissing(disk.memory, Guidance(markers))
        blocked == disk.claw = "file"
    IN  [disk |-> [claw |-> IF blocked THEN "file" ELSE IF steps >= 1 THEN "dir" ELSE disk.claw,
                   config |-> IF steps >= 2 /\ ~blocked THEN <<config[1]>> ELSE disk.config,
                   gitignore |-> IF steps >= 3 /\ ~blocked THEN <<ignore[1]>> ELSE disk.gitignore,
                   memory |-> IF steps >= 4 /\ ~blocked THEN <<memory[1]>> ELSE disk.memory],
         report |-> IF blocked \/ steps < 4 THEN <<>> ELSE <<IF disk.claw = "dir" THEN "skipped" ELSE "created", config[2], ignore[2], memory[2]>>]
-----------------------------------------------------------------------------
(* claw doctor, of the variables and files it looks at.  A credential is   *)
(* "unset", "blank" or "set"; the saved token also has a refresh token.    *)
Degraded(sandbox) == sandbox.enabled /\ ~sandbox.active
CheckAuth(d) ==
    LET inEnv == "set" \in {d.key, d.token}
    IN  CASE d.saved = "unreadable" -> "fail"
          [] d.saved = "expired" -> "warn"
          [] d.saved = "valid" -> "ok"
          [] d.saved = "none" -> IF inEnv THEN "ok" ELSE "warn"
CheckConfig(d) == IF d.loads THEN "ok" ELSE "fail"   \* discover names every file there may be, so the count is never 0
CheckWorkspace(d) == IF d.inside THEN "ok" ELSE "warn"
CheckSandbox(d) == IF d.loads THEN (IF Degraded(d.sandbox) THEN "warn" ELSE "ok") ELSE IF Degraded(d.plain) THEN "warn" ELSE "ok"
CheckSystem(d) == "ok"
Doctor(d) == <<CheckAuth(d), CheckConfig(d), CheckWorkspace(d), CheckSandbox(d), CheckSystem(d)>>
DoctorFails(d) == d.unreadable \/ "fail" \in ToSet(Doctor(d))
\* load_system_prompt, and status_context: what a session starts with, and what it tells of itself.
PromptLoads(d) == ~d.unreadable /\ d.loads
StatusAnswers(d) == d.loads /\ ~d.unreadable
\* resolve_startup_auth_source, when nothing is to be refreshed.
StartsWithoutRefresh(d) == {d.key, d.token, d.dotenv} \cap {"set", "blank"} # {} \/ d.saved = "valid"
-----------------------------------------------------------------------------
(* The proxy of a remote session: the variables that are set, and values.  *)
Truthy == {"1", "true", "yes", "on"}
Var(env, key) == IF key \in DOMAIN env THEN env[key] ELSE ""
RemoteSession(env) == [enabled |-> Var(env, "CLAUDE_CODE_REMOTE") \in Truthy, id |-> Var(env, "CLAUDE_CODE_REMOTE_SESSION_ID")]
ShouldEnable(env, token) == /\ RemoteSession(env).enabled /\ RemoteSession(env).id # ""
                            /\ Var(env, "CCR_UPSTREAM_PROXY_ENABLED") \in Truthy /\ token # ""
ProxyKeys == {"HTTPS_PROXY", "https_proxy"}
CaKeys == {"SSL_CERT_FILE", "NODE_EXTRA_CA_CERTS", "REQUESTS_CA_BUNDLE", "CURL_CA_BUNDLE"}
UpstreamProxyKeys == ProxyKeys \cup CaKeys \cup {"NO_PROXY", "no_proxy"}
CaBundle(env) == IF Var(env, "CCR_CA_BUNDLE_PATH") = "" THEN "~/.ccr/ca-bundle.crt" ELSE env["CCR_CA_BUNDLE_PATH"]
StateForPort(env, token) == IF ShouldEnable(env, token) THEN <<CaBundle(env)>> ELSE <<>>
SubprocessEnv(env, token) ==
    IF StateForPort(env, token) = <<>> THEN <<>>
    ELSE [key \in UpstreamProxyKeys |-> IF key \in ProxyKeys THEN "port" ELSE IF key \in CaKeys THEN StateForPort(env, token)[1] ELSE "no proxy"]
InheritedProxyEnv(env) == IF {"HTTPS_PROXY", "SSL_CERT_FILE"} \subseteq DOMAIN env THEN [key \in UpstreamProxyKeys \cap DOMAIN env |-> env[key]] ELSE <<>>
-----------------------------------------------------------------------------
(* Suggestions.  A word is a sequence of letters.                          *)
NextRow(row, i, l, right) ==
    LET R[j \in 0..Len(right)] == IF j = 0 THEN i ELSE Min({row[j] + 1, R[j - 1] + 1, row[j - 1] + (IF l = right[j] THEN 0 ELSE 1)}) IN R
Levenshtein(left, right) ==
    LET rows[i \in 0..Len(left)] == IF i = 0 THEN [j \in 0..Len(right) |-> j] ELSE NextRow(rows[i - 1], i, left[i], right)
    IN  rows[Len(left)][Len(right)]
\* levenshtein_distance of commands/src/lib.rs, whose rows are the same and which treats the ends apart.
Distance(left, right) ==
    IF left = right THEN 0 ELSE IF left = <<>> THEN Len(right) ELSE IF right = <<>> THEN Len(left) ELSE Levenshtein(left, right)
Near(a, b) == IsPrefix(a, b) \/ IsPrefix(b, a)
Score(input, word) == Levenshtein(input, word) + (IF Near(word, input) THEN 0 ELSE 1)
\* ranked_suggestions; names are in the order of the alphabet.
RankedSuggestions(input, names) ==
    LET fits == {i \in DOMAIN names : Score(input, names[i]) <= 4}
        Before(i, j) == Score(input, names[i]) < Score(input, names[j]) \/ (Score(input, names[i]) = Score(input, names[j]) /\ i < j)
        Nth(k) == CHOOSE i \in fits : Cardinality({j \in fits : Before(j, i)}) = k - 1
    IN  [k \in 1..Min({3, Cardinality(fits)}) |-> names[Nth(k)]]
\* suggest_slash_commands of commands/src/lib.rs, for distances below 100; a command is the sequence of its name and its aliases.
Within(a, b) == \E i \in 0..Len(b) - Len(a) : SubSeq(b, i + 1, i + Len(a)) = a
Rank(query, word) ==
    (IF Near(word, query) THEN 0 ELSE IF Within(word, query) \/ Within(query, word) THEN 100 ELSE 200) + Distance(word, query)
SuggestSlashCommands(query, commands, limit) ==
    LET best == [c \in DOMAIN commands |-> Min({Rank(query, w) : w \in ToSet(commands[c])})]
        fits == {c \in DOMAIN commands : best[c] <= 202}
        Before(c, d) == best[c] < best[d] \/ (best[c] = best[d] /\ (Len(commands[c][1]) < Len(commands[d][1]) \/ (Len(commands[c][1]) = Len(commands[d][1]) /\ c < d)))
        Nth(k) == CHOOSE c \in fits : Cardinality({d \in fits : Before(d, c)}) = k - 1
    IN  IF query = <<>> THEN <<>> ELSE [k \in 1..Min({limit, Cardinality(fits)}) |-> commands[Nth(k)][1]]
-----------------------------------------------------------------------------
(* What is asked: [about : "instructions"], "git", "base", "init",         *)
(* "doctor", "proxy" and "suggest".                                        *)

\* Every instruction file of the directories above is told once, the outer before the inner,
\* unless the budget of all is used up by those before it, which is said; a text is told
\* in full or up to the limits, and the limits hold for what the prompt gets, notes and all.
\* (src/rust/crates/runtime/src/prompt.rs, render_instruction_files)
InstructionsTold ==
    Asked("instructions") =>
        LET found == DiscoverInstructions(question.disk, question.depth)
            told == RenderInstructions(found.files)
            total == FoldSeq(LAMBDA t, n : t.chars + n, 0, told.shown)
            keys == {told.shown[i].file.text.key : i \in DOMAIN told.shown}
        IN  found.ok =>
              /\ Len(told.shown) = Cardinality(keys) /\ \A i \in DOMAIN told.shown : told.shown[i].chars <= MaxFile + Suffix
              /\ \A i, j \in DOMAIN told.shown : i < j => told.shown[i].file.dir <= told.shown[j].file.dir
              /\ total < MaxTotal + 2 * Suffix /\ (told.omitted => total >= MaxTotal)
              /\ \A d \in 1..question.depth, c \in DOMAIN Candidates :
                    LET text == question.disk[d][c] IN text.file = "text" => text.chars = 0 \/ text.key \in keys \/ told.omitted
\* A working tree is called clean, and nothing is committed, exactly when git names no path;
\* then the diff is empty too.  Every path is counted, and one in conflict as such, but for
\* those that both sides deleted.  The staged and unstaged sides of /diff are those of /status,
\* and the prompt shows what is staged exactly when it lists it.
\* (src/rust/crates/rusty-claude-cli/src/main.rs, parse_git_workspace_summary)
GitTold ==
    /\ Asked("git") =>
          LET s == Summary(question.lines)
              staged == SelectSeq(question.lines, Staged)
              unstaged == SelectSeq(question.lines, Unstaged)
              sides == DiffReport(staged, unstaged)
              prompt == ToSet(PromptSections([question.git EXCEPT !.stagedFiles = staged], <<>>, staged, unstaged))
              unmerged == SelectSeq(question.lines, LAMBDA l : l \in {<<"A", "A">>, <<"U", "D">>, <<"D", "U">>, <<"U", "U">>, <<"A", "U">>, <<"U", "A">>})
          IN  /\ (Headline(s) = <<>>) <=> question.lines = <<>>
              /\ s.staged + s.unstaged + s.untracked >= s.changed /\ s.conflicted = Len(unmerged) /\ s.conflicted <= s.staged
              /\ (sides = <<>>) <=> s.changed = s.untracked
              /\ \A side \in ToSet(sides) : <<side[1], Len(side[2])>> \in ToSet(Headline(s))
              /\ question.git.inside => ("staged" \in prompt <=> "staged files" \in prompt)
              /\ question.git.current \notin {<<>>, <<"">>} => BranchTold(question.git) = question.git.current
    /\ Asked("base") =>
          LET verdict == CheckBaseCommit(question.flag, question.file, question.rev, question.isPrefix)
          IN  /\ verdict \in {"matches", "diverged"} => ExpectedBase(question.flag, question.file) # "" /\ "HEAD" \in DOMAIN question.rev
              /\ question.flag = "HEAD" => (StaleBaseWarned(verdict) <=> "HEAD" \notin DOMAIN question.rev)
\* However often init runs and wherever it dies between its steps, what was there stays: a
\* file it finds is kept, .gitignore only grows; and run to its end it leaves what one run
\* leaves, and says of a second that it skipped everything.
\* (src/rust/crates/rusty-claude-cli/src/init.rs, initialize_repo)
InitKeeps ==
    Asked("init") =>
        LET old == question.disk
            died == Initialize(old, question.markers, question.steps)
            again == Initialize(died.disk, question.markers, 4)
            third == Initialize(again.disk, question.later, 4)
        IN  /\ old.config # <<>> => again.disk.config = old.config
            /\ old.memory # <<>> => again.disk.memory = old.memory
            /\ old.gitignore # <<>> => IsPrefix(old.gitignore[1], again.disk.gitignore[1])
            /\ again.disk = Initialize(old, question.markers, 4).disk
            /\ old.claw # "file" => third = [disk |-> again.disk, report |-> <<"skipped", "skipped", "skipped", "skipped">>]
\* Doctor calls the credentials good only if a session can start with them, and it fails when
\* a session cannot start or /status does not answer, and for no other reason than these.
\* (src/rust/crates/rusty-claude-cli/src/main.rs, check_auth_health, status_context)
DoctorTells ==
    Asked("doctor") => LET d == question.asked IN
        /\ CheckAuth(d) = "ok" => StartsWithoutRefresh(d)
        /\ ~PromptLoads(d) \/ ~StatusAnswers(d) => DoctorFails(d)
        /\ DoctorFails(d) => ~StatusAnswers(d) \/ d.saved = "unreadable"
\* What a child process is given of the proxy is what a child of that process is given, and
\* nothing of it without all that enables it.
\* (src/rust/crates/runtime/src/remote.rs, inherited_upstream_proxy_env)
ProxyInherited ==
    Asked("proxy") =>
        LET given == SubprocessEnv(question.env, question.token)
        IN  /\ InheritedProxyEnv(given @@ question.env) = (IF given = <<>> THEN InheritedProxyEnv(question.env) ELSE given)
            /\ given # <<>> => DOMAIN given = UpstreamProxyKeys /\ question.token # ""
\* The distance is the least number of letters to insert, delete or change: it obeys the
\* recurrence that defines it.  A command that is known is suggested first for itself.
\* (src/rust/crates/rusty-claude-cli/src/main.rs, levenshtein_distance, ranked_suggestions)
SuggestionsNear ==
    Asked("suggest") =>
        LET input == question.input
            names == question.names
            listed == RankedSuggestions(input, names)
            commands == [i \in DOMAIN names |-> <<names[i]>>]
            edits[i \in 0..Len(input), j \in 0..Len(names[1])] ==
                IF i = 0 THEN j ELSE IF j = 0 THEN i
                ELSE IF input[i] = names[1][j] THEN edits[i - 1, j - 1]
                ELSE 1 + Min({edits[i - 1, j], edits[i, j - 1], edits[i - 1, j - 1]})
        IN  /\ {Levenshtein(input, names[1]), Distance(input, names[1])} = {edits[Len(input), Len(names[1])]}
            /\ input # <<>> /\ Contains(names, input) => SuggestSlashCommands(input, commands, 1) = <<input>>
            /\ Contains(names, input) => listed[1] = input
            /\ \A i, j \in DOMAIN listed : i < j => Score(input, listed[i]) <= Score(input, listed[j])
            /\ \A w \in ToSet(names) \ ToSet(listed) : Score(input, w) > 4 \/ \A i \in DOMAIN listed : Score(input, listed[i]) <= Score(input, w)
WorkspaceTold == InstructionsTold /\ GitTold /\ InitKeeps /\ DoctorTells /\ ProxyInherited /\ SuggestionsNear
=============================================================================
