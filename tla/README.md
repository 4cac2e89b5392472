# A verification of the AetherRuntime agent

TLA+ models of this repository: the conversation turn of the `claw` CLI and the
files behind it, and around it what the program decides, starts, asks and shows.
TLC checks them on small instances; TLAPS proves, for every value of the
constants, every safety invariant and action property of the components that keep
state: the conversation turn, the session's files and commands, skills, hooks,
plugins, workers, MCP servers, tools, tokens, registries, settings, the provider's
streams, the trace and the proxy; and of the functions, what decides who may do
what.  Paths are relative to `src/rust/crates` unless they begin with `src/`.

## 1. The system

| Component | State it keeps | What is hard | What makes it correct |
|---|---|---|---|
| Conversation turn, `runtime/src/conversation.rs` | the turn's session, iterations | every step may fail or be the process's last; Ctrl-C | written before used, run at most once and only as permitted, results answer uses in place |
| Session file, `session.rs`, `json.rs`, `compact.rs` | messages, prompts, the file, its rotations | each I/O call can fail; kills inside a write; cuts through tool results | nothing acknowledged leaves the disk; what is loaded is what was written |
| Permissions and hooks, `permissions.rs`, `hooks.rs` | mode, rules, abort signal, a child per hook | order of the cascade; pipes, exit codes, several hooks | deny is final, one hook's word is not another's, every layer decides alike |
| CLI driver, `rusty-claude-cli/src/main.rs`, `session_control.rs` | live runtime, handle, sessions on disk | shells and one-shot processes on one directory; two notions of a session's id | no turn lost, no session mixed with another, what is shown is on disk |
| Commands, skills, `commands/src/lib.rs` | skill directories | four parsers of one line; two crates with two orders of directories | they agree |
| Plugins, `plugins/src/lib.rs` | directories, `installed.json`, settings, the running plugins | crashes between remove and copy; lost updates; Init before the old Shutdown | disk, record and runtime agree; each plugin shut down once |
| Settings, `config.rs`, `config_validate.rs` | five files | precedence, torn files, plan mode's two writes | the strongest file wins, plan mode gives back what it took |
| Workers, `worker_boot.rs` | workers, `.claw/worker-state.json` | screen texts late, repeated, in any order | no replay of a prompt that arrived; the file is right about readiness |
| MCP, `mcp_*.rs` | a child per server, routes, health, the bridge's registry | answers late, twice, wrong or never; checks under another lock | an answer belongs to its request, a call is made once, none waits for ever |
| Tools, `tools/src/lib.rs`, `file_ops.rs`, `bash.rs` | sub-agents' files, children, registries | threads nobody joins, pipes held by descendants, boundaries of cut texts | what is told is what happened |
| Provider, `api/src`, `oauth.rs`, `telemetry/src` | streams, retries, tokens, prompt cache, trace | a stream ends anywhere; a retry races an answer; two logins | one answer of one attempt, bounded requests, tokens survive |
| Lanes, `recovery_recipes.rs`, `policy_engine.rs`, ... | attempts per scenario | several judges of one lane | they judge alike; one automatic attempt |
| Prompt, terminal, `prompt.rs`, `render.rs`, `input.rs` | none | budgets, text cut while it streams | shown whole, or with a note of what is missing |
| Local AI proxy, `src/local_ai/proxy.py` | one request | stalls and breaks before and after the headers; repairs | one reply with one status, the tokens in order, the best answer |

They interact so.  The CLI clones its live session into a runtime per turn; the
runtime calls the provider (or the proxy in its stead), the hooks, the policy,
the prompter and the tool executor one after another on one thread and appends
to the session file; a monitor thread raises the hooks' abort signal.  Tools
reach the MCP manager, start children and sub-agents (threads with a runtime of
their own), and share registries and files with them.  Settings and plugins are
read when a runtime is built and written by tools and commands of any process.
Nothing on disk is locked.  The hazards that follow from this are in
`PROJECT.json`, each at its line and with the properties aimed at it.

## 2. Modules

State machines

* `ConversationTurn` (extends `PermissionPolicy`, `HookContract`) - the CLI loop
  and `run_turn`.  `phase` is the program counter; `live` is the session of
  `LiveCli`, `work` the clone the turn works on, `file` what `load_from_path`
  would restore; `pending` is the queue of tool uses, `grant` the decision about
  the one being served.  An append succeeds, or fails with the record on file or
  not; each error ends the process, as `?` does in `run_repl`; `Crash` may come
  at any step, `Resume` is a new process.  `Transcript` is what it promises: an
  append-only log whose oldest messages are now and then folded into a summary;
  `FileIsTranscript` is the refinement (`covered <- Covered(file)`,
  `tail <- AfterSummary(file)`).
* `SessionFile` - opens up the append and the save that `ConversationTurn` takes
  as one step: a file is a sequence of chunks, each what one write left.
* `HookRunner` - `run_commands` with its children and their pipes; it implements
  `HookContract`, which is all the turn assumes of it (`KeepsContract`).
* `SessionCommands`, `Skills` - which files the REPL's commands read, write and
  remove, and the skills two processes install and look up.
* `PluginManager`, `RuntimeLifecycle` - the plugins' files one I/O call at a
  time, and the runtimes a REPL builds from them while another changes them.  A
  plugin's directory is whole, absent, a part without a manifest, a part that does
  not load, or a `Half`: a part with the manifest and all that it names, which
  loads, and which `needs_sync` takes for a valid copy.  `shared` and `hurt` are
  history: who was at work while another one was, and what such a one left in parts.
* `WorkerBoot` - each operation under the registry's mutex is an action; a
  screen text is the set of cues the detectors find.
* `McpServerManager` - the manager's operations, cut where it waits for a child
  (`pc`), and the children; `McpBridge` - the registry and its calls, each on a
  thread of its own; `McpLifecycle` - phases and health.
* `SubAgent`, `Shell` - the Agent tool's thread and files; programs that are
  waited for, with their pipes, limits and descendants.
* `ProviderStream`, `OAuth`, `Telemetry`, `LocalProxy` - one answer of a model
  over attempts and providers; logins and refreshes; the trace that clones of a
  tracer write; the proxy between the program and Ollama.
* `Settings`, `ToolRegistries`, `Lanes` - the settings files and the tools that
  write them; tasks, teams, cron entries and LSP servers; recovery, policies,
  branches.

Functions.  What keeps no state is asked instead of run: a behaviour puts one
`question` (`Question`), and an invariant is about the answer.  `PermissionPolicy`
(the cascade, rules, enforcer), `ToolGate` (all that decides about a call: who owns
a tool's name and what it requires, the restriction of `--allowedTools`, the
sandbox, bash's validators, the enforcer's checks of files and commands),
`CommandLine` (flags, slash commands, what `--resume` chains), `Declarations`
(plugin manifests, sections of the settings, the plugins' own hook runner),
`McpProtocol`, `Requests` (translation, frames, cache, errors, and the mock
service's scripted answers), `Records` (JSON, sessions, summaries), `ToolBodies`
(what tools compute: files, edits, notebooks, todos, searches, fetched pages, PDF
text, remote triggers, questions to the user), `Workspace` and `Terminal`.

Instances.  `MCConversationTurn`, `MCStateFiles`, `MCMcpServerManager`,
`MCSessionCommands`, `MCTools`, `MCParts` and `MCDecisions` give the constants
their values.  Several put components side by side that share no
state: each takes its steps while the others are where they start, which finds
what checking each alone would find, without every combination.
The theorems are in `ConversationTurn_proofs`, `SessionCommands_proofs`,
`StateFiles_proofs` (`SessionFile`, `WorkerBoot`, `PluginManager` and
`RuntimeLifecycle`), `McpServerManager_proofs` (also `McpLifecycle`), `Tools_proofs`
(`SubAgent`, `HookRunner`, `Shell`, `McpBridge`, `ToolGate`) and `Parts_proofs`
(`OAuth`, `ToolRegistries`, `LocalProxy`, `Settings`, `Lanes`, `ProviderStream`,
`Telemetry`, and `MCParts`, which puts them side by side);
`SessionCommands_proofs` is about `Skills` and `CommandLine` too.

## 3. Runs

| Run | Asks | Instance |
|---|---|---|
| `turn_policy` | only permitted inputs run (`RanAsPermitted`), results tell whether their tool ran (`TruthfulResults`), Ctrl-C stops the round (`AbortStopsTools`) | 2 turns, 2 processes, hooks, three inputs: no rule, denied, asked |
| `turn_transcript` | nothing lost, duplicated or moved (`NoMessageLost`), uses and results paired (`ToolsPaired`), run once (`AtMostOnce`), memory and file agree (`FileKeepsUp`), the file implements `Transcript` (`FileIsTranscript`), a turn ends (`TurnEnds`) | 2 turns, 3 processes, 2 tool uses per message, 2 iterations |
| `state_files` | what was acknowledged stays on disk (`SessionKept`), a save repairs (`SaveRepairs`), the registry and its state file are right (`WorkersTold`), disk, record and runtime agree about plugins (`PluginsAreDisk`) | 4 messages, 2 prompts, 3 processes, rotation at 4 records; 2 workers; 2 plugins, 2 REPLs, one mishap |
| `mcp_manager` | `ChildAnswers`, `CallAtMostOnce`, `RoutesAsListed`, `HealthHonest`, `OperationsEnd` | 2 servers, 2 operations, 2 pages, 2 unread replies |
| `session_commands` | `NothingLost`, `NoMixing`, `ShownIsOnDisk`, `SkillRunsAsListed` | 2 REPLs beside one-shot processes, a second session id, forks; 2 installers over skills in three directories |
| `tools` | `AgentReported`, `HooksKeepWord`, `ShellTold`, `BridgeServes`, and under fairness `EveryCallEnds` | 2 agents, 3 hook commands, pipes of one piece, 2 threads on the bridge |
| `parts` | `SettingsHold`, `LanesHold`, `StreamKept` (with the trace), `TokensKept`, `TaskHasItsTeam`, `ProxyAnswers` | 2 providers, a retry each, 2 tool calls in 2 pieces; 2 logins; 2 callers; 3 tokens and 2 repairs |
| `decisions` | `CommandsAgree`, `AccessDecided`, `DeclaredIsKept`, `WireAgrees`, `RecordsHold`, `ToolsCompute`, `ShownWhole` | every question of a bounded set, see `MCDecisions` |
| `session_file_replay` | violated: an acknowledged message leaves a file that loads | as `state_files` |
| `session_delete_active` | violated: `/session delete` spares the active session | as `session_commands` |
| `hook_abort_blocked` | violated: Ctrl-C ends a run of hooks | a hook that does not read its payload |
| `proxy_reply` | violated: one reply with one status | 3 tokens |

Bounds.  `Max*` constants of turns, lives, uses, messages, operations, pages,
calls, faults and edits only limit the exploration.  `Preserve`, `RotateAt`,
`MaxRotated`, time-to-live and size limits are parameters of the code made small,
so that one turn is compacted in the middle of its results, a session is rotated
twice, and a budget is exceeded by one; so are `MaxPreview` (900 characters of a
page), `MaxHops` (10 redirects), `MaxReply` (8192 bytes of a remote trigger's reply),
`MaxSize` (the 10 MB of a file that is read or written whole)
`Sniffed` (the 8192 bytes in which NUL makes a file binary) and `DictWindow` (how far
before a PDF stream its dictionary is looked for).  Two turns and three processes are what a
compaction of a summary, a crash in a resumed session and a second resume need;
two uses per message make a refusal followed by a use, and the order of results,
observable; two REPLs, agents, installers, workers or servers are what one needs
to disturb another.  Every property is shown to depend on the code by a mutant of
one definition (`PROJECT.json`).  Deadlock is not reported: the bounds, a process
that ended and a question that was answered all stop a model.

Fairness is assumed of threads that go on by themselves, never of users, crashes
or failures.  `TurnEnds`: provider, tools, hooks and prompter return.  That a turn has no more
requests than `max_iterations` and ends with the error of `OverLimit` at the next
holds for any limit; that it ends at all, though the model asks for a tool for
ever, rests on a limit that is reached, as that of sub-agents (32) is and the
CLI's default, `usize::MAX`, is not.  `OperationsEnd`: the task is polled and its timers fire; nothing is
assumed of the servers, but a listing has finitely many pages.  `EveryCallEnds`:
one of the threads and children that can go on does (each has finitely many
steps); a hook that prints more than a pipe holds, and a program that runs for
ever without a limit, are excepted, because there nothing ends.

## 4. Findings

* A prompt-history append that fails half way is only warned about.  The next
  message continues the torn line, its `push_message` returns Ok, and the loader
  refuses the file until a save rewrites it (`session_file_replay`).  What is on
  disk is not lost and the next save repairs it (`SessionKept`, `SaveRepairs`).
* `/session delete` compares the id in the file's name with that of the session
  in memory; after a reset in place they differ, and the file in use is deleted
  (`session_delete_active`).
* A hook that does not read its stdin blocks the write of a large payload before
  the abort signal is looked at (`hook_abort_blocked`).
* The proxy's handler of a broken stream supposes that the headers went out.  When
  the connection is lost before the first token, the client gets events without a
  status line; and a chunk of another form after the headers makes it send a 500
  into the events (`proxy_reply`).  `ProxyAnswers` holds with these two set aside.

Observations that the models show or were shaped by, without a run of their own:

* Session: a listed id is not found by `/resume` after a one-shot `/clear`; an
  empty file loads as a new session; surrogate pairs and fractions in JSON are
  refused, a trailing comma is not; a creation time beyond `i64` cannot be saved.
* Workers: a running cue changes the worker without an event, so the state file
  keeps `prompt_in_flight`; a failed worker is revived by what is still on screen.
* Hooks: a child that exits without reading its payload may be reported as one
  that failed to start.
* Permissions: only bash, read, write, edit, glob and grep are checked by the
  enforcer, and the CLI sets none; the mode `Prompt` ranks above every requirement.
  Names of tools that differ in case, `-` or `_` collide in `--allowedTools`;
  `--allowedTools ","` allows nothing, while without a value there is no restriction.
* Command line: flags after `-p` are lost, so `--permission-mode` after it falls
  back to the default; help and `--resume` name different commands; `claw plugins`
  cannot be reached.
* Plugins: a build that fails leaves initialised plugins running; `../x` entries
  are validated at the source but missing beside the copy; a part of a plugin left
  by a crash makes later builds fail; the loser of a race for `installed.json`
  loses its record; a crash in a copy leaves a part that may load, and while a
  lone process's crash is repaired by the next sync, because no record of the new
  version was stored, one that another process stores the record of never is
  (`RuntimeIsDisk` excepts it).
* Settings: the Config tool writes keys that the validator refuses, so that the
  next start falls back to defaults; a flat `permissionMode` beats
  `permissions.defaultMode`; deprecated keys inside a section are ignored silently;
  plan mode changes the file only, not the running session.
* Skills: concurrent installations and crashes leave parts; a skill may be
  announced under a name that differs from its directory's; two of one name in a
  directory are in the order `read_dir` gives.
* Provider: a truncated OpenAI stream delivers a tool call with cut input; an end
  without `message_stop` is accepted; frames of a stream that mixes LF and CRLF
  depend on how bytes are cut; a malformed frame drops the events before it in its
  piece; a streamed call without input is sent back as `{"raw": ""}`; a saved token
  selects Anthropic, whose client then does not use it.
* OAuth: two writers share `credentials.json.tmp`; the first connection wins.
* Shell: bash reports an interruption and leaves the program running; PowerShell
  and REPL wait for descendants beyond their limit; `active` may be told of a
  sandbox in which nothing is isolated.
* MCP: names with `__`, or servers `a.b` and `a_b`, collide; the client and the
  server of this repository accept different line ends in a frame's header; the
  bridge leaves servers running when a discovery fails, and reports a served call
  as failed when the shutdown after it fails; the validator reopens `ready` after a
  refused transition and a timeout; a partly failed start reports no missing tools.
* Summaries: what a message brings in between `<analysis>` tags is deleted from a
  summary by a later compaction, with the text of earlier summaries around it when
  the tags come from two messages (`SummariesKeep` excepts it).
* Tools: `write_file` bounds what it writes and not what it reads, `edit_file`
  neither, so an edit may make a file that `read_file` refuses; an insertion after a
  deletion reuses a notebook cell's id; `edit`, todos
  and notebooks are written in place, so two agents lose edits; one unreadable
  directory fails a whole grep; offset and limit cut names and content of grep
  separately; a page that ends right after an unclosed result anchor panics, as does
  a remote trigger when byte 8192 of the reply falls inside a character; the `::1`
  that keeps a URL from being upgraded to https never matches (`[::1]` is the host);
  a page's title is cut at a place found in its lower-cased text.
* PDF: of several compressed streams only the first is read, because the search
  goes on at `endstream`, which contains `stream`, though the comment at
  `tools/src/pdf_extract.rs:13` speaks of all; escaped brackets are counted in `TJ`.
* Sub-agents: the end of the program leaves a manifest that says running.
* Branches: a git that fails counts as a fresh branch; `cargo test --all-features`
  is taken for a test of the workspace, `cargo test -q --workspace` is not.
* Telemetry: the order of lines is not that of the numbers; a push that fails ends
  a turn without `turn_failed`; an event after a torn line shares it; the CLI
  attaches no tracer.
* Terminal: text pending when a stream ends without a stop is not shown; three
  levels of equal fences are made equally long and so do not nest; the end of
  input in a multi-line block loses what was typed.
* Proxy: an HTTP error of Ollama is told as a failure to connect (`HTTPError` is a
  `URLError`); a repair request that fails loses the answer there was; an empty
  completion is an error as JSON but a finished message as events; calls of tools
  in a stream are dropped; one thread serves, so a retry waits behind the request
  it gave up; `run_repair_loop` (used by tests only) tells the model the latest
  answer with the best answer's faults.
* Written but not wired in: the MCP lifecycle validator, the bridge (nothing
  registers a server), `plugin_lifecycle.rs`, `plugins/src/hooks.rs`,
  `bash_validation.rs`, the `*_in_workspace` file functions, `pdf_extract.rs`, most
  of the recovery, policy and lane modules.

## 5. Proofs

TLC checks an invariant on an instance; the theorems state it for every value of
the constants: any processes, tools, plugins, servers, policies, directories, any
length of conversations, listings and streams.  An invariant of a run is seldom
inductive.  What each proof adds to it:

`ConversationTurn_proofs`
* `TypeCorrect`: `PreToolUse` and `PushResult` take the head of `pending`, so
  `TypeInv` adds that the queue is not empty while it is served.
* `NoMessageIsLost`, `FileIsKeptUp` and its parts: they are inductive only together
  (`SessionInv`).  Appending keeps a session gapless because ids continue the last
  one, compaction does because the summary covers exactly what was cut; the file
  follows the turn's clone because it was equal when the turn began (`IdleInSync`),
  which a save re-establishes because it writes the file's content back, at most
  compacted (`SaveKeepsFile`).
* `FileImplementsTranscript`: under `SessionInv` each step of the turn is an
  `AppendMessage` of the file, a `Summarise` with the number of messages cut, or
  none of both.
* `OnlyPermittedRuns` (`PermitInv`: the grant that is about to be executed was
  permitted for the input it carries) and `AbortIsObeyed` (`AbortInv`: the one tool
  that may still start after Ctrl-C is one whose hooks had run).
* `ResultsAreTruthful`, `RunsAtMostOnce`: `ToolInv` says where the queue of uses
  stands (`QueueInv`: consecutive uses of one message on file), that of the queued
  uses only the head can have run (`RanInv`), and that no result answers a use that
  is still queued (`ToldInv`).
* `TranscriptsArePaired`: `PairInv` keeps for each session that a use is answered
  right behind it, is queued, or was left by a death (`Paid`), that a result follows
  its use with only results between (`Follows`), and that the clone ends with the
  message being served and its results so far (`OpenInv`).
* `CascadeIsClosedForm`, `NoHookWidens`, `EnforcerAgrees` are about the function
  `Authorize` of `PermissionPolicy`, for every request.

`SessionCommands_proofs`
* `MessagesStay`, `ConversationsApart`, `ShownSession` from `CommandsInv`: ids are
  fresh and parents older (`Generated`, `Spoken`), a file two processes never had
  open together has one writer (`Alone`), a message is in its file and in the memory
  of all who will write that file, or in the file's backup (`Homes`, `BackedUp`),
  and a session holds messages of its ancestors only (`Lineage`).  `Descends` is a
  recursive function; that it unfolds is proved by well-founded induction over sets.
* `SkillsRun`: two installers are at one name only if one of them started while the
  other was under way (`InstallInv`), and every name on disk and under way has its
  place in the order of names (`NamesInv`, from `OrdersAssumption` and
  `NamesAssumption`).  Of a directory the first entry of a name in that order is
  listed as active and is the one found, by the user's command and by the Skill
  tool, which search different lists of the same directories.
* `CommandsAreAgreed` is about the functions of `CommandLine`, for any words, lines
  and chains of any length.  Its hypothesis `CommandsAsked` only says what kinds of
  values a question of each form is made of (TLC confirmed it of every question of
  `decisions`).  The functions that read a line or run a chain step by step are
  iterated steps, which unfold (`Iterated`), so each fact is an induction over the
  words or the commands so far: of a chain, that the file is the session in memory,
  that the exit code is 0 as long as every command was good, that the report printed
  is about these commands, that backups bear the times of the clears, and that the
  session and the backups tell every message; of a line, that the words behind
  `skills` are read alongside those behind `/skills`, whichever front reads them; of
  the words given to `--resume`, that the groups split off are the commands given.

`StateFiles_proofs`
* `SessionIsKept`, `SavesRepair`: `FileInv` says of every phase of an append or a
  save what the file restores, if it can be read: the session in memory, or that
  session without the message under way.
* `RegistryTellsTruth`: a worker's record is `Coherent` with what was seen of it.
* `PluginsKept`: `PluginInv` rests on that the sources stand still while a command
  runs (`Publish` waits for rest), so what is copied is the source's version, whole
  or a part of it (`CopyAt`), a record that says this version is about such a copy
  (`Sound`), and two commands past their load at one plugin know of each other
  (`RivalsKnown`).  `TrustInv` is what makes `needs_sync` right for a REPL that is
  alone, though it cannot tell a `Half` from a copy: a record of the shipped version,
  on disk or in a process's memory, means that the directory is whole, that somebody
  is in it, or that it was `hurt`.  `RuntimeInv` adds that only the REPL's build acts
  while the REPL is alone, and that a plugin is up once for each runtime that holds it.

`McpServerManager_proofs`
* `ChildrenAnswer`, `CallsAreMadeOnce`, `RoutesLeadToListed`: `ChildInv` (one child
  per server, and the initialized flag is about it), `TaskInv` (no call was made
  before its request) and `RouteInv` hold together.
* `HealthIsHonest`: `LifecycleInv` orders the phases that succeeded and says what is
  left to a server after a fatal failure.

`Tools_proofs`
* `AgentsReportTruly`, `HooksKeepTheContract`, `ShellTellsTruth`, `BridgeServesOnce`.
  The invariants say what was heard, written or served in each phase: of hooks, that
  all commands so far approved and the result is their last word; of a program, that
  what is told, in the pipe and still to come is all of its output; of the bridge,
  that who works on the manager holds the lock.  `HooksKeepTheContract` includes that
  `HookRunner` implements `HookContract`, which the turn's theorems rest on.
* `AccessIsDecided` needs no invariant, it is about functions.  Its hypothesis
  `WellAsked` only says what kinds of values a question of each form is made of (any
  names, hints, restrictions, words, paths and settings; TLC confirmed it of every
  question of `decisions`).  `Cascade` brings the permission cascade to its closed
  form; `PolicyIs`, `MapLeads` and `OneOwner` show that the map from names to
  requirements, in which the last of several specifications wins, has one
  specification for each name once a registry could be built (`Built`: no plugin or
  MCP tool repeats a name), so that what is shown is what runs; the commands' part
  is that the lists of the validators, the classification and the enforcer fit
  together, and that an earlier answer of the chain is not overridden.

`Parts_proofs`
* `TokensSurvive` (what carries a token set from the server's answer to the file),
  `TasksBelong` (ids rise; a team lists a task from its creation until its
  `TeamCreate` is through with it), `ProxyTellsAll` (until a request is done, nothing
  or the stream so far was written, and the answers collected are all wanting),
  `SettingsAreMeant` (what is left of a call of the plan mode tools is what it would
  write if it were made now), `RequestsAreBounded` (each attempt and provider has its
  share of requests), `AnswersAreOwn` (an answer is for ever that of its request, in
  the completion cache too), `RecoveredOnce`.
* `TraceIsKept`: `TraceInv` says that only taking a number adds to the numbered
  records (writing moves one from a clone to the file), that the number is above all
  there were, and so that the newest record of a clone tells which attempt is open
  and whether its turn has ended (`AttemptTold`, `EndTold`).
* `StreamsAreFaithful`: `SaysInv` says of each place in a stream what the adapter has
  passed on and what the client has made of it.  Over Anthropic's events one block is
  open at a time (`OneByOne`); over OpenAI's pieces every call has its own place
  (`InPieces`), of which `emitted` never passes what came.  The client is a recursive
  function over events: a piece gives each call two at most, for which it is
  unfolded, and the calls follow one another (`FeedEachIs`).
* `LanesAreHeld`, `StreamIsKept`: the run's own invariants, of the composition.
  `PartsAreThemselves` shows that a behaviour of `MCParts` is one of each part, which
  carries what is proved of a part into the whole; `LanesAnswered` adds what is
  judged of a lane, a branch, a lock, a test and a directory, for every question of
  the run, resting on `CollisionsReported`, `FreshHasMain` and `TestsAreHeld`, which
  are for any lanes, branches and commands.

Assumed of the constants are only their types, that sizes and limits are not
negative or not zero (`PreserveAssumption`, `SizesAssumption`, `ServersAssumption`,
...), that markers for "nothing" are not values (`NoInputAssumption`,
`NoPromptAssumption`, `PluginAssumption`), that a clone of the tracer has one
holder (`HoldersAssumption`), and that the table has `/clear` and `/skills` and no
other word for `clear` (`SlashAssumption`).  TLC evaluates each on the runs.

Only model-checked, and why:

* `TurnEnds`, `OperationsEnd`, `EveryCallEnds`: liveness under fairness.
* `DeclaredIsKept`, `WireAgrees`, `RecordsHold`, `ToolsCompute`, `ShownWhole`: what parsers, renderers and folds compute for every input needs
  induction over data, which the provers cannot instantiate; `Records` and what
  reaches it has `RECURSIVE` operators.

## 6. Not modelled, and simplifications

* Text is abstracted to what tells outcomes apart: matching of rules against
  JSON, markdown beyond fences, spans, lists and tables, prompts, summaries.
  Prices, colours, help texts, reports that only format, and calls of git for
  display are left out.
* Evaluation and training scripts of `src/local_ai` run once, alone, from files to
  files, and are not modelled; of the test harness, the mock service's answers are.
* Sleeping, structured output, `http_client.rs`, `task_packet.rs` and the names that
  `compat-harness` lists are left out; see the components in `PROJECT.json`.
* Two `/clear --confirm` within one millisecond share the name of their backup in the
  code; in `SessionCommands` the names differ.  The directories under
  `/home/bellman` that the Skill tool also searches are left out.
* `ConversationTurn` takes an append for all or nothing; a torn record makes the
  file unreadable, and there is then no `Resume`.  Usage counts and token estimates
  are a free choice.
* One process at a time has the session file in `SessionFile`; two REPLs on one
  file are in `SessionCommands`, where a save is one step.
* In `ToolBodies` one call runs alone.  Two agents that edit one file lose an
  edit, and the code promises nothing else.
* Message, tool-use and summary ids are positions in the conversation.
* A worker's state file that could not be written is taken for unknown.  Killing a
  child of the MCP manager succeeds except in `shutdown`.
* The proxy notices a client that left when it writes, and until then goes on; the
  model ends the request at once.
* Servers, providers, Ollama, browsers, hooks and programs are external: they
  answer in any way the code tells apart.

## 7. Plan

The modelling is as broad as the bounds of one project allow.  What is left:

1. Proofs: the properties listed above as only model-checked.  Of these, parts of
   `DeclaredIsKept` and `WireAgrees` need no fold (the sections of the settings, the
   error classes, the prompt cache) and could be stated apart.
2. Three hazards have no property: two processes that write one session file at the
   grain of I/O calls, a listing that never ends, and two agents that edit one file.
   The code promises nothing there; a model would only show the loss.
3. Coverage: the fixed texts and reports of `main.rs` and `commands/src/lib.rs`, and
   what no code calls, are what the map leaves out.
