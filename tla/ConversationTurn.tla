-------------------------- MODULE ConversationTurn --------------------------
(***************************************************************************)
(* One interactive session of the claw CLI: LiveCli                        *)
(* (src/rust/crates/rusty-claude-cli/src/main.rs) drives                   *)
(* ConversationRuntime::run_turn (src/rust/crates/runtime/src/             *)
(* conversation.rs) over a persisted Session (session.rs), which           *)
(* compact.rs shortens.                                                    *)
(*                                                                         *)
(* The turn runs on a clone of the live session; every message the turn    *)
(* pushes is appended to the session file before the next step, and the    *)
(* live session is replaced, and saved whole, only when the turn succeeds. *)
(* The steps of a turn interleave with Ctrl-C (a monitor thread raises the *)
(* hook abort signal) and with the death of the process.  Here an append   *)
(* or a save of the file is one step; SessionFile opens it up.             *)
(***************************************************************************)
EXTENDS Integers, Sequences, FiniteSets, HookContract

CONSTANTS
    Rules,          \* [Input -> [deny, ask, allow : BOOLEAN]]: matching rules
    ActiveMode,     \* the mode of the permission policy
    RequiredMode,   \* the mode the tool requires
    HasHooks,       \* are PreToolUse hooks configured
    HasPrompter,    \* does the caller pass a prompter to run_turn
    MaxIterations,  \* ConversationRuntime::max_iterations
    Preserve,       \* CompactionConfig::preserve_recent_messages
    MaxUses,        \* bound: tool uses in one assistant message
    MaxTurns,       \* bound: prompts the user submits
    MaxLives        \* bound: processes that serve the session

ASSUME PreserveAssumption == Preserve \in Nat \ {0}
ASSUME MaxIterationsAssumption == MaxIterations \in Nat
ASSUME MaxUsesAssumption == MaxUses \in Nat
ASSUME BoundsAssumption == MaxTurns \in Nat /\ MaxLives \in Nat
ASSUME PolicyAssumption ==
    /\ Rules \in [Input -> [deny : BOOLEAN, ask : BOOLEAN, allow : BOOLEAN]]
    /\ ActiveMode \in PermissionMode
    /\ RequiredMode \in ToolPermission
    /\ HasPrompter \in BOOLEAN
    /\ HasHooks \in BOOLEAN

VARIABLES
    phase,    \* where the process is, see Phase
    live,     \* the session of LiveCli::runtime
    work,     \* the session of the runtime that executes the turn
    file,     \* the messages load_from_path would restore
    pending,  \* tool uses of the last assistant message without a result
    grant,    \* the tool call that passed the permission check
    iter,     \* iterations of the turn's loop
    abort,    \* the hook abort signal of the turn
    turns, lives,   \* counters, only for the bounds
    \* History the code does not keep, read by the properties:
    ran,      \* every tool execution: the use, its input and how it passed
    deaths,   \* last message on file each time the process ended
    late      \* tools started in this turn after the abort signal

vars == <<phase, live, work, file, pending, grant, iter, abort,
          turns, lives, ran, deaths, late>>

(***************************************************************************)
(* Messages.  A message's id is its position in the whole conversation, a  *)
(* tool use is <<id of its assistant message, index in it>> (providers     *)
(* issue unique ids); neither is stored by the code in this form.  A       *)
(* summary carries the id of the last message it stands for.               *)
(***************************************************************************)
NoUse == <<0, 0>>
Message == [id : Nat, role : {"system", "user", "assistant", "tool"},
            uses : Nat, answers : Nat \X Nat, ran : BOOLEAN]

UserText(n)       == [id |-> n, role |-> "user", uses |-> 0,
                      answers |-> NoUse, ran |-> FALSE]
Assistant(n, u)   == [id |-> n, role |-> "assistant", uses |-> u,
                      answers |-> NoUse, ran |-> FALSE]
ToolResult(n, t, r) == [id |-> n, role |-> "tool", uses |-> 0,
                      answers |-> t, ran |-> r]
Summary(n)        == [id |-> n, role |-> "system", uses |-> 0,
                      answers |-> NoUse, ran |-> FALSE]

LastId(s) == IF s = <<>> THEN 0 ELSE s[Len(s)].id
NextId(s) == LastId(s) + 1

Phase == {"idle", "request", "pre", "execute", "result", "compact",
          "replace", "persist", "exited"}
\* run_turn is executing: the Ctrl-C monitor listens.
InTurn == phase \in {"request", "pre", "execute", "result", "compact"}

(***************************************************************************)
(* compact.rs.  "over" is the comparison of the token estimate with the    *)
(* configured maximum: always true for an automatic compaction (maximum    *)
(* 0), either value for /compact (maximum 10 000).                         *)
(***************************************************************************)
PrefixLen(s) == IF s # <<>> /\ s[1].role = "system" THEN 1 ELSE 0

ShouldCompact(s, over) == Len(s) - PrefixLen(s) > Preserve /\ over

\* Mutants: one message falls between the summary and the preserved ones; the
\* summary takes one of the messages to preserve.
CompactSessionGap(s, over) ==
    IF ~ShouldCompact(s, over) THEN s
    ELSE LET keepFrom == Len(s) - Preserve
         IN  <<Summary(s[keepFrom].id)>> \o SubSeq(s, keepFrom + 2, Len(s))
CompactSessionGreedy(s, over) ==
    IF ~ShouldCompact(s, over) THEN s
    ELSE LET keepFrom == Len(s) - Preserve + 1
         IN  <<Summary(s[keepFrom].id)>> \o SubSeq(s, keepFrom + 1, Len(s))

CompactSession(s, over) ==
    IF ~ShouldCompact(s, over) THEN s
    ELSE LET keepFrom == Len(s) - Preserve
         IN  <<Summary(s[keepFrom].id)>> \o SubSeq(s, keepFrom + 1, Len(s))

(***************************************************************************)
(* Initial state: LiveCli::new with an empty session, nothing on file.     *)
(***************************************************************************)
NoGrant == [use |-> NoUse, ok |-> FALSE]

Init ==
    /\ phase = "idle"
    /\ live = <<>> /\ work = <<>> /\ file = <<>>
    /\ pending = <<>>
    /\ grant = NoGrant
    /\ iter = 0
    /\ abort = FALSE
    /\ turns = 0 /\ lives = 1
    /\ ran = {} /\ deaths = {} /\ late = 0

\* The process ends: nothing of it survives but the file.
Die ==
    /\ phase' = "exited"
    /\ live' = <<>> /\ work' = <<>>
    /\ pending' = <<>> /\ grant' = NoGrant
    /\ iter' = 0 /\ abort' = FALSE /\ late' = 0
    /\ deaths' = deaths \cup {LastId(file')}
    /\ UNCHANGED <<turns, lives, ran>>

\* Every error of a turn or of a save leaves run_repl through `?`.
Fail == UNCHANGED file /\ Die

\* Session::push_message on the turn's session: the message is appended to
\* the file before the call returns.
PushMessage(m) ==
    /\ work' = Append(work, m)
    /\ file' = Append(file, m)

\* The append fails: the message is popped from the session again, while
\* the record may or may not have reached the file.
PushFails(m) ==
    /\ file' \in {file, Append(file, m)}
    /\ Die

-----------------------------------------------------------------------------
(***************************************************************************)
(* The turn.                                                               *)
(***************************************************************************)
\* LiveCli::run_turn clones the live session into a new runtime with a new
\* abort signal, and run_turn pushes the prompt.
SubmitPrompt ==
    /\ phase = "idle"
    /\ turns < MaxTurns
    /\ LET m == UserText(NextId(live))
       IN  \/ /\ work' = Append(live, m)
              /\ file' = Append(file, m)
              /\ phase' = "request"
              /\ iter' = 0 /\ abort' = FALSE /\ late' = 0
              /\ turns' = turns + 1
              /\ UNCHANGED <<live, pending, grant, lives, ran, deaths>>
           \/ PushFails(m)

\* Mutant: one request more than allowed.
OverLimitLate(n) == n > MaxIterations + 1

\* The comparison that ends the loop: iteration n is not begun.
OverLimit(n) == n > MaxIterations

\* The head of the loop: count the iteration, send the session, build the
\* assistant message from the events and push it.  A text answer ends the
\* loop; an answer with u tool uses queues them.
Stream ==
    /\ phase = "request"
    /\ ~OverLimit(iter + 1)
    /\ \E u \in 0..MaxUses :
         LET m == Assistant(NextId(work), u)
         IN  \/ /\ PushMessage(m)
                /\ pending' = [j \in 1..u |-> <<m.id, j>>]
                /\ phase' = IF u = 0 THEN "compact" ELSE "pre"
                /\ iter' = iter + 1
                /\ UNCHANGED <<live, grant, abort, turns, lives, ran, deaths, late>>
             \/ PushFails(m)

\* The stream fails, or its events do not make a message (no MessageStop,
\* no content).
StreamFails ==
    /\ phase = "request"
    /\ ~OverLimit(iter + 1)
    /\ Fail

\* "conversation loop exceeded the maximum number of iterations"
TooManyIterations ==
    /\ phase = "request"
    /\ OverLimit(iter + 1)
    /\ Fail

\* Mutant: the hook runner does not look at the abort signal.
PreHookDeaf(x) ==
    IF ~HasHooks
    THEN {[verdict |-> "allow", updated |-> x, override |-> "None"]}
    ELSE {h \in HookResult : h.verdict # "cancelled"}

\* What the PreToolUse hooks may answer for an input.
PreHook(x) == HookAnswers(x, HasHooks, abort)

Answers == IF HasPrompter THEN {"yes", "no"} ELSE {"absent"}

\* The question run_turn puts to the policy about the effective input.
Question(x, override, answer) ==
    [deny |-> Rules[x].deny, ask |-> Rules[x].ask, allow |-> Rules[x].allow,
     mode |-> ActiveMode, required |-> RequiredMode,
     override |-> override, answer |-> answer]

\* Mutants: the policy decides about the input the model sent, not the one the
\* tool gets; the queue of tool uses is served from its end.
PreToolUseModelInput ==
    /\ phase = "pre"
    /\ \E x \in Input, answer \in Answers : \E h \in PreHook(x) :
         LET ok == /\ h.verdict = "allow"
                   /\ AuthorizeWithContext(Question(x, h.override, answer))
         IN  /\ phase' = IF ok THEN "execute" ELSE "result"
             /\ grant' = IF ok
                         THEN [use |-> Head(pending), ok |-> TRUE, input |-> h.updated,
                               override |-> h.override, answer |-> answer]
                         ELSE [use |-> Head(pending), ok |-> FALSE]
    /\ UNCHANGED <<live, work, file, pending, iter, abort, turns, lives,
                   ran, deaths, late>>

\* The PreToolUse hooks run on the next tool use and the policy decides about
\* the effective input, the hook's replacement if it gave one.
PreToolUse ==
    /\ phase = "pre"
    /\ \E x \in Input, answer \in Answers : \E h \in PreHook(x) :
         LET ok == /\ h.verdict = "allow"
                   /\ AuthorizeWithContext(Question(h.updated, h.override, answer))
         IN  /\ phase' = IF ok THEN "execute" ELSE "result"
             /\ grant' = IF ok
                         THEN [use |-> Head(pending), ok |-> TRUE, input |-> h.updated,
                               override |-> h.override, answer |-> answer]
                         ELSE [use |-> Head(pending), ok |-> FALSE]
    /\ UNCHANGED <<live, work, file, pending, iter, abort, turns, lives,
                   ran, deaths, late>>

\* The tool runs on the effective input; it may fail, and the post hooks may
\* turn its result into an error: both only change the result's text and flag.
ExecuteTool ==
    /\ phase = "execute"
    /\ ran' = ran \cup {grant}
    /\ late' = IF abort THEN late + 1 ELSE late
    /\ phase' = "result"
    /\ UNCHANGED <<live, work, file, pending, grant, iter, abort, turns, lives, deaths>>

\* Mutants: a refusal is reported like an execution; a refusal ends the round,
\* the other uses of the message are dropped; an answered use stays queued.
PushResultAllRan ==
    /\ phase = "result"
    /\ PushMessage(ToolResult(NextId(work), grant.use, TRUE))
    /\ pending' = Tail(pending)
    /\ phase' = IF Tail(pending) = <<>> THEN "request" ELSE "pre"
    /\ grant' = NoGrant
    /\ UNCHANGED <<live, iter, abort, turns, lives, ran, deaths, late>>
PushResultStopsAtRefusal ==
    /\ phase = "result"
    /\ PushMessage(ToolResult(NextId(work), grant.use, grant.ok))
    /\ pending' = IF grant.ok THEN Tail(pending) ELSE <<>>
    /\ phase' = IF pending' = <<>> THEN "request" ELSE "pre"
    /\ grant' = NoGrant
    /\ UNCHANGED <<live, iter, abort, turns, lives, ran, deaths, late>>
PushResultKeepsUse ==
    /\ phase = "result"
    /\ PushMessage(ToolResult(NextId(work), grant.use, grant.ok))
    /\ phase' = "pre"
    /\ grant' = NoGrant
    /\ UNCHANGED <<live, pending, iter, abort, turns, lives, ran, deaths, late>>

\* The result, of the tool or of the refusal, answers the use; the next use
\* of the message follows, or the next iteration.
PushResult ==
    /\ phase = "result"
    /\ LET m == ToolResult(NextId(work), grant.use, grant.ok)
       IN  \/ /\ PushMessage(m)
              /\ pending' = Tail(pending)
              /\ phase' = IF Tail(pending) = <<>> THEN "request" ELSE "pre"
              /\ grant' = NoGrant
              /\ UNCHANGED <<live, iter, abort, turns, lives, ran, deaths, late>>
           \/ PushFails(m)

\* maybe_auto_compact: the provider's cumulative token count, which decides,
\* is not modelled.  The compacted session is not written to the file here.
AutoCompact ==
    /\ phase = "compact"
    /\ \E reached \in BOOLEAN :
         work' = IF reached THEN CompactSession(work, TRUE) ELSE work
    /\ phase' = "replace"
    /\ UNCHANGED <<live, file, pending, grant, iter, abort, turns, lives,
                   ran, deaths, late>>

\* The turn succeeded: its runtime replaces the live one, unless shutting
\* down the old one's plugins fails.
ReplaceRuntime ==
    /\ phase = "replace"
    /\ \/ /\ live' = work /\ work' = <<>>
          /\ phase' = "persist"
          /\ iter' = 0 /\ abort' = FALSE /\ late' = 0
          /\ UNCHANGED <<file, pending, grant, turns, lives, ran, deaths>>
       \/ Fail

-----------------------------------------------------------------------------
(***************************************************************************)
(* Around the turn.                                                        *)
(***************************************************************************)

\* Mutant: the turn's appends are trusted to have saved everything.
PersistSessionNot ==
    /\ phase = "persist"
    /\ phase' = "idle"
    /\ UNCHANGED <<live, work, file, pending, grant, iter, abort, turns, lives,
                   ran, deaths, late>>

\* persist_session: save_to_path writes the live session whole.
PersistSession ==
    /\ phase = "persist"
    /\ \/ /\ file' = live
          /\ phase' = "idle"
          /\ UNCHANGED <<live, work, pending, grant, iter, abort, turns, lives,
                         ran, deaths, late>>
       \/ Fail

\* /compact: a runtime over the compacted session replaces the live one, and
\* the session is persisted.
SlashCompact ==
    /\ phase = "idle"
    /\ \E over \in BOOLEAN : live' = CompactSession(live, over)
    /\ phase' = "persist"
    /\ UNCHANGED <<work, file, pending, grant, iter, abort, turns, lives,
                   ran, deaths, late>>

\* /exit, /quit or end of input: persist, then leave run_repl.
Quit ==
    /\ phase = "idle"
    /\ file' \in {live, file}
    /\ Die

\* A new process resumes the session from its file and persists it.
Resume ==
    /\ phase = "exited"
    /\ lives < MaxLives
    /\ live' = file
    /\ phase' = "persist"
    /\ lives' = lives + 1
    /\ UNCHANGED <<work, file, pending, grant, iter, abort, turns, ran, deaths, late>>

\* HookAbortMonitor: Ctrl-C during a turn raises the abort signal.
CtrlC ==
    /\ InTurn
    /\ ~abort
    /\ abort' = TRUE
    /\ UNCHANGED <<phase, live, work, file, pending, grant, iter, turns, lives,
                   ran, deaths, late>>

\* The process is killed.
Crash == phase # "exited" /\ Fail

TurnStep ==
    \/ Stream \/ StreamFails \/ TooManyIterations
    \/ PreToolUse \/ ExecuteTool \/ PushResult
    \/ AutoCompact \/ ReplaceRuntime \/ PersistSession

Next ==
    \/ SubmitPrompt \/ TurnStep
    \/ SlashCompact \/ Quit \/ Resume
    \/ CtrlC \/ Crash

Spec == Init /\ [][Next]_vars

\* The runtime's thread keeps running while a turn is under way: the provider
\* answers or fails, tools, hooks and the user's prompts return.
FairSpec == Spec /\ WF_vars(TurnStep)

-----------------------------------------------------------------------------
(***************************************************************************)
(* Properties.                                                             *)
(***************************************************************************)
Grant == [use : Nat \X Nat, ok : {FALSE}]
           \cup [use : Nat \X Nat, ok : {TRUE}, input : Input,
                 override : PermissionOverride, answer : Answer]

\* The type invariant: sessions are sequences of messages, the queue holds
\* tool uses, the history sets hold what their comments say.
TypeOK ==
    /\ phase \in Phase
    /\ live \in Seq(Message) /\ work \in Seq(Message) /\ file \in Seq(Message)
    /\ pending \in Seq(Nat \X Nat)
    /\ grant \in Grant
    /\ iter \in Nat /\ abort \in BOOLEAN
    /\ turns \in Nat /\ lives \in Nat
    /\ ran \subseteq Grant /\ deaths \subseteq Nat /\ late \in Nat

\* While the turn is busy with a tool use, that use heads the queue.
QueueNotEmpty == phase \in {"pre", "execute", "result"} => pending # <<>>

Sessions == {live, work, file}

\* The last message a summary at the head of the session stands for.
Covered(s) == IF PrefixLen(s) = 1 THEN s[1].id ELSE 0

\* No message is lost, duplicated or moved between the summary and the end of
\* a session, in memory or on file, whatever compactions, failed appends and
\* restarts came before; a summary is only ever the first message.
Contiguous(s) ==
    /\ \A i \in 1..Len(s) : s[i].role = "system" => i = 1
    /\ \A i \in 1..Len(s) : s[i].id = Covered(s) + i - PrefixLen(s)
NoMessageLost == \A s \in Sessions : Contiguous(s)

\* Every tool use an assistant message made is answered in place (the j-th
\* result is the j-th message after it), unless the process ended right there
\* or the turn is still working on it.  Providers reject a request in which it
\* is not.
Answered(s, i, j) ==
    \/ i + j <= Len(s) /\ s[i + j].answers = <<s[i].id, j>>
    \/ \E d \in deaths : s[i].id <= d /\ d < s[i].id + j
    \/ \E k \in 1..Len(pending) : pending[k] = <<s[i].id, j>>
ToolUsesAnswered ==
    \A s \in Sessions : \A i \in 1..Len(s) : \A j \in 1..s[i].uses : Answered(s, i, j)

\* A tool result follows the assistant message it answers, or the summary that
\* swallowed that message, with nothing but sibling results in between:
\* compaction may orphan results, and only at the head of the session.
ResultsFollowUse ==
    \A s \in Sessions : \A i \in 1..Len(s) : s[i].role = "tool" =>
       \E k \in 1..(i - 1) :
          /\ \/ /\ s[k].id = s[i].answers[1] /\ s[i].answers[2] = i - k
                /\ s[k].role = "assistant" /\ i - k <= s[k].uses
             \/ s[k].role = "system" /\ s[i].answers[1] <= s[k].id
          /\ \A l \in (k + 1)..i : s[l].role = "tool"

\* In every transcript a provider is sent, each tool use has its one result and each
\* result follows its use, whatever was refused, aborted, compacted or cut off by a crash.
ToolsPaired == ToolUsesAnswered /\ ResultsFollowUse

\* What a turn sends to the provider is on file before it is sent, down to the
\* last result: push_message returns only after the append.
WriteAhead == InTurn => file = work

\* A result in the transcript says its tool ran exactly when it did: no
\* refused use was executed, no executed use is reported as refused.
TruthfulResults ==
    \A s \in Sessions : \A i \in 1..Len(s) : s[i].role = "tool" =>
        (s[i].ran <=> \E r \in ran : r.use = s[i].answers)

\* A tool ran only on an input that no deny rule matches and no hook denied;
\* when an ask rule matched that input or a hook asked, the user said yes.
\* The input is the one the tool got, after the hook's replacement.
Permitted(r) ==
    /\ ~Rules[r.input].deny /\ r.override # "Deny"
    /\ Rules[r.input].ask \/ r.override = "Ask" => r.answer = "yes"
    /\ r.answer # "yes" => Rules[r.input].allow \/ Rank[ActiveMode] >= Rank[RequiredMode]
RanAsPermitted == \A r \in ran : Permitted(r)

\* No tool use is executed twice, in one process or across restarts.
AtMostOnce == phase = "execute" => \A r \in ran : r.use # grant.use

\* With PreToolUse hooks configured, Ctrl-C lets at most the tool that had
\* already passed its hooks start.
AbortStopsTools == HasHooks => late <= 1

\* Between turns the live session and its file agree.
IdleInSync == phase = "idle" => live = file

\* What is about to replace the file, after a turn, a /compact or a resume, is
\* the content of the file itself, at most compacted: a save never rolls the
\* conversation back.
SaveKeepsFile ==
    /\ phase = "replace" => work \in {file, CompactSession(file, TRUE)}
    /\ phase = "persist" => live \in {file, CompactSession(file, TRUE)}

\* The three as one: the file keeps up with the session in memory, before a request is
\* sent, between turns, and whenever it is replaced.
FileKeepsUp == WriteAhead /\ IdleInSync /\ SaveKeepsFile

\* The session file implements an append-only log whose prefix is now and then
\* folded into a summary.
AfterSummary(s) == SubSeq(s, PrefixLen(s) + 1, Len(s))
Log == INSTANCE Transcript WITH
          Message <- Message,
          Keep <- Preserve,
          covered <- Covered(file),
          tail <- AfterSummary(file)
FileIsTranscript == Log!Spec

\* The requests of the turn under way: each pushed one assistant message after
\* the prompt, whatever uses, refusals and results came between.
RequestsMade == Cardinality({i \in DOMAIN work :
                    /\ work[i].role = "assistant"
                    /\ \A j \in i..Len(work) : work[j].role # "user"})

\* A turn sends the provider no more requests than max_iterations allows, so
\* that a model that asks for tools for ever is stopped: a turn under way ends,
\* in a session at rest or with the process gone.  With the CLI's default limit,
\* usize::MAX, the first part is no bound and the second is the provider's to
\* keep; sub-agents are given 32.
TurnEnds ==
    /\ [](InTurn => RequestsMade <= MaxIterations)
    /\ InTurn ~> phase \in {"idle", "exited"}
=============================================================================
