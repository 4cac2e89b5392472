----------------------------- MODULE HookRunner -----------------------------
(***************************************************************************)
(* HookRunner::run_commands (src/rust/crates/runtime/src/hooks.rs): the    *)
(* configured commands run one after another, each a child process that    *)
(* gets the payload on its stdin and answers with its exit code and its    *)
(* stdout.  Both are pipes of a limited capacity.  The steps interleave    *)
(* with the child's and with Ctrl-C, which raises the abort signal.        *)
(***************************************************************************)
EXTENDS Integers, Sequences, FiniteSets, HookContract

CONSTANTS
    MaxCommands,  \* bound: configured commands
    BigPayload,   \* does the payload exceed the capacity of a pipe
    Habits,       \* what children may be like, a subset of Habit
    NoInput       \* the hook does not replace the input

\* reads: it reads stdin to its end before it exits.  loud: it prints more than
\* a pipe holds.  forks: a descendant of the shell keeps the pipes open.
Habit == [reads : BOOLEAN, loud : BOOLEAN, forks : BOOLEAN]

ASSUME CommandsAssumption == MaxCommands \in Nat
ASSUME HabitsAssumption == Habits \subseteq Habit /\ BigPayload \in BOOLEAN
ASSUME NoInputAssumption == NoInput \notin Input

VARIABLES
    pc,       \* where the runner is
    i,        \* the command it is at
    commands, \* number of commands configured for the event
    input,    \* the tool input of this run
    child,    \* the child process, or NoChild
    result,   \* HookRunResult
    abort,    \* the abort signal
    \* History, read by the properties:
    atStart,  \* the abort signal when the run began
    late,     \* commands started after the abort signal
    heard     \* what the commands that finished answered

vars == <<pc, i, commands, input, child, result, abort, atStart, late, heard>>

NoChild == [state |-> "none"]
Code == {"0", "2", "other"}   \* "other" also stands for death by a signal

(***************************************************************************)
(* ParsedHookOutput.  said: there is a message.  No output leaves all at   *)
(* its default, plain text is a message, an object always has a message.   *)
(***************************************************************************)
ParsedOutput ==
    {p \in [said : BOOLEAN, deny : BOOLEAN, override : PermissionOverride,
            updated : Input \cup {NoInput}] :
        ~p.said => ~p.deny /\ p.override = "None" /\ p.updated = NoInput}
NoOutput == [said |-> FALSE, deny |-> FALSE, override |-> "None", updated |-> NoInput]

\* messages: the commands whose message was kept.
Allowed == [denied |-> FALSE, failed |-> FALSE, cancelled |-> FALSE,
            messages |-> <<>>, override |-> "None", updated |-> NoInput]

\* Mutant: what a later command leaves open is taken as its answer.
MergeOverwrites(r, p) ==
    [r EXCEPT !.messages = IF p.said THEN Append(@, i) ELSE @,
              !.override = p.override, !.updated = p.updated]

\* merge_parsed_hook_output: what a command says replaces what earlier ones
\* said, what it leaves open does not.
Merge(r, p) ==
    [r EXCEPT !.messages = IF p.said THEN Append(@, i) ELSE @,
              !.override = IF p.override = "None" THEN @ ELSE p.override,
              !.updated = IF p.updated = NoInput THEN @ ELSE p.updated]

\* How run_command classifies a command that finished.
Verdict(code, p) ==
    IF code = "0" THEN IF p.deny THEN "deny" ELSE "allow"
    ELSE IF code = "2" THEN "deny" ELSE "failed"

\* with_fallback_message: a refusal always has a message.
WithFallback(p) == [p EXCEPT !.said = TRUE]

Init ==
    /\ pc = "start" /\ i = 1
    /\ commands \in 0..MaxCommands /\ input \in Input
    /\ child = NoChild
    /\ result = Allowed
    /\ abort \in BOOLEAN
    /\ atStart = abort /\ late = 0 /\ heard = <<>>

-----------------------------------------------------------------------------
Finish(r) ==
    /\ pc' = "done"
    /\ result' = r
    /\ child' = NoChild

\* The head of run_commands.  The abort signal is looked at once here, not
\* between commands.
Start ==
    /\ pc = "start"
    /\ \/ commands = 0 /\ Finish(Allowed)
       \/ commands > 0 /\ abort /\ Finish([Allowed EXCEPT !.cancelled = TRUE,
                                                         !.messages = <<0>>])
       \/ commands > 0 /\ ~abort /\ pc' = "spawn" /\ UNCHANGED <<child, result>>
    /\ UNCHANGED <<i, commands, input, abort, atStart, late, heard>>

\* The shell starts, or cannot be.
Spawn ==
    /\ pc = "spawn"
    /\ late' = IF abort THEN late + 1 ELSE late
    /\ \/ \E h \in Habits :
            /\ child' = [state |-> "running", reads |-> h.reads, loud |-> h.loud,
                         forks |-> h.forks, eof |-> FALSE]
            /\ pc' = "write"
            /\ UNCHANGED <<result, heard>>
       \/ /\ Finish([Merge(result, WithFallback(NoOutput)) EXCEPT !.failed = TRUE])
          /\ heard' = Append(heard, [verdict |-> "failed", out |-> WithFallback(NoOutput)])
    /\ UNCHANGED <<i, commands, input, abort, atStart>>

\* write_all of the payload, then stdin is closed.  A child that has exited
\* leaves a broken pipe, which is reported as a failure to start.  A payload
\* the pipe cannot hold waits for the child to read it.
WritePayload ==
    /\ pc = "write"
    /\ \/ /\ child.state = "exited"
          /\ Finish([Merge(result, WithFallback(NoOutput)) EXCEPT !.failed = TRUE])
       \/ /\ child.state = "running"
          /\ BigPayload => child.reads
          /\ pc' = "poll"
          /\ child' = [child EXCEPT !.eof = TRUE]
          /\ UNCHANGED result
    /\ UNCHANGED <<i, commands, input, abort, atStart, late, heard>>

\* Mutants: the next command is the same one; a failure does not end the run.
TakeAgain(code, p) ==
    LET v == Verdict(code, p)
        q == IF code = "0" THEN p ELSE WithFallback(p)
    IN  /\ heard' = heard
        /\ IF v = "allow"
           THEN result' = result /\ pc' = "spawn" /\ child' = NoChild
           ELSE Finish([Merge(result, q) EXCEPT !.denied = v = "deny",
                                                !.failed = v = "failed"])
        /\ UNCHANGED i

\* The outcome of a command that finished; the first refusal ends the run.
Take(code, p) ==
    LET v == Verdict(code, p)
        q == IF code = "0" THEN p ELSE WithFallback(p)
    IN  /\ heard' = Append(heard, [verdict |-> v, out |-> q])
        /\ IF v = "allow" /\ i < commands
           THEN /\ result' = Merge(result, q)
                /\ pc' = "spawn" /\ i' = i + 1
                /\ child' = NoChild
           ELSE /\ Finish([Merge(result, q) EXCEPT !.denied = v = "deny",
                                                  !.failed = v = "failed"])
                /\ UNCHANGED i

\* One round of output_with_stdin's loop: the signal first, then the child,
\* else 20 ms of sleep, which is no step here.
Poll ==
    /\ pc = "poll"
    /\ \/ /\ abort
          /\ pc' = "reap"
          /\ child' = [child EXCEPT !.state = "killed"]
       \/ ~abort /\ child.state = "exited" /\ pc' = "collect" /\ UNCHANGED child
    /\ UNCHANGED <<i, commands, input, result, abort, atStart, late, heard>>

\* wait_with_output reads the pipes to their end: it waits for whoever still
\* holds them.
Collect ==
    /\ pc = "collect"
    /\ ~child.forks
    /\ \E code \in Code, p \in ParsedOutput : Take(code, p)
    /\ UNCHANGED <<commands, input, abort, atStart, late>>

\* The same after the kill.
Reap ==
    /\ pc = "reap"
    /\ ~child.forks
    /\ Finish([result EXCEPT !.cancelled = TRUE, !.messages = Append(@, i)])
    /\ UNCHANGED <<i, commands, input, abort, atStart, late, heard>>

-----------------------------------------------------------------------------
\* The child exits: one that reads needs the end of its input, one whose output
\* does not fit the pipe blocks, as nobody reads before it has exited.
ChildExits ==
    /\ child.state = "running"
    /\ child.reads => child.eof
    /\ ~child.loud
    /\ child' = [child EXCEPT !.state = "exited"]
    /\ UNCHANGED <<pc, i, commands, input, result, abort, atStart, late, heard>>

\* The last descendant that holds the pipes exits.
DescendantExits ==
    /\ child # NoChild
    /\ child.forks
    /\ child' = [child EXCEPT !.forks = FALSE]
    /\ UNCHANGED <<pc, i, commands, input, result, abort, atStart, late, heard>>

CtrlC ==
    /\ ~abort
    /\ pc # "done"
    /\ abort' = TRUE
    /\ UNCHANGED <<pc, i, commands, input, child, result, atStart, late, heard>>

Done == pc = "done" /\ UNCHANGED vars

RunnerStep == Start \/ Spawn \/ WritePayload \/ Poll \/ Collect \/ Reap

Next == RunnerStep \/ ChildExits \/ DescendantExits \/ CtrlC \/ Done

Spec == Init /\ [][Next]_vars

\* The thread of the runner keeps running; nothing is asked of the children.
FairRunner == Spec /\ WF_vars(RunnerStep)
\* Children and their descendants that can exit do.
FairSpec == FairRunner /\ WF_vars(ChildExits) /\ WF_vars(DescendantExits)

-----------------------------------------------------------------------------
\* The type invariant.
TypeOK ==
    /\ pc \in {"start", "spawn", "write", "poll", "collect", "reap", "done"}
    /\ commands \in 0..MaxCommands /\ i \in 1..(MaxCommands + 1) /\ input \in Input
    /\ child \in {NoChild} \cup [state : {"running", "exited", "killed"}, reads : BOOLEAN,
                                 loud : BOOLEAN, forks : BOOLEAN, eof : BOOLEAN]
    /\ result \in [denied : BOOLEAN, failed : BOOLEAN, cancelled : BOOLEAN,
                   messages : Seq(Nat), override : PermissionOverride,
                   updated : Input \cup {NoInput}]
    /\ abort \in BOOLEAN /\ atStart \in BOOLEAN /\ late \in Nat
    /\ heard \in Seq([verdict : {"allow", "deny", "failed"}, out : ParsedOutput])

Refused(r) == r.denied \/ r.failed \/ r.cancelled

\* How run_turn reads the result, in its order.
Answered ==
    [verdict |-> IF result.cancelled THEN "cancelled" ELSE IF result.failed THEN "failed"
                 ELSE IF result.denied THEN "denied" ELSE "allow",
     updated |-> IF result.updated = NoInput THEN input ELSE result.updated,
     override |-> result.override]

\* The run as a whole keeps the contract the turn relies on: a signal that was
\* up before the run cancels it without running anything, one that comes during
\* it cancels or comes too late, and without a signal nothing is cancelled.
KeepsContract ==
    pc = "done" =>
       \/ Answered \in HookAnswers(input, commands > 0, atStart)
       \/ commands > 0 /\ abort /\ ~atStart /\ Answered.verdict = "cancelled"

\* An approval is the approval of every configured command, and what the tool
\* gets and how it is decided is the last word any of them said on it.
LastWord(f, none) ==
    LET said == {k \in 1..Len(heard) : heard[k].out[f] # none}
    IN  IF said = {} THEN none
        ELSE heard[CHOOSE k \in said : \A l \in said : l <= k].out[f]
ApprovedByAll ==
    pc = "done" /\ ~Refused(result) =>
       /\ Len(heard) = commands
       /\ \A k \in 1..Len(heard) : heard[k].verdict = "allow" /\ ~heard[k].out.deny
       /\ result.updated = LastWord("updated", NoInput)
       /\ result.override = LastWord("override", "None")

\* After a refusal no further command runs, and the refusal is explained by a
\* message of the command that gave it.
RefusalIsLastWord ==
    /\ \A k \in 1..Len(heard) : heard[k].verdict # "allow" => k = Len(heard) /\ pc = "done"
    /\ pc = "done" /\ Refused(result) => result.messages # <<>>

\* A command started after Ctrl-C is the last one, and never lets the tool run.
AbortCancels ==
    /\ late <= 1
    /\ pc = "done" /\ late > 0 => Refused(result)

\* After Ctrl-C the run ends, however long the hook would take.
AbortEnds == abort ~> pc = "done"

\* A run of hooks keeps the contract the turn relies on, and approves only what every
\* command approved; a refusal and Ctrl-C end it, with a reason.
HooksKeepWord == TypeOK /\ KeepsContract /\ ApprovedByAll /\ RefusalIsLastWord /\ AbortCancels
=============================================================================
