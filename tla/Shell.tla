---------------------------------- MODULE Shell ----------------------------------
(***************************************************************************)
(* The tools that start a program and wait for it: bash                    *)
(* (src/rust/crates/runtime/src/bash.rs), PowerShell and REPL              *)
(* (src/rust/crates/tools/src/lib.rs).  bash reads the output while it     *)
(* waits, and on a timeout leaves the program running.  The other two,     *)
(* given a timeout, look every 10 ms whether the program is over and read  *)
(* its output only then; on a timeout they kill it and read what there is. *)
(* Output is read to its end, so whoever else holds the pipe is waited     *)
(* for: programs the program left behind.                                  *)
(***************************************************************************)
EXTENDS Integers

CONSTANTS
    Pipe,       \* the output a pipe takes before its writer has to wait
    MaxOutput   \* bound: output of a program

ASSUME ShellAssumption == Pipe \in Nat \ {0} /\ MaxOutput \in Nat

\* A call; how the program behaves: the output it has, whether it ends by itself, whether
\* it leaves a program behind and whether that one ends by itself.
Call == [tool : {"bash", "PowerShell", "REPL"}, timeout : BOOLEAN, background : BOOLEAN,
         output : 0..MaxOutput, ends : BOOLEAN, leaves : {"none", "ends", "stays"}]

VARIABLES
    call,       \* the call the tool is given
    step,       \* where the tool is
    program,    \* "none", "runs", "over" or "killed"
    left,       \* output the program has still to write
    pipe, told, \* output in the pipe, and read from it
    heir,       \* whether a program it left behind holds the pipe
    answer      \* what the model is told

shellVars == <<call, step, program, left, pipe, told, heir, answer>>

\* REPL has no background, and in the background a timeout is of no account.
ShellInit ==
    /\ call \in {c \in Call : c.background => c.tool # "REPL" /\ ~c.timeout}
    /\ step = "start" /\ program = "none" /\ left = 0 /\ pipe = 0 /\ told = 0
    /\ heir = FALSE /\ answer = "none"
-----------------------------------------------------------------------------
\* execute_bash, execute_shell_command, execute_repl: the program is started; in the
\* background nobody waits for it or reads it.
StartProgram ==
    /\ step = "start" /\ program' = "runs" /\ left' = call.output
    /\ IF call.background THEN step' = "done" /\ answer' = "started"
       ELSE /\ step' = IF call.timeout /\ call.tool # "bash" THEN "poll" ELSE "read"
            /\ UNCHANGED answer
    /\ UNCHANGED <<call, pipe, told, heir>>

\* The program writes: to nowhere in the background, into the pipe as long as it has a
\* reader and room, and into a pipe without a reader, which may end it.
Writes ==
    /\ program = "runs" /\ left > 0 /\ left' = left - 1
    /\ \/ call.background /\ UNCHANGED <<program, pipe>>
       \/ step # "done" /\ pipe < Pipe /\ pipe' = pipe + 1 /\ UNCHANGED program
       \/ step = "done" /\ ~call.background /\ program' \in {"runs", "killed"} /\ UNCHANGED pipe
    /\ UNCHANGED <<call, step, told, heir, answer>>
LeavesBehind ==
    /\ program = "runs" /\ call.leaves # "none" /\ ~heir /\ heir' = TRUE
    /\ UNCHANGED <<call, step, program, left, pipe, told, answer>>
Exits ==
    /\ program = "runs" /\ left = 0 /\ call.ends /\ (call.leaves # "none" => heir)
    /\ program' = "over"
    /\ UNCHANGED <<call, step, left, pipe, told, heir, answer>>
HeirEnds ==
    /\ heir /\ call.leaves = "ends" /\ program # "runs" /\ heir' = FALSE
    /\ UNCHANGED <<call, step, program, left, pipe, told, answer>>

\* output and wait_with_output read while they wait.
Drain ==
    /\ step \in {"read", "readKilled"} /\ pipe > 0
    /\ pipe' = pipe - 1 /\ told' = told + 1
    /\ UNCHANGED <<call, step, program, left, heir, answer>>
\* Mutant: a program that is over has nothing more to say.
OverAtOnce == program \in {"over", "killed"}
\* Nobody holds the pipe any more, and the program is over.
Over == program \in {"over", "killed"} /\ pipe = 0 /\ ~heir
Tells(text) == step' = "done" /\ answer' = text
ReadToEnd ==
    /\ Over
    /\ \/ step = "read" /\ Tells("exit")
       \/ step = "readKilled" /\ Tells("timeout")
    /\ UNCHANGED <<call, program, left, pipe, told, heir>>

\* try_wait of the program itself.
TryWait ==
    /\ step = "poll" /\ program = "over" /\ step' = "read"
    /\ UNCHANGED <<call, program, left, pipe, told, heir, answer>>
\* The time is up: kill, which may come after the program's own end.
Kill ==
    /\ step = "poll" /\ step' = "readKilled"
    /\ program' = IF program = "runs" THEN "killed" ELSE program
    /\ UNCHANGED <<call, left, pipe, told, heir, answer>>
\* The time is up while tokio reads: the output is dropped, and the program goes on
\* without a reader.
GiveUp ==
    /\ step = "read" /\ call.tool = "bash" /\ call.timeout
    /\ Tells("timeout")
    /\ UNCHANGED <<call, program, left, pipe, told, heir>>

ToolStep == StartProgram \/ Drain \/ ReadToEnd \/ TryWait \/ Kill \/ GiveUp
ProgramStep == Writes \/ LeavesBehind \/ Exits \/ HeirEnds
ShellNext == ToolStep \/ ProgramStep
ShellSpec == ShellInit /\ [][ShellNext]_shellVars
-----------------------------------------------------------------------------
\* An exit is told of a program that is over, after all it wrote was collected, also by
\* what it left behind (of each of bash's streams the first 16384 bytes are then told,
\* src/rust/crates/runtime/src/bash.rs:289); a timeout only of a call that had one, and by PowerShell and REPL only once
\* the program is dead.  After bash's timeout it may run on.
ShellTold ==
    /\ answer = "exit" => program = "over" /\ left = 0 /\ pipe = 0 /\ told = call.output
    /\ answer = "timeout" => call.timeout /\ (call.tool # "bash" => program # "runs" /\ pipe = 0)
    /\ answer = "started" => call.background

\* What a call may count on to come to its end: bash its timeout alone; the others also
\* that what the program left behind ends, since its output is read to the end.
Ending ==
    \/ call.background
    \/ call.timeout /\ call.tool = "bash"
    \/ call.timeout /\ call.leaves # "stays"
    \/ call.ends /\ call.leaves # "stays"
=============================================================================
