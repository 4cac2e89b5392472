--------------------------- MODULE RuntimeLifecycle ---------------------------
(***************************************************************************)
(* The runtime of a REPL (src/rust/crates/rusty-claude-cli/src/main.rs,    *)
(* BuiltRuntime): every turn and every change of plugins builds another    *)
(* one - discovers the plugins on disk and runs their Init commands - and  *)
(* replaces the live one, whose Shutdown commands run then.  `/plugins`    *)
(* commands of other REPLs change the disk meanwhile (PluginManager).      *)
(***************************************************************************)
EXTENDS PluginManager

CONSTANTS
    Repl,       \* the REPL, one of Proc
    OtherKind,  \* bound: the commands the other REPLs are given
    MaxTurns,   \* bound: turns and starts
    MaxFaults   \* bound: failures and crashes that come from outside

ASSUME ReplAssumption == Repl \in Proc /\ OtherKind \subseteq CommandKind
ASSUME LifecycleBounds == MaxTurns \in Nat /\ MaxFaults \in Nat

VARIABLES
    phase,    \* where the REPL is
    why,      \* what it builds a runtime for: "start", "turn" or "reload"
    live,     \* the runtime in place
    next,     \* the runtime built
    up,       \* [Plugin -> runs of Init minus runs of Shutdown]
    turns, faults,
    \* History:
    promised,    \* [Plugin -> the version the last command installed, or 0]
    alone,    \* nobody changed the disk since the REPL's build began
    excused,  \* a command of a plugin failed, or a process died
    shared,   \* the processes at work while another one was
    hurt      \* the bundled plugins one of them left as a part

overlap == <<shared, hurt>>
rtVars == <<phase, why, live, next, up, turns, faults, promised, alone, excused, overlap>>
runtimeVars == <<pmVars, rtVars>>

\* set: the enabled plugins its registry holds, with their versions.
NoRuntime == [on |-> FALSE, set |-> {}, ver |-> NoRecord, active |-> FALSE]

RuntimeInit ==
    /\ PmInit
    /\ phase = "off" /\ why = "start"
    /\ live = NoRuntime /\ next = NoRuntime
    /\ up = [p \in Plugin |-> 0]
    /\ turns = 0 /\ faults = 0
    /\ promised = NoRecord /\ alone = FALSE /\ excused = FALSE
    /\ shared = {} /\ hurt = {}

\* is_enabled: the setting the configuration was loaded with; the default is
\* off for an external plugin, and in the manifest of a bundled one.
Enabled(set) == {p \in Found : set[p] = "on"}

Fault == faults < MaxFaults /\ faults' = faults + 1
NoFault == UNCHANGED <<faults, excused>>

\* run_lifecycle_commands of each plugin of S, in order: it stops at the first
\* that fails, which every plugin whose directory is gone does.
RunInits(S, ok) ==
    \E done \in SUBSET S :
        /\ ok <=> done = S
        /\ done \subseteq Found
        /\ up' = [p \in Plugin |-> IF p \in done THEN up[p] + 1 ELSE up[p]]
RunShutdowns(S, ok) ==
    \E done \in SUBSET S :
        /\ ok <=> done = S
        /\ \A p \in done : dir[p] # None
        /\ up' = [p \in Plugin |-> IF p \in done THEN up[p] - 1 ELSE up[p]]
\* Whether commands fail for a reason other than a directory that is gone.
Failing(S, ok) ==
    /\ excused' = (excused \/ ~ok)
    /\ IF ok \/ \E p \in S : ~Whole(p) THEN UNCHANGED faults ELSE Fault

\* History: c begins, and ends, its work on the disk.
Busy == {c \in Proc : doing[c] # NoOp}
Joins(c) == shared' = (IF Busy = {} THEN {} ELSE shared \cup Busy \cup {c}) /\ UNCHANGED hurt
Leaves(c) == shared' = shared \ {c} /\ UNCHANGED hurt
\* The one that leaves the directory of its plugin decides how it is left.
InDir(o) == o.pc \in {"removing", "copy", "copying"}
Leaving(c) ==
    LET o == doing[c]
    IN  hurt' = IF ~InDir(o) \/ InDir(doing'[c]) \/ o.t \notin Bundled THEN hurt
                ELSE IF dir'[o.t] = o.v THEN hurt \ {o.t}
                ELSE IF c \in shared THEN hurt \cup {o.t} ELSE hurt

-----------------------------------------------------------------------------
\* run_repl and LiveCli::new, run_turn, and reload_runtime_features after a
\* plugin command: build_runtime.
Build(from, reason) ==
    /\ phase = from /\ doing[Repl] = NoOp
    /\ BeginBuild(Repl)
    /\ phase' = "build" /\ why' = reason
    /\ alone' = (Busy = {}) /\ Joins(Repl)
Start == /\ turns < MaxTurns /\ turns' = turns + 1
         /\ Build("off", "start") /\ NoFault
         /\ UNCHANGED <<live, next, up, promised>>
Turn == /\ turns < MaxTurns /\ turns' = turns + 1
        /\ Build("idle", "turn") /\ NoFault
        /\ UNCHANGED <<live, next, up, promised>>

\* `/plugins <action>`, handle_plugins_command.
Command == /\ phase = "idle"
           /\ \E k \in CommandKind, p \in Plugin : Begin(Repl, k, p)
           /\ phase' = "command" /\ Joins(Repl)
           /\ UNCHANGED <<why, live, next, up, turns, faults, promised, alone, excused>>
\* `/plugins <action>` in the REPL of another process, of which only the disk matters here.
OtherCommand(c) ==
    /\ c # Repl
    /\ \E k \in OtherKind, p \in Plugin : Begin(c, k, p)
    /\ alone' = FALSE /\ Joins(c)
    /\ UNCHANGED <<phase, why, live, next, up, turns, faults, promised, excused>>

\* What a completed command promises, until another one names the plugin.
Promise(c) ==
    LET o == doing[c]
    IN  promised' = [p \in Plugin |->
            IF p # o.p \/ o.kind \notin {"install", "update"} THEN promised[p]
            ELSE IF o.ok /\ ~o.rival THEN source[p] ELSE 0]
Forget(c) == promised' = [p \in Plugin |-> IF Names(c, p) THEN 0 ELSE promised[p]]
Step(c) ==
    /\ OpStep(c)
    /\ IF doing[c].pc = "load" THEN Forget(c) ELSE UNCHANGED promised
    /\ Leaving(c) /\ UNCHANGED shared
    /\ UNCHANGED <<phase, why, live, next, up, turns, faults, alone, excused>>

EndOther(c) ==
    LET o == doing[c]
    IN  /\ c # Repl /\ o.pc = "done"
        /\ Becomes(c, NoOp) /\ Leaves(c)
        /\ Promise(c)
        /\ UNCHANGED <<disk, source, ops, news>>
        /\ UNCHANGED <<phase, why, live, next, up, turns, faults, alone, excused>>

\* The command of the REPL returns: it reloads the runtime (which is the next
\* Build), or the error ends the REPL.
EndCommand ==
    LET o == doing[Repl]
    IN  /\ phase = "command" /\ o.pc = "done"
        /\ Becomes(Repl, NoOp) /\ Leaves(Repl)
        /\ Promise(Repl)
        /\ phase' = IF o.ok THEN "reload" ELSE "leaving"
        /\ UNCHANGED <<disk, source, ops, news>>
        /\ UNCHANGED <<why, live, next, up, turns, faults, alone, excused>>
Reload == /\ Build("reload", "reload") /\ NoFault
          /\ UNCHANGED <<live, next, up, turns, promised>>

\* build_runtime_with_plugin_state: initialize runs the Init commands; if it or
\* what follows fails, the plugins it has initialised are not shut down.
BuildEnds ==
    LET o == doing[Repl]
        S == Enabled(o.set)
    IN  /\ phase = "build" /\ o.pc = "done"
        /\ Becomes(Repl, NoOp) /\ Leaves(Repl)
        /\ \/ /\ o.ok /\ RunInits(S, TRUE) /\ NoFault
              /\ next' = [on |-> TRUE, set |-> S, ver |-> [p \in Plugin |-> IF p \in S THEN dir[p] ELSE 0],
                        active |-> TRUE]
              /\ phase' = "built"
           \/ /\ o.ok
              /\ \E ok \in BOOLEAN :
                    /\ RunInits(S, ok)
                    /\ IF ~ok /\ \E p \in S : ~Whole(p) THEN UNCHANGED faults ELSE Fault
              /\ excused' = TRUE
              /\ UNCHANGED next /\ phase' = "leaving"
           \/ /\ ~o.ok /\ UNCHANGED <<next, up>> /\ NoFault
              /\ phase' = "leaving"
        /\ UNCHANGED <<disk, source, ops, news>>
        /\ UNCHANGED <<why, live, turns, promised, alone>>

\* BuiltRuntime::shutdown_plugins of r: a failure leaves it active.
Shutdown(r, ok) ==
    IF r.active THEN RunShutdowns(r.set, ok) /\ Failing(r.set, ok)
                ELSE ok /\ UNCHANGED <<up, faults, excused>>

\* The turn succeeds, or none is taken: replace_runtime.  If the old runtime's plugins fail to shut down, the new
\* runtime is dropped and the error ends the REPL.
Replace ==
    /\ phase = "built"
    /\ \E ok \in BOOLEAN :
          /\ Shutdown(live, ok)
          /\ IF ok THEN live' = next /\ next' = NoRuntime /\ phase' = "idle"
                   ELSE phase' = "leaving" /\ UNCHANGED <<live, next>>
    /\ why' = "start"
    /\ UNCHANGED <<pmVars, turns, promised, alone, overlap>>

\* The turn fails: shutdown_plugins()?, then the error, which ends
\* the REPL: the built runtime is dropped.
TurnFails ==
    /\ phase = "built" /\ why = "turn"
    /\ \E ok \in BOOLEAN :
          /\ Shutdown(next, ok)
          /\ next' = [next EXCEPT !.active = ~ok]
    /\ phase' = "leaving" /\ why' = "start"
    /\ UNCHANGED <<pmVars, live, turns, promised, alone, overlap>>
\* /exit.
Quit == /\ phase = "idle" /\ phase' = "leaving" /\ NoFault
        /\ UNCHANGED <<pmVars, why, live, next, up, turns, promised, alone, overlap>>
\* Drop of the built, then of the live runtime: shutdown_plugins again if it
\* failed before, from the start, with its error ignored.
DropNext ==
    /\ phase = "leaving" /\ next.on
    /\ \E ok \in BOOLEAN : Shutdown(next, ok)
    /\ next' = NoRuntime
    /\ UNCHANGED <<pmVars, phase, why, live, turns, promised, alone, overlap>>
DropLive ==
    /\ phase = "leaving" /\ ~next.on
    /\ \E ok \in BOOLEAN : Shutdown(live, ok)
    /\ live' = NoRuntime /\ phase' = "off" /\ why' = "start" /\ alone' = FALSE
    /\ UNCHANGED <<pmVars, next, turns, promised, overlap>>

\* A process dies: no Drop runs.
Crash(c) ==
    /\ doing[c] # NoOp \/ (c = Repl /\ phase # "off")
    /\ Fault /\ excused' = TRUE
    /\ Stop(c) /\ shared' = shared \ {c} /\ Leaving(c)
    /\ IF c = Repl THEN phase' = "off" /\ live' = NoRuntime /\ next' = NoRuntime
                                /\ why' = "start"
                   ELSE UNCHANGED <<phase, live, next, why>>
    /\ alone' = (alone /\ c # Repl)
    /\ UNCHANGED <<up, turns, promised>>

Outside ==
    /\ (\E p \in Plugin : Publish(p)) \/ (\E f \in File : RemoveFile(f))
    /\ alone' = FALSE
    /\ UNCHANGED <<phase, why, live, next, up, turns, faults, promised, excused, overlap>>

RuntimeNext ==
    \/ Start \/ Turn \/ Command \/ EndCommand \/ Reload \/ BuildEnds
    \/ Replace \/ TurnFails \/ Quit \/ DropNext \/ DropLive
    \/ Outside
    \/ \E c \in Proc : OtherCommand(c) \/ Step(c) \/ EndOther(c) \/ Crash(c)
RuntimeSpec == RuntimeInit /\ [][RuntimeNext]_runtimeVars

-----------------------------------------------------------------------------
\* What `plugins install` and `plugins update` acknowledged stays on disk whole,
\* in that version, whatever other processes sync, prune, install or lose.
InstalledWhole == \A p \in External : promised[p] # 0 => dir[p] = promised[p]

\* A REPL that found its plugins alone runs with what is on disk: the enabled
\* plugins, in their present versions, are those it initialised, and the bundled
\* plugins are the shipped ones, whatever earlier crashes left behind - unless two
\* processes were at work at once, and one of them left a part of a plugin: if that
\* loads, and the other one's record of it is stored, nothing ever completes it.
RuntimeIsDisk ==
    phase = "idle" /\ alone =>
        /\ \A b \in Bundled : source[b] # 0 => \/ dir[b] = source[b]
                                               \/ b \in hurt /\ dir[b] = Half(source[b])
        /\ live.set = Enabled(setting)
        /\ \A p \in live.set : live.ver[p] = dir[p]

\* Init and Shutdown commands pair up: unless one failed or a process died, the
\* plugins that are up are those of the live runtime, once each, and none once
\* the REPL has ended - though a turn starts the new runtime's plugins before
\* the old one's are shut down.
LifecyclePaired ==
    ~excused => /\ phase = "idle" =>
                      \A p \in Plugin : up[p] = IF p \in live.set THEN 1 ELSE 0
                /\ phase = "off" => \A p \in Plugin : up[p] = 0

\* What the plugin commands acknowledged and what the REPL runs with is what is on disk,
\* and a plugin that was initialised is shut down once, by the runtime that did it.
PluginsAreDisk == InstalledWhole /\ RuntimeIsDisk /\ LifecyclePaired
=============================================================================
