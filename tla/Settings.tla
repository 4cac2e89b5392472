-------------------------------- MODULE Settings --------------------------------
(***************************************************************************)
(* The five settings files: how ConfigLoader of config.rs (with            *)
(* config_validate.rs) reads and merges them, what the command line makes  *)
(* of that when it starts (rusty-claude-cli/src/main.rs), and the tools    *)
(* that write two of them, Config, EnterPlanMode and ExitPlanMode          *)
(* (tools/src/lib.rs).  A file is rewritten in place, so that a failure or *)
(* a crash in the middle leaves it torn or empty.  Objects in a file are   *)
(* flattened: a key stands for its path.                                   *)
(***************************************************************************)
EXTENDS Integers, Sequences, TLC

CONSTANTS
    GivenFile,      \* [1..5 -> contents each file may have at the start]
    ConfigCall,     \* <<setting, value>> pairs Config is called with
    UserMode,       \* default modes the user writes into the local file
    MaxUserEdits    \* bound: edits of the user

VARIABLES
    file,       \* [1..5 -> FileState], from the weakest to the strongest
    planState,  \* plan-mode.json: the same, with the keys "had" and "previous"
    op,         \* the files the running tool call has still to write
    origin,     \* history: the default mode that was set last other than by plan mode
    cut,        \* history: whether writing the local file was ever cut short
    edits

settingsVars == <<file, planState, op, origin, cut, edits>>

Entry == 1..5   \* discover: ~/.claw.json, ~/.claw/settings.json, .claw.json, .claw/settings.json, .claw/settings.local.json
Source(i) == IF i <= 2 THEN "user" ELSE IF i <= 4 THEN "project" ELSE "local"
Legacy == {1, 3}
Global == 2
Local == 5

\* A key the file does not have, and a default mode nobody has set.
Unset == "unset"
Keys(k) == [status |-> "ok", key |-> k]
Empty == Keys(<<>>)             \* also a file of no bytes
Missing == [status |-> "missing", key |-> <<>>]
Torn == [status |-> "torn", key |-> <<>>]
ValueOf(k, name) == IF name \in DOMAIN k THEN k[name] ELSE Unset
DefaultMode == "permissions.defaultMode"

SettingsInit ==
    /\ file \in [Entry -> UNION {GivenFile[i] : i \in Entry}]
    /\ \A i \in Entry : file[i] \in GivenFile[i]
    /\ planState = Missing /\ op = <<>> /\ cut = FALSE /\ edits = 0
    /\ origin = ValueOf(file[Local].key, DefaultMode)
-----------------------------------------------------------------------------
(* Loading.                                                                *)

\* JSON values are strings here; "#" marks what is no string in the file.
KindOf(v) == IF v \in {"#true", "#false"} THEN "bool" ELSE IF v = "#7" THEN "number" ELSE "string"
StringKeys == {"$schema", "model", "permissionMode", DefaultMode}
BoolKeys == {"sandbox.enabled"}
ObjectKeys == {"mcpServers.x", "aliases.x"}
\* validate_config_file: what a file may hold.  Any other key is an error.
Valid(k) == \A name \in DOMAIN k : \/ name \in StringKeys /\ KindOf(k[name]) = "string"
                                   \/ name \in BoolKeys /\ KindOf(k[name]) = "bool"
                                   \/ name \in ObjectKeys
FileLoads(i) == file[i].status = "ok" /\ Valid(file[i].key)
\* read_optional_json_object: a legacy file that is no object counts as missing.
Skipped(i) == file[i].status = "missing" \/ (i \in Legacy /\ file[i].status = "torn")

\* Mutant: what is there stays.
MergeKeysKept(target, source) == target @@ source
\* deep_merge_objects.
MergeKeys(target, source) ==
    [name \in DOMAIN source \cup DOMAIN target |-> IF name \in DOMAIN source THEN source[name] ELSE target[name]]
\* load: the settings of the files so far and those of the next; merge_mcp_servers keeps
\* the last definition of a server, with its source.
NoSettings == [ok |-> TRUE, key |-> <<>>, scope |-> Unset]
AddFile(acc, i) ==
    IF ~acc.ok \/ Skipped(i) THEN acc
    ELSE IF ~FileLoads(i) THEN [acc EXCEPT !.ok = FALSE]
    ELSE [ok |-> TRUE, key |-> MergeKeys(acc.key, file[i].key),
          scope |-> IF "mcpServers.x" \in DOMAIN file[i].key THEN Source(i) ELSE acc.scope]
Load ==
    LET user == AddFile(AddFile(NoSettings, 1), 2)
        project == AddFile(AddFile(user, 3), 4)
    IN  AddFile(project, 5)

PermissionModeLabel(label) ==
    CASE label \in {"default", "plan", "read-only"} -> "ReadOnly"
      [] label \in {"acceptEdits", "auto", "workspace-write"} -> "WorkspaceWrite"
      [] label \in {"dontAsk", "danger-full-access"} -> "DangerFullAccess"
      [] OTHER -> "unsupported"
\* parse_optional_permission_mode: the flat key wins, whichever file it is in.
ConfiguredMode(k) ==
    IF ValueOf(k, "permissionMode") # Unset THEN PermissionModeLabel(k["permissionMode"])
    ELSE IF ValueOf(k, DefaultMode) # Unset THEN PermissionModeLabel(k[DefaultMode]) ELSE Unset
RuntimeConfig ==
    LET loaded == Load
    IN  IF loaded.ok /\ ConfiguredMode(loaded.key) # "unsupported"
        THEN loaded ELSE [ok |-> FALSE, key |-> <<>>, scope |-> Unset]
\* default_permission_mode without the environment variable.
StartMode(config) == LET m == ConfiguredMode(config.key) IN IF m = Unset THEN "DangerFullAccess" ELSE m
\* resolve_repl_model without --model and ANTHROPIC_MODEL.
StartModel(config) ==
    LET m == ValueOf(config.key, "model")
    IN  IF m = "x" /\ ValueOf(config.key, "aliases.x") # Unset THEN config.key["aliases.x"] ELSE m
-----------------------------------------------------------------------------
(* The tools.  A call reads first, decides, and then writes file by file.  *)

Write(target, content) == [target |-> target, content |-> content, origin |-> origin]
Setting(k, name, v) == Keys([n \in DOMAIN k \cup {name} |-> IF n = name THEN v ELSE k[n]])
Unsetting(k, name) == Keys([n \in DOMAIN k \ {name} |-> k[n]])
\* read_json_object: a missing file is an empty object, a torn one an error.
Reads(f) == f.status # "torn"

GlobalSettings == {"theme", "editorMode", "verbose", "preferredNotifChannel", "autoCompactEnabled",
                   "fileCheckpointingEnabled", "showTurnDuration", "terminalProgressBarEnabled",
                   "todoFeatureEnabled", "teammateMode"}
LocalSettings == {"autoMemoryEnabled", "autoDreamEnabled", "model", "alwaysThinkingEnabled",
                  DefaultMode, "language"}
BooleanSettings == {"verbose", "autoCompactEnabled", "autoMemoryEnabled", "autoDreamEnabled",
                    "fileCheckpointingEnabled", "showTurnDuration", "terminalProgressBarEnabled",
                    "todoFeatureEnabled", "alwaysThinkingEnabled"}
Options(setting) ==
    CASE setting = "editorMode" -> {"default", "vim", "emacs"}
      [] setting = DefaultMode -> {"default", "plan", "acceptEdits", "dontAsk", "auto"}
      [] setting = "teammateMode" -> {"tmux", "in-process", "auto"}
      [] OTHER -> {}
\* normalize_config_value: "invalid" or the value that is written.
NormalizeConfigValue(setting, v) ==
    LET n == IF setting \in BooleanSettings
             THEN CASE v \in {"#true", "true"} -> "#true" [] v \in {"#false", "false"} -> "#false"
                    [] OTHER -> "invalid"
             ELSE CASE v = "#true" -> "true" [] v = "#false" -> "false" [] OTHER -> v
    IN  IF Options(setting) # {} /\ n \notin Options(setting) THEN "invalid" ELSE n

Config(setting, v) ==
    LET target == IF setting \in GlobalSettings THEN Global ELSE Local
        n == NormalizeConfigValue(setting, v)
    IN  /\ op = <<>>
        /\ setting \in GlobalSettings \cup LocalSettings
        /\ Reads(file[target]) /\ n # "invalid"
        /\ op' = <<[Write(target, Setting(file[target].key, setting, n)) EXCEPT
                      !.origin = IF setting = DefaultMode THEN n ELSE origin]>>
        /\ UNCHANGED <<file, planState, origin, cut, edits>>

PlanFile == 0
StateExists == planState.status = "ok" /\ planState.key # <<>>
LocalMode == ValueOf(file[Local].key, DefaultMode)
SavedMode == [had |-> LocalMode # Unset, previous |-> LocalMode]
\* What a call of EnterPlanMode writes: an override of its own that is no more in
\* force is cleared first, and the state is on disk before the mode is changed.
EnterWrites ==
    LET clear == IF StateExists THEN <<Write(PlanFile, Missing)>> ELSE <<>>
    IN  IF LocalMode = "plan" THEN <<>>
        ELSE clear \o <<Write(PlanFile, Keys(SavedMode)),
                        Write(Local, Setting(file[Local].key, DefaultMode, "plan"))>>
ExitWrites ==
    IF ~StateExists THEN <<>>
    ELSE IF LocalMode # "plan" THEN <<Write(PlanFile, Missing)>>
    ELSE << Write(Local, IF planState.key["had"] THEN Setting(file[Local].key, DefaultMode, planState.key["previous"])
                         ELSE Unsetting(file[Local].key, DefaultMode)),
            Write(PlanFile, Missing) >>
PlanMode(writes) ==
    /\ op = <<>> /\ Reads(file[Local]) /\ Reads(planState) /\ writes # <<>>
    /\ op' = writes
    /\ UNCHANGED <<file, planState, origin, cut, edits>>
EnterPlanMode == PlanMode(EnterWrites)
ExitPlanMode == PlanMode(ExitWrites)

Becomes(target, content) ==
    IF target = PlanFile THEN planState' = content /\ UNCHANGED file
    ELSE file' = [file EXCEPT ![target] = content] /\ UNCHANGED planState
WriteFile ==
    /\ op # <<>>
    /\ Becomes(Head(op).target, Head(op).content)
    /\ op' = Tail(op) /\ origin' = Head(op).origin
    /\ UNCHANGED <<cut, edits>>
\* A write that fails or that the end of the program cuts short ends the call.
WriteFails ==
    /\ op # <<>>
    /\ op' = <<>>
    /\ \/ UNCHANGED <<file, planState, cut>>
       \/ /\ Head(op).content # Missing
          /\ \E left \in {Torn, Empty} : Becomes(Head(op).target, left)
          /\ cut' = (cut \/ Head(op).target = Local)
    /\ UNCHANGED <<origin, edits>>

\* The user edits the local file, also to repair it.
UserEdits(m) ==
    /\ op = <<>> /\ edits < MaxUserEdits
    /\ file' = [file EXCEPT ![Local] = IF m = Unset THEN Unsetting(@.key, DefaultMode)
                                       ELSE Setting(@.key, DefaultMode, m)]
    /\ origin' = m /\ cut' = FALSE /\ edits' = edits + 1
    /\ UNCHANGED <<planState, op>>

SettingsNext ==
    \/ \E call \in ConfigCall : Config(call[1], call[2])
    \/ EnterPlanMode \/ ExitPlanMode \/ WriteFile \/ WriteFails
    \/ \E m \in UserMode : UserEdits(m)
SettingsSpec == SettingsInit /\ [][SettingsNext]_settingsVars
-----------------------------------------------------------------------------
\* Plan mode gives back what it took: unless a write of the settings was cut short,
\* the local default mode is the one that was chosen last other than by the plan
\* mode tools, or it is "plan" and the saved state says which mode that was;
\* whatever is edited between the calls and wherever a call breaks off.  (Somebody
\* who chose "plan" by hand over an override is given the older mode: not promised.)
PlanModeRestores ==
    op = <<>> /\ ~cut /\ Reads(file[Local]) /\ origin # "plan" =>
        \/ LocalMode = origin
        \/ LocalMode = "plan" /\ StateExists /\ planState.key["previous"] = origin
\* Each setting comes from the strongest file that has it, an MCP server whole
\* and with the source of that file; and one flat permissionMode, in whatever
\* file, is stronger than every permissions.defaultMode.
ConfigPrecedence ==
    LET config == RuntimeConfig
        Has(i, name) == ~Skipped(i) /\ name \in DOMAIN file[i].key
        Strongest(name) == {i \in Entry : Has(i, name) /\ \A j \in Entry : Has(j, name) => j <= i}
        Of(name) == IF Strongest(name) = {} THEN Unset
                    ELSE file[CHOOSE i \in Strongest(name) : TRUE].key[name]
        Label == IF Of("permissionMode") # Unset THEN Of("permissionMode") ELSE Of(DefaultMode)
    IN  config.ok =>
          /\ StartMode(config) = IF Label = Unset THEN "DangerFullAccess" ELSE PermissionModeLabel(Label)
          /\ config.scope = IF Strongest("mcpServers.x") = {} THEN Unset
                            ELSE Source(CHOOSE i \in Strongest("mcpServers.x") : TRUE)
          /\ ValueOf(config.key, "mcpServers.x") = Of("mcpServers.x")
          /\ StartModel(config) = IF Of("model") = "x" /\ Of("aliases.x") # Unset THEN Of("aliases.x") ELSE Of("model")
\* Settings mean what the user wrote, and plan mode gives them back.
SettingsHold == ConfigPrecedence /\ PlanModeRestores
=============================================================================
