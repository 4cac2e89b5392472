---------------------------- MODULE PluginManager ----------------------------
(***************************************************************************)
(* PluginManager (src/rust/crates/plugins/src/lib.rs): what installing,    *)
(* updating, uninstalling, enabling and discovering plugins does to the    *)
(* install directory, to installed.json and to settings.json, one I/O call *)
(* at a time.  Neither file is written atomically and nothing is locked.   *)
(*                                                                         *)
(* A plugin's directory is absent, a part without a manifest, a part whose *)
(* manifest does not parse or names files that are missing, a part that    *)
(* loads all the same - no more than the manifest and what it names is     *)
(* looked at - or a whole version.                                         *)
(***************************************************************************)
EXTENDS Integers, FiniteSets

CONSTANTS
    External, Bundled,  \* plugin ids
    Proc,               \* processes that run plugin commands
    MaxVersion,         \* bound: versions of a plugin
    MaxOps,             \* bound: plugin commands given to each process
    MaxNews             \* bound: versions published

ASSUME PluginAssumption == External \cap Bundled = {} /\ "none" \notin External \cup Bundled
ASSUME PluginBounds == MaxVersion \in Nat \ {0} /\ MaxOps \in Nat /\ MaxNews \in Nat

Plugin == External \cup Bundled
Version == 1..MaxVersion
\* What install_root may hold for a plugin, but for a version.
None == 0
Partial == -1
Broken == -2
Half(v) == MaxVersion + v
\* The version of a directory that loads, and what is there of it while it is
\* copied or removed.
Shows(d) == IF d > MaxVersion THEN d - MaxVersion ELSE d
Unfinished(v) == {Partial, Broken, Half(v)}
Remains(d) == IF d = None THEN {None} ELSE IF d > 0 THEN Unfinished(Shows(d)) ELSE {Partial, d}
CommandKind == {"install", "update", "uninstall", "enable", "disable"}
File == {"registry", "settings"}

VARIABLES
    dir,      \* [Plugin -> a Version, its Half, or None, Partial or Broken]: install_root
    record,   \* [Plugin -> Version, or 0]: installed.json
    setting,  \* [Plugin -> "unset", "on", "off"]: enabledPlugins
    torn,     \* the files a crash left unparsable
    source,   \* [Plugin -> Version, or 0: invalid, or no longer bundled]
    doing,    \* [Proc -> the operation it is at]
    ops, news

disk == <<dir, record, setting, torn>>
pmVars == <<disk, source, doing, ops, news>>

NoRecord == [p \in Plugin |-> 0]
NoSetting == [p \in Plugin |-> "unset"]
\* kind and p: the command; t: the plugin it works on; v: the version it copies;
\* reg and set: what it read; todo: bundled plugins to visit; clash: another
\* process works on the same directory; rival (history): another command names p.
NoOp == [kind |-> "none", p |-> "none", pc |-> "none", t |-> "none", v |-> 0,
         reg |-> NoRecord, set |-> NoSetting, todo |-> {}, changed |-> FALSE,
         clash |-> FALSE, ok |-> TRUE, rival |-> FALSE]

PmInit ==
    /\ dir = [p \in Plugin |-> None] /\ record = NoRecord
    /\ setting = NoSetting /\ torn = {}
    /\ source = [p \in Plugin |-> 1]
    /\ doing = [c \in Proc |-> NoOp]
    /\ ops = [c \in Proc |-> 0] /\ news = 0

-----------------------------------------------------------------------------
Whole(p) == dir[p] \in Version
Loads(p) == dir[p] > 0

\* discover_plugin_dirs and load_plugin_definition: a directory without a
\* manifest is no plugin, one that does not load is a failure.
Found == {p \in Plugin : Loads(p)}
LoadFailure == \E p \in Plugin : dir[p] = Broken

\* needs_sync of sync_bundled_plugins: what loads is taken for a valid copy.
NeedsSync(b, reg) == reg[b] # source[b] \/ ~Loads(b)

Becomes(c, o) == doing' = [doing EXCEPT ![c] = o]
Goto(c, pc) == Becomes(c, [doing[c] EXCEPT !.pc = pc])
\* What is left of an operation once it is over.
Over(o, ok) == [NoOp EXCEPT !.kind = o.kind, !.p = o.p, !.pc = "done", !.ok = ok,
                            !.set = IF o.kind = "build" /\ ok THEN o.set ELSE NoSetting,
                            !.rival = o.rival]
Fail(c) == Becomes(c, Over(doing[c], FALSE))

\* What follows the writing of the registry.
AfterStore(kind) == CASE kind \in {"install", "uninstall"} -> "enable"
                      [] kind = "update" -> "sync"

\* A plugin command is given: the configuration is loaded first.
Begin(c, kind, p) ==
    /\ doing[c] = NoOp
    /\ ops[c] < MaxOps /\ ops' = [ops EXCEPT ![c] = @ + 1]
    /\ kind \in {"install", "update", "uninstall"} => p \in External
    /\ Becomes(c, IF "settings" \in torn THEN [NoOp EXCEPT !.kind = kind, !.pc = "done", !.ok = FALSE]
                  ELSE [NoOp EXCEPT !.kind = kind, !.p = p,
                                    !.pc = IF kind \in {"enable", "disable"} THEN "sync" ELSE "load"])
    /\ UNCHANGED <<disk, source, news>>

\* build_runtime_plugin_state: the configuration, then plugin_registry().
BeginBuild(c) ==
    /\ doing[c] = NoOp
    /\ Becomes(c, [NoOp EXCEPT !.kind = "build", !.set = setting,
                               !.pc = IF "settings" \in torn THEN "done" ELSE "sync",
                               !.ok = "settings" \notin torn])
    /\ UNCHANGED <<disk, source, ops, news>>

\* load_registry, and the manifest of the source, which is checked before
\* anything is removed.  install does not need a record.
Names(c, p) == doing[c].kind \in {"install", "update", "uninstall"} /\ doing[c].p = p
Load(c) ==
    LET o == doing[c]
        recorded == "registry" \notin torn /\ record[o.p] # 0
        rivals == {e \in Proc \ {c} : Names(e, o.p)}
        begun == IF \/ o.kind # "install" /\ ~recorded
                    \/ o.kind # "uninstall" /\ source[o.p] = 0
                 THEN Over(o, FALSE)
                 ELSE [o EXCEPT !.pc = "remove", !.t = o.p, !.v = source[o.p],
                                !.reg = IF o.kind = "install" THEN @ ELSE record]
    IN  /\ o.pc = "load"
        /\ doing' = [e \in Proc |->
                      IF e = c THEN [begun EXCEPT !.rival = rivals # {}]
                      ELSE IF e \in rivals THEN [doing[e] EXCEPT !.rival = TRUE] ELSE doing[e]]
        /\ UNCHANGED <<disk, source, ops, news>>

\* From here on c works on the directory of t: whoever else does, too, may find
\* files gone or find too many.
Enter(c, pc) ==
    LET t == doing[c].t
        others == {e \in Proc \ {c} : doing[e].t = t /\ doing[e].pc \in {"removing", "copying"}}
    IN  doing' = [e \in Proc |->
            IF e = c THEN [doing[c] EXCEPT !.pc = pc, !.clash = @ \/ others # {}]
            ELSE IF e \in others THEN [doing[e] EXCEPT !.clash = TRUE] ELSE doing[e]]

\* remove_dir_all of the install path, which takes time.
RemoveBegin(c) ==
    /\ doing[c].pc = "remove"
    /\ Enter(c, "removing")
    /\ \E d \in Remains(dir[doing[c].t]) : dir' = [dir EXCEPT ![doing[c].t] = d]
    /\ UNCHANGED <<record, setting, torn, source, ops, news>>
\* A removal goes on to the copy, or to the next record to drop.
Removed(o) == IF o.kind = "uninstall" THEN "store"
              ELSE IF o.v = 0 THEN "syncing" ELSE "copy"
RemoveEnd(c) ==
    LET o == doing[c]
    IN  /\ o.pc = "removing"
        /\ \/ /\ dir' = [dir EXCEPT ![o.t] = None]
              /\ Goto(c, Removed(o))
           \/ /\ o.clash /\ Fail(c) /\ UNCHANGED dir
        /\ UNCHANGED <<record, setting, torn, source, ops, news>>

\* copy_dir_all.
CopyBegin(c) ==
    /\ doing[c].pc = "copy"
    /\ Enter(c, "copying")
    /\ \E d \in Unfinished(doing[c].v) : dir' = [dir EXCEPT ![doing[c].t] = d]
    /\ UNCHANGED <<record, setting, torn, source, ops, news>>
CopyEnd(c) ==
    LET o == doing[c]
    IN  /\ o.pc = "copying"
        /\ \/ /\ IF o.clash THEN \E d \in Unfinished(o.v) \cup {None, o.v} : dir' = [dir EXCEPT ![o.t] = d]
                            ELSE dir' = [dir EXCEPT ![o.t] = o.v]
              /\ Becomes(c, [o EXCEPT !.pc = IF o.t \in Bundled THEN "syncing" ELSE "store",
                                      !.reg = [o.reg EXCEPT ![o.t] = o.v]])
           \/ /\ o.clash /\ Fail(c) /\ UNCHANGED dir
        /\ UNCHANGED <<record, setting, torn, source, ops, news>>

\* store_registry: the file is truncated, then written.  install reads the
\* registry anew; update and uninstall write back the one they began with.
StoreBegin(c) ==
    LET o == doing[c]
    IN  /\ o.pc = "store"
        /\ IF o.kind = "install" /\ "registry" \in torn
           THEN Fail(c) /\ UNCHANGED <<record, torn>>
           ELSE /\ Becomes(c, [o EXCEPT !.pc = "storing",
                     !.reg = [(IF o.kind = "install" THEN record ELSE o.reg) EXCEPT
                                 ![o.p] = IF o.kind = "uninstall" THEN 0 ELSE o.v]])
                /\ record' = NoRecord /\ torn' = torn \ {"registry"}
        /\ UNCHANGED <<dir, setting, source, ops, news>>
StoreEnd(c) ==
    LET o == doing[c]
    IN  /\ o.pc = "storing"
        /\ record' = o.reg /\ torn' = torn \ {"registry"}
        /\ Becomes(c, [o EXCEPT !.pc = AfterStore(o.kind), !.t = "none", !.v = 0,
                                !.clash = FALSE, !.reg = NoRecord])
        /\ UNCHANGED <<dir, setting, source, ops, news>>

\* update_settings_json: settings.json is read, changed and written in place;
\* the manager's own view changes with it.
EnableBegin(c) ==
    LET o == doing[c]
    IN  /\ o.pc = "enable"
        /\ IF "settings" \in torn THEN Fail(c) /\ UNCHANGED setting
           ELSE /\ Becomes(c, [o EXCEPT !.pc = "enabling",
                     !.set = [setting EXCEPT ![o.p] =
                        CASE o.kind = "disable" -> "off" [] o.kind = "uninstall" -> "unset"
                          [] OTHER -> "on"]])
                /\ setting' = NoSetting
        /\ UNCHANGED <<dir, record, torn, source, ops, news>>
EnableEnd(c) ==
    LET o == doing[c]
    IN  /\ o.pc = "enabling"
        /\ setting' = o.set /\ torn' = torn \ {"settings"}
        /\ Becomes(c, IF o.kind = "install" THEN [o EXCEPT !.pc = "sync", !.set = NoSetting] ELSE Over(o, TRUE))
        /\ UNCHANGED <<dir, record, source, ops, news>>

-----------------------------------------------------------------------------
\* Mutant: records of every kind are dropped once their source is gone.
SyncAll(c) ==
    /\ doing[c].pc = "sync" /\ "registry" \notin torn
    /\ Becomes(c, [doing[c] EXCEPT !.pc = "syncing", !.reg = record,
                                   !.todo = Bundled \cup {p \in External : source[p] = 0}])
    /\ UNCHANGED <<disk, source, ops, news>>

\* sync_bundled_plugins: reads the registry, copies each bundled plugin whose
\* copy or record is not what the program ships, drops the recorded ones it no
\* longer ships, and stores once at the end.
SyncStart(c) ==
    /\ doing[c].pc = "sync"
    /\ IF "registry" \in torn THEN Fail(c)
       ELSE Becomes(c, [doing[c] EXCEPT !.pc = "syncing", !.reg = record, !.todo = Bundled])
    /\ UNCHANGED <<disk, source, ops, news>>

\* A visit of b copies what is shipped, or removes what no longer is.
Due(b, reg) == IF source[b] # 0 THEN NeedsSync(b, reg) ELSE reg[b] # 0
SyncVisit(c) ==
    LET o == doing[c]
    IN  /\ o.pc = "syncing"
        /\ \E b \in {d \in o.todo : Due(d, o.reg)} :
              Becomes(c, [o EXCEPT !.todo = o.todo \ {b}, !.t = b, !.v = source[b], !.clash = FALSE,
                                   !.reg = IF source[b] = 0 THEN [o.reg EXCEPT ![b] = 0] ELSE o.reg,
                                   !.changed = TRUE, !.pc = "remove"])
        /\ UNCHANGED <<disk, source, ops, news>>
Resting(o) == [o EXCEPT !.t = "none", !.v = 0, !.todo = {}, !.changed = FALSE, !.clash = FALSE]
SyncFlush(c) ==
    LET o == doing[c]
    IN  /\ o.pc = "syncing" /\ ~\E b \in o.todo : Due(b, o.reg)
        /\ Becomes(c, [Resting(o) EXCEPT !.pc = IF o.changed THEN "flushing" ELSE "scan",
                                         !.reg = IF o.changed THEN o.reg ELSE NoRecord])
        /\ record' = IF o.changed THEN NoRecord ELSE record
        /\ torn' = IF o.changed THEN torn \ {"registry"} ELSE torn
        /\ UNCHANGED <<dir, setting, source, ops, news>>
SyncEnd(c) ==
    /\ doing[c].pc = "flushing"
    /\ record' = doing[c].reg /\ torn' = torn \ {"registry"}
    /\ Becomes(c, [doing[c] EXCEPT !.pc = "scan", !.reg = NoRecord])
    /\ UNCHANGED <<dir, setting, source, ops, news>>

\* discover_installed_plugins_with_failures: records whose directory holds no
\* manifest are pruned; a plugin that does not load fails the whole discovery.
Pruned(reg) == [p \in Plugin |-> IF dir[p] \in {None, Partial} THEN 0 ELSE reg[p]]
Usable(o) == ~LoadFailure /\ (o.kind \in {"enable", "disable"} => o.p \in Found)
Discovered(o, ok) ==
    IF ok /\ o.kind \in {"enable", "disable"}
    THEN [NoOp EXCEPT !.kind = o.kind, !.p = o.p, !.pc = "enable"] ELSE Over(o, ok)
Scan(c) ==
    LET o == doing[c]
    IN  /\ o.pc = "scan"
        /\ IF "registry" \in torn THEN Fail(c) /\ UNCHANGED record
           ELSE IF Pruned(record) = record
           THEN Becomes(c, Discovered(o, Usable(o))) /\ UNCHANGED record
           ELSE /\ Becomes(c, [o EXCEPT !.pc = "pruning", !.reg = Pruned(record), !.ok = Usable(o)])
                /\ record' = NoRecord
        /\ UNCHANGED <<dir, setting, torn, source, ops, news>>
PruneEnd(c) ==
    LET o == doing[c]
    IN  /\ o.pc = "pruning"
        /\ record' = o.reg /\ torn' = torn \ {"registry"}
        /\ Becomes(c, Discovered(o, o.ok))
        /\ UNCHANGED <<dir, setting, source, ops, news>>

OpStep(c) ==
    \/ Load(c) \/ RemoveBegin(c) \/ RemoveEnd(c) \/ CopyBegin(c) \/ CopyEnd(c)
    \/ StoreBegin(c) \/ StoreEnd(c) \/ EnableBegin(c) \/ EnableEnd(c)
    \/ SyncStart(c) \/ SyncVisit(c) \/ SyncFlush(c) \/ SyncEnd(c)
    \/ Scan(c) \/ PruneEnd(c)

\* The process dies: a file it was writing may be left empty or torn.
Stop(c) ==
    /\ Becomes(c, NoOp)
    /\ \/ UNCHANGED torn
       \/ doing[c].pc \in {"storing", "flushing", "pruning"} /\ torn' = torn \cup {"registry"}
       \/ doing[c].pc = "enabling" /\ torn' = torn \cup {"settings"}
    /\ UNCHANGED <<dir, record, setting, source, ops, news>>

\* The author of an external plugin publishes a version, or one that is
\* invalid; a new release ships a newer bundled plugin, or no longer ships it.
Publish(p) ==
    /\ \A c \in Proc : doing[c] = NoOp
    /\ news < MaxNews /\ news' = news + 1
    /\ source[p] \in 1..(MaxVersion - 1)
    /\ \E v \in {0, source[p] + 1} : source' = [source EXCEPT ![p] = v]
    /\ UNCHANGED <<disk, doing, ops>>

\* The user removes a file that no longer parses.
RemoveFile(f) ==
    /\ f \in torn /\ torn' = torn \ {f}
    /\ IF f = "registry" THEN record' = NoRecord /\ UNCHANGED setting
                         ELSE setting' = NoSetting /\ UNCHANGED record
    /\ UNCHANGED <<dir, source, doing, ops, news>>

=============================================================================
