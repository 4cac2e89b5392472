--------------------------------- MODULE Skills ---------------------------------
(***************************************************************************)
(* Skills: where they are looked for, listed and installed                 *)
(* (commands/src/lib.rs) and where the Skill tool finds the one it runs    *)
(* (tools/src/lib.rs).  The two crates have a list of directories each,    *)
(* in different orders.  An installation creates the directory, copies the *)
(* files one by one and takes the directory back when that fails; it may   *)
(* end anywhere, and two processes may install at once.                    *)
(***************************************************************************)
EXTENDS Integers, Sequences, SequencesExt, FiniteSets

CONSTANTS
    Ancestors,      \* the working directory and those above it, nearest first
    Env,            \* which of the three environment variables are set
    ByteOrder,      \* every name, in the order of its bytes
    LowerCase,      \* [names with capitals -> in lower case]
    Sanitized,      \* [names an installation changes -> what it makes of them]
    GivenSkills,    \* what the directories may hold at the start
    SkillSource,    \* skills to install: their directory's name and the name they declare
    Installer       \* processes that install

VARIABLES
    disk,       \* [existing skill directories -> their entries]
    install,    \* [Installer -> step, source and name]
    told,       \* history: names reported as installed
    contended   \* history: names two processes were installing at once

skillVars == <<disk, install, told, contended>>
-----------------------------------------------------------------------------
(* Directories: place, tool directory and leaf.                            *)

\* The directories of every place in turn, so many of each.
Each(f, many, places) ==
    [k \in 1..(many * Len(places)) |-> f[places[((k - 1) \div many) + 1]][((k - 1) % many) + 1]]
Leaves(place, dirs, leaf) == [i \in DOMAIN dirs |-> <<place, dirs[i], leaf>>]
OfVariable(var) == IF var \in Env THEN << <<var, "", "skills">>, <<var, "", "commands">> >> ELSE <<>>
LearnedOf(place, dir) == << <<place, dir, "skills/omc-learned">> >>

\* discover_skill_roots.  Of two equal directories the second adds nothing.
ProjectRoots == [a \in ToSet(Ancestors) |->
    Leaves(a, <<".claw", ".omc", ".agents", ".codex", ".claude">>, "skills")
    \o Leaves(a, <<".claw", ".codex", ".claude">>, "commands")]
HomeRoots ==
    Leaves("home", <<".claw", ".omc">>, "skills") \o Leaves("home", <<".claw">>, "commands")
    \o Leaves("home", <<".codex">>, "skills") \o Leaves("home", <<".codex">>, "commands")
    \o Leaves("home", <<".claude">>, "skills") \o LearnedOf("home", ".claude")
    \o Leaves("home", <<".claude">>, "commands")
ClaudeConfigRoots ==
    LET var == "CLAUDE_CONFIG_DIR"
    IN  IF var \in Env THEN << <<var, "", "skills">> >> \o LearnedOf(var, "") \o << <<var, "", "commands">> >> ELSE <<>>
DiscoverSkillRoots == Each(ProjectRoots, 8, Ancestors) \o OfVariable("CLAW_CONFIG_HOME") \o OfVariable("CODEX_HOME")
                      \o HomeRoots \o ClaudeConfigRoots

\* skill_lookup_roots.
Prefixed(place, dirs) ==
    [k \in 1..(2 * Len(dirs)) |-> <<place, dirs[(k + 1) \div 2], IF k % 2 = 1 THEN "skills" ELSE "commands">>]
LookupProjectRoots == [a \in ToSet(Ancestors) |-> Prefixed(a, <<".omc", ".agents", ".claw", ".codex", ".claude">>)]
LookupHomeRoots == Prefixed("home", <<".omc", ".claw", ".codex", ".claude">>)
                   \o Leaves("home", <<".agents", ".config/opencode">>, "skills") \o LearnedOf("home", ".claude")
SkillLookupRoots ==
    Each(LookupProjectRoots, 10, Ancestors) \o OfVariable("CLAW_CONFIG_HOME") \o OfVariable("CODEX_HOME")
    \o LookupHomeRoots \o ClaudeConfigRoots

None == <<>>
\* The first of some directories in a list that names those that do not exist too.
First(roots, dirs) ==
    LET at == {i \in DOMAIN roots : roots[i] \in dirs}
    IN  IF at = {} THEN None ELSE roots[Min(at)]

\* default_skill_install_root.
InstallRoot == IF "CLAW_CONFIG_HOME" \in Env THEN <<"CLAW_CONFIG_HOME", "", "skills">>
               ELSE IF "CODEX_HOME" \in Env THEN <<"CODEX_HOME", "", "skills">> ELSE <<"home", ".claw", "skills">>
-----------------------------------------------------------------------------
(* Entries: a directory or, among commands, a markdown file.  A directory  *)
(* without a SKILL.md is "empty", one with files still to come "part".     *)

Skill(entry, name) == [entry |-> entry, dir |-> TRUE, name |-> name, readable |-> TRUE, state |-> "whole"]
Key(name) == IF name \in DOMAIN LowerCase THEN LowerCase[name] ELSE name
Place(name) == CHOOSE i \in DOMAIN ByteOrder : ByteOrder[i] = name
Legacy(root) == root[3] = "commands"
Prompts(root) == {e \in disk[root] : e.state # "empty" /\ (Legacy(root) \/ e.dir)}
\* Without a name of its own, a directory of commands is called after its SKILL.md.
Name(root, e) == IF e.name # "none" THEN e.name ELSE IF Legacy(root) /\ e.dir THEN "SKILL" ELSE e.entry
\* Sorted by name, those of one name as the directory has them.
Before(root, x, y) == \/ Place(Name(root, x)) < Place(Name(root, y))
                      \/ Name(root, x) = Name(root, y) /\ Place(x.entry) < Place(y.entry)
SameName(name, other) == Key(name) = Key(other)
AllReadable(root) == \A e \in Prompts(root) : e.readable

\* load_skills_from_roots: every directory is read, and a skill is active unless
\* one of its name came before it, in its directory or an earlier one.
LoadSkills ==
    LET roots == DiscoverSkillRoots
        read == {i \in DOMAIN roots : roots[i] \in DOMAIN disk}
        Shadowed(j, y) == \E i \in read : \E x \in Prompts(roots[i]) :
                             /\ i < j \/ (i = j /\ Before(roots[i], x, y))
                             /\ SameName(Name(roots[i], x), Name(roots[j], y))
        Active(j) == {y \in Prompts(roots[j]) : ~Shadowed(j, y)}
    IN  [ok |-> \A i \in read : AllReadable(roots[i]),
         active |-> UNION {{[name |-> Name(roots[j], y), path |-> <<roots[j], y.entry>>] : y \in Active(j)} : j \in read}]

\* resolve_skill_path of commands: directories are read until one has the name.
Called(root, requested) == {e \in Prompts(root) : SameName(Name(root, e), requested)}
Earliest(root, entries) == CHOOSE e \in entries : \A other \in entries : ~Before(root, other, e)
ResolveSkillPath(requested) ==
    LET root == First(DiscoverSkillRoots, {r \in DOMAIN disk : ~AllReadable(r) \/ Called(r, requested) # {}})
    IN  IF root = None \/ ~AllReadable(root) THEN None
        ELSE <<root, Earliest(root, Called(root, requested)).entry>>

\* resolve_skill_path_in_root: the entry of that very name, or any that answers to it.
Direct(root, requested) == {e \in Prompts(root) : e.entry = requested}
Answers(root, e, requested) ==
    \/ SameName(e.entry, requested) \/ (e.readable /\ e.name # "none" /\ SameName(e.name, requested))
    \/ Legacy(root) /\ e.dir /\ SameName("SKILL", requested)
InRoot(root, requested) ==
    IF Direct(root, requested) # {} THEN Direct(root, requested)
    ELSE {e \in Prompts(root) : Answers(root, e, requested)}
FromCompatRoots(requested) ==
    LET root == First(SkillLookupRoots, {r \in DOMAIN disk : InRoot(r, requested) # {}})
    IN  IF root = None THEN {} ELSE {<<root, e.entry>> : e \in InRoot(root, requested)}
\* Mutant: the tool has its own list only.
ToolRunsCompat(requested) == FromCompatRoots(requested)
\* The files the Skill tool may run.
ToolRuns(requested) == LET found == ResolveSkillPath(requested)
                       IN  IF found # None THEN {found} ELSE FromCompatRoots(requested)
-----------------------------------------------------------------------------
(* install_skill_into.                                                     *)

NoInstall == [pc |-> "idle", source |-> None, name |-> "none"]
SkillsInit == /\ disk \in GivenSkills /\ install = [p \in Installer |-> NoInstall]
              /\ told = {} /\ contended = {}

\* derive_skill_install_name: the declared name, or the directory's.
InstallName(source) ==
    LET declared == IF source.name = "none" THEN source.entry ELSE source.name
    IN  IF declared \in DOMAIN Sanitized THEN Sanitized[declared] ELSE Key(declared)
\* Every name has its place in ByteOrder.
Names == ToSet(ByteOrder)
ASSUME OrdersAssumption == ByteOrder \in Seq(Names) /\ Ancestors \in Seq(ToSet(Ancestors))
Named(e) == e.entry \in Names /\ e.name \in Names \cup {"none"}
ASSUME NamesAssumption ==
    /\ "SKILL" \in Names
    /\ \A given \in GivenSkills : \A root \in DOMAIN given : \A e \in given[root] : Named(e)
    /\ \A source \in SkillSource : InstallName(source) \in Names /\ source.name \in Names \cup {"none"}
Installed == IF InstallRoot \in DOMAIN disk THEN disk[InstallRoot] ELSE {}
At(name) == {e \in Installed : e.entry = name}
BecomesInstalled(entries) ==
    disk' = [r \in DOMAIN disk \cup {InstallRoot} |-> IF r = InstallRoot THEN entries ELSE disk[r]]
Goto(p, pc) == install' = [install EXCEPT ![p].pc = pc]

StartInstall(p, source) ==
    LET name == InstallName(source)
    IN  /\ install[p].pc = "idle" /\ At(name) = {}
        /\ install' = [install EXCEPT ![p] = [pc |-> "create", source |-> source, name |-> name]]
        /\ contended' = contended \cup {install[q].name : q \in {r \in Installer : install[r].name = name}}
        /\ UNCHANGED <<disk, told>>
CreateDir(p) ==
    LET i == install[p]
    IN  /\ i.pc = "create" /\ Goto(p, "copy")
        /\ IF At(i.name) # {} THEN UNCHANGED disk
           ELSE BecomesInstalled(Installed \cup {[Skill(i.name, "none") EXCEPT !.state = "empty"]})
        /\ UNCHANGED <<told, contended>>
\* One more file: the SKILL.md is any of them.
CopyFile(p) ==
    LET i == install[p]
        Become(state, name) ==
            BecomesInstalled((Installed \ At(i.name)) \cup {[Skill(i.name, name) EXCEPT !.state = state]})
    IN  /\ i.pc = "copy" /\ At(i.name) # {}
        /\ \/ Become("part", i.source.name) /\ UNCHANGED <<install, told>>
           \/ /\ Become("whole", i.source.name)
              /\ install' = [install EXCEPT ![p] = NoInstall] /\ told' = told \cup {i.name}
        /\ UNCHANGED contended
CopyFails(p) == install[p].pc = "copy" /\ Goto(p, "undo") /\ UNCHANGED <<disk, told, contended>>
RemoveDir(p) ==
    /\ install[p].pc = "undo"
    /\ BecomesInstalled(Installed \ At(install[p].name))
    /\ install' = [install EXCEPT ![p] = NoInstall]
    /\ UNCHANGED <<told, contended>>
Dies(p) == /\ install[p].pc # "idle"
           /\ install' = [install EXCEPT ![p] = NoInstall]
           /\ UNCHANGED <<disk, told, contended>>

SkillsNext ==
    \E p \in Installer : \/ \E source \in SkillSource : StartInstall(p, source)
                         \/ CreateDir(p) \/ CopyFile(p) \/ CopyFails(p) \/ RemoveDir(p) \/ Dies(p)
SkillsSpec == SkillsInit /\ [][SkillsNext]_skillVars
-----------------------------------------------------------------------------
\* What was reported as installed is there in full, unless two processes were
\* installing it at once (StartInstall and what may follow it).
InstalledWhole == \A name \in told \ contended : \E e \in At(name) : e.state = "whole"
\* A skill that is listed as active is the one that runs under its name, asked for
\* by the user or by the model.  What was reported as installed is there, and the
\* name that was reported runs it when nothing else has that name, however the
\* directories are ordered and whatever in them cannot be read.
SkillRunsAsListed ==
    /\ LoadSkills.ok => \A s \in LoadSkills.active :
          ResolveSkillPath(s.name) = s.path /\ ToolRuns(s.name) = {s.path}
    /\ InstalledWhole
    /\ \A name \in told \ contended :
          /\ ToolRuns(name) # {}
          /\ (\A root \in DOMAIN disk : \A e \in disk[root] :
                 Answers(root, e, name) => root = InstallRoot /\ e.entry = name)
                => ToolRuns(name) = {<<InstallRoot, name>>}
=============================================================================
