--------------------------- MODULE MCSessionCommands ---------------------------
(***************************************************************************)
(* Instances for TLC of what the commands of the REPL keep on disk:        *)
(* sessions (SessionCommands) and skills (Skills).  The two share nothing, *)
(* so each takes its steps while the other one is where it starts.         *)
(*                                                                         *)
(* The skills that are there cover a name that occurs in two directories   *)
(* (nearer and farther, of the same and of another tool, directory and     *)
(* markdown file), one that differs in case, one that only another skill's *)
(* declared name has, and a file that cannot be read.                      *)
(***************************************************************************)
EXTENDS SessionCommands, Skills, TLC

CONSTANTS r1, r2

MCOne == {r1}
MCTwo == {r1, r2}
MCSymmetry == Permutations({r1, r2})

MCAncestors == <<"cwd">>
MCByteOrder == <<"SKILL", "Tidy", "Tidy Up", "plan", "tidy", "tidy-up", "x">>
MCLowerCase == ("Tidy" :> "tidy") @@ ("Tidy Up" :> "tidy up") @@ ("SKILL" :> "skill")
MCSanitized == ("Tidy" :> "tidy") @@ ("Tidy Up" :> "tidy-up")

NoSkills == (<<"cwd", ".claw", "skills">> :> {}) @@ (<<"cwd", ".omc", "skills">> :> {})
            @@ (<<"cwd", ".claude", "commands">> :> {})
Nearest == {{}, {Skill("plan", "none"), Skill("Tidy", "none")}}
Farther == {{Skill("tidy", "plan"), Skill("x", "Tidy Up")},
            {Skill("tidy", "none"), [Skill("tidy-up", "Tidy") EXCEPT !.readable = FALSE]}}
Command == {{[Skill("tidy", "none") EXCEPT !.dir = FALSE]}, {Skill("plan", "none")},
            {[Skill("x", "tidy-up") EXCEPT !.dir = FALSE]}}
MCGivenSkills ==
    {NoSkills} \cup UNION { {
        (<<"cwd", ".claw", "skills">> :> near) @@ (<<"cwd", ".omc", "skills">> :> far)
            @@ (<<"cwd", ".claude", "commands">> :> command),
        (<<"cwd", ".claw", "skills">> :> near) @@ (<<"home", ".claw", "skills">> :> far)
            @@ (<<"cwd", ".claude", "commands">> :> command) } :
        near \in Nearest, far \in Farther, command \in Command }
MCSkillSource == {[entry |-> "tidy", name |-> "none"], [entry |-> "x", name |-> "Tidy Up"]}

CommandsInit == Init /\ SkillsInit /\ (disk = NoSkills \/ nextId = 1)
CommandsSpec ==
    /\ CommandsInit
    /\ [][ \/ SkillsInit /\ disk = NoSkills /\ UNCHANGED skillVars /\ Next
           \/ Init /\ nextId = 1 /\ UNCHANGED vars /\ SkillsNext ]_<<vars, skillVars>>
=============================================================================
