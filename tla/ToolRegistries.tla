---------------------------- MODULE ToolRegistries ----------------------------
(***************************************************************************)
(* The in-memory registries behind the Task, Team, Cron and LSP tools      *)
(* (task_registry.rs, team_cron_registry.rs, lsp_client.rs of              *)
(* src/rust/crates/runtime/src and the run_* functions of                  *)
(* src/rust/crates/tools/src/lib.rs).  One of each is shared by the        *)
(* conversation and the threads of its sub-agents, behind a mutex of its   *)
(* own: an operation is atomic, TeamCreate is several.                     *)
(***************************************************************************)
EXTENDS Integers, FiniteSets

CONSTANTS
    Caller,     \* threads that call tools
    MaxIds,     \* bound: ids a registry hands out
    MaxNotes,   \* bound: messages and outputs of a task, runs of a cron entry
    Language    \* languages of LSP servers

Id == 1..MaxIds
TaskStatus == {"created", "running", "completed", "failed", "stopped"}
Terminal == {"completed", "failed", "stopped"}
LspServerStatus == {"connected", "disconnected", "starting", "error"}

VARIABLES
    tasks,      \* [ids in use -> Task]
    teams,      \* [ids in use -> Team]
    pending,    \* [Caller -> the assignments a TeamCreate has left]
    crons,      \* [ids in use -> CronEntry]
    counter,    \* [registry -> its counter]
    lsp,        \* [registered languages -> LspServerState]
    found,      \* [Caller -> the server a dispatch has looked up, or none]
    idsGiven    \* history: [registry -> every id it has handed out]

taskVars == <<tasks, teams, pending>>
lspVars == <<lsp, found>>
ids == <<counter, idsGiven>>
registryVars == <<taskVars, crons, lspVars, ids>>

Nothing == [x \in {} |-> 0]
NoTeam == [team |-> 0, left |-> {}]
TasksInit == tasks = Nothing /\ teams = Nothing /\ pending = [c \in Caller |-> NoTeam]
CronsInit == crons = Nothing
LspInit == lsp = Nothing /\ found = [c \in Caller |-> "none"]
Registry == {"task", "team", "cron"}
RegistriesInit == /\ TasksInit /\ CronsInit /\ LspInit
                  /\ counter = [r \in Registry |-> 0] /\ idsGiven = [r \in Registry |-> {}]

With(f, x, v) == [y \in DOMAIN f \cup {x} |-> IF y = x THEN v ELSE f[y]]
Without(f, x) == [y \in DOMAIN f \ {x} |-> f[y]]
-----------------------------------------------------------------------------
(* Tasks.                                                                  *)

\* An id is made of the counter, which nothing takes back.
Fresh(r, used) == counter[r] + 1
GiveId(r, id) ==
    /\ counter[r] < MaxIds
    /\ counter' = [counter EXCEPT ![r] = @ + 1]
    /\ idsGiven' = [idsGiven EXCEPT ![r] = @ \cup {id}]

\* validate_packet: a packet with an empty field makes no task.
TaskCreate(packet, valid) ==
    LET id == Fresh("task", DOMAIN tasks)
    IN  /\ packet => valid
        /\ GiveId("task", id)
        /\ tasks' = With(tasks, id, [status |-> "created", notes |-> 0, team |-> 0])
        /\ UNCHANGED <<teams, pending>>

Become(t, r) == tasks' = [tasks EXCEPT ![t] = r] /\ UNCHANGED <<teams, pending, ids>>
TaskStop(t) ==
    /\ tasks[t].status \notin Terminal
    /\ Become(t, [tasks[t] EXCEPT !.status = "stopped"])
\* update and append_output, also for a task that has ended.
TaskUpdate(t) ==
    /\ tasks[t].notes < MaxNotes
    /\ Become(t, [tasks[t] EXCEPT !.notes = @ + 1])
\* set_status, for whoever runs the task: any status after any other.
SetStatus(t, s) == Become(t, [tasks[t] EXCEPT !.status = s])
RemoveTask(t) == tasks' = Without(tasks, t) /\ UNCHANGED <<teams, pending, ids>>

\* run_team_create: the team first, then each of its tasks on its own.
TeamCreate(c, listed) ==
    LET id == Fresh("team", DOMAIN teams)
    IN  /\ pending[c] = NoTeam
        /\ GiveId("team", id)
        /\ teams' = With(teams, id, [status |-> "created", tasks |-> listed])
        /\ pending' = IF listed = {} THEN pending
                      ELSE [pending EXCEPT ![c] = [team |-> id, left |-> listed]]
        /\ UNCHANGED tasks
\* Mutant: the loop ends at a task it does not know.
AssignTeamStops(c) ==
    /\ \E t \in pending[c].left :
          /\ tasks' = IF t \in DOMAIN tasks THEN [tasks EXCEPT ![t].team = pending[c].team] ELSE tasks
          /\ pending' = [pending EXCEPT ![c] =
                            IF pending[c].left = {t} \/ t \notin DOMAIN tasks THEN NoTeam
                            ELSE [pending[c] EXCEPT !.left = @ \ {t}]]
    /\ UNCHANGED <<teams, ids>>
\* One assignment; a task it does not know is passed over.
AssignTeam(c) ==
    /\ \E t \in pending[c].left :
          /\ tasks' = IF t \in DOMAIN tasks THEN [tasks EXCEPT ![t].team = pending[c].team] ELSE tasks
          /\ pending' = [pending EXCEPT ![c] =
                            IF pending[c].left = {t} THEN NoTeam ELSE [pending[c] EXCEPT !.left = @ \ {t}]]
    /\ UNCHANGED <<teams, ids>>
\* The team stays, as do the team ids of its tasks.
TeamDelete(id) == teams' = [teams EXCEPT ![id].status = "deleted"] /\ UNCHANGED <<tasks, pending, ids>>
TeamRemove(id) == teams' = Without(teams, id) /\ UNCHANGED <<tasks, pending, ids>>

TasksNext ==
    \/ \E packet, valid \in BOOLEAN : TaskCreate(packet, valid)
    \/ \E t \in DOMAIN tasks : TaskStop(t) \/ TaskUpdate(t) \/ RemoveTask(t)
                               \/ \E s \in TaskStatus : SetStatus(t, s)
    \/ \E c \in Caller : \/ \E listed \in SUBSET Id : TeamCreate(c, listed \cap idsGiven["task"])
                         \/ AssignTeam(c)
    \/ \E id \in DOMAIN teams : TeamDelete(id) \/ TeamRemove(id)
-----------------------------------------------------------------------------
(* Cron entries.  Nothing in the program runs them.                        *)

CronCreate ==
    LET id == Fresh("cron", DOMAIN crons)
    IN  GiveId("cron", id) /\ crons' = With(crons, id, [enabled |-> TRUE, runs |-> 0])
CronDelete(e) == crons' = Without(crons, e) /\ UNCHANGED ids
Disable(e) == crons' = [crons EXCEPT ![e].enabled = FALSE] /\ UNCHANGED ids
\* record_run does not ask whether the entry is enabled.
RecordRun(e) ==
    /\ crons[e].runs < MaxNotes
    /\ crons' = [crons EXCEPT ![e].runs = @ + 1] /\ UNCHANGED ids

CronsNext == CronCreate \/ \E e \in DOMAIN crons : CronDelete(e) \/ Disable(e) \/ RecordRun(e)
-----------------------------------------------------------------------------
(* LSP servers: a table.  dispatch takes a copy of the server's state, and *)
(* looks at it after it has let go of the lock.                            *)

Register(l, s) == lsp' = With(lsp, l, [status |-> s, diagnostics |-> 0]) /\ UNCHANGED <<found, ids>>
AddDiagnostics(l) ==
    /\ lsp[l].diagnostics < MaxNotes
    /\ lsp' = [lsp EXCEPT ![l].diagnostics = @ + 1] /\ UNCHANGED <<found, ids>>
ClearDiagnostics(l) == lsp' = [lsp EXCEPT ![l].diagnostics = 0] /\ UNCHANGED <<found, ids>>
Disconnect(l) == lsp' = Without(lsp, l) /\ UNCHANGED <<found, ids>>
FindServerForPath(c, l) ==
    /\ found[c] = "none"
    /\ found' = [found EXCEPT ![c] = lsp[l].status]
    /\ UNCHANGED <<lsp, ids>>
Dispatch(c) ==
    /\ found[c] # "none"
    /\ found' = [found EXCEPT ![c] = "none"]
    /\ UNCHANGED <<lsp, ids>>

LspNext ==
    \/ \E l \in Language, s \in LspServerStatus : Register(l, s)
    \/ \E l \in DOMAIN lsp : \/ AddDiagnostics(l) \/ ClearDiagnostics(l) \/ Disconnect(l)
                             \/ \E c \in Caller : FindServerForPath(c, l)
    \/ \E c \in Caller : Dispatch(c)

RegistriesNext ==
    \/ TasksNext /\ UNCHANGED <<crons, lspVars>>
    \/ CronsNext /\ UNCHANGED <<taskVars, lspVars>>
    \/ LspNext /\ UNCHANGED <<taskVars, crons>>
RegistriesSpec == RegistriesInit /\ [][RegistriesNext]_registryVars
-----------------------------------------------------------------------------
\* A task that a team lists belongs to a team that lists it, once no TeamCreate
\* is on its way, whichever way two of them and removals interleave: to the one
\* that was assigned last, deleted or not.
TaskHasItsTeam ==
    (\A c \in Caller : pending[c] = NoTeam) =>
        \A id \in DOMAIN teams : \A t \in teams[id].tasks \cap DOMAIN tasks :
            /\ tasks[t].team \in idsGiven["team"]
            /\ tasks[t].team \in DOMAIN teams => t \in teams[tasks[t].team].tasks
=============================================================================
