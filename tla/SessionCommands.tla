--------------------------- MODULE SessionCommands ---------------------------
(***************************************************************************)
(* Which session file a command reads, writes or removes                   *)
(* (src/rust/crates/rusty-claude-cli/src/main.rs, session_control.rs):     *)
(* REPL processes that start, take turns, /clear, /resume, /session switch,*)
(* fork and delete, and one-shot `claw --resume <session> /clear|/compact` *)
(* processes, all in one workspace.                                        *)
(*                                                                         *)
(* A message is a number; a compacted session still stands for the messages*)
(* its summary covers.  A save or an append is one step here, SessionFile  *)
(* has its I/O.                                                            *)
(***************************************************************************)
EXTENDS Integers, Sequences, SequencesExt, FiniteSets

CONSTANTS
    Repl,    \* REPL processes
    MaxId,   \* bound: session ids generated, those of Init included
    MaxMsg   \* bound: turns taken in all

ASSUME BoundAssumption == MaxId \in Nat \ {0} /\ MaxMsg \in Nat

Id == 1..MaxId
Ext == {"jsonl", "json", "bak"}  \* .bak: what /clear of a one-shot leaves
\* The stem of a managed file is the id its session had when it was created.
Path == [stem : Id, ext : Ext]
NoPath == [stem |-> 0, ext |-> "none"]
Msg == 1..MaxMsg

NoFile == [id |-> 0, msgs |-> {}]
Off == [on |-> FALSE, id |-> 0, path |-> NoPath, sid |-> 0, msgs |-> {}, spath |-> NoPath]
Idle == [path |-> NoPath, sid |-> 0, msgs |-> {}, backed |-> FALSE]

VARIABLES
    files,    \* [Path -> session on disk]: its id and messages
    recent,   \* the managed files by time of their last modification
    repl,     \* [Repl -> LiveCli]: handle (id, path), session (sid, msgs, spath)
    shot,     \* the one-shot process
    nextId,   \* generate_session_id
    nextMsg,
    \* History:
    parent,   \* [Id -> the session it was forked from, or 0]
    acked,    \* [message, path, session] of every message a turn put on record
    removed,  \* messages the user deleted with their session
    mingled   \* paths two processes had open at once

vars == <<files, recent, repl, shot, nextId, nextMsg, parent, acked, removed, mingled>>

Exists(p) == files[p] # NoFile
Managed(p) == p.ext \in {"jsonl", "json"}

\* The workspace has old sessions: of the current format or of the legacy one.
Init ==
    /\ nextId \in 1..MaxId
    /\ \E ext \in [1..(nextId - 1) -> {"jsonl", "json"}] :
          LET old == {[stem |-> i, ext |-> ext[i]] : i \in 1..(nextId - 1)}
          IN  /\ files = [p \in Path |-> IF p \in old THEN [id |-> p.stem, msgs |-> {}]
                                                     ELSE NoFile]
              /\ recent \in {s \in [1..Cardinality(old) -> old] : IsInjective(s)}
    /\ repl = [r \in Repl |-> Off] /\ shot = Idle
    /\ nextMsg = 1 /\ parent = [i \in Id |-> 0]
    /\ acked = {} /\ removed = {} /\ mingled = {}

-----------------------------------------------------------------------------
(* Helpers of the commands.                                                *)

\* latest_managed_session: the managed file modified last.
Latest == Last(recent)

\* create_managed_session_handle.
HandlePath(id) == [stem |-> id, ext |-> "jsonl"]

\* What `latest`, a session id and a path to an existing file resolve to.
Resolved ==
    {[by |-> "latest", path |-> p] : p \in IF recent # <<>> THEN {Latest} ELSE {}}
        \cup {[by |-> "id", path |-> p] : p \in {q \in Path : Managed(q) /\ Exists(q)
                 /\ (q.ext = "json" => ~Exists([q EXCEPT !.ext = "jsonl"]))}}
        \cup {[by |-> "path", path |-> p] : p \in {q \in Path : Exists(q)}}

\* The id of the handle: of the session listed, or of the file's name; a name
\* without a session extension leaves the reference itself, which is no id.
HandleId(ref) ==
    IF ref.by = "latest" THEN files[ref.path].id
    ELSE IF Managed(ref.path) THEN ref.path.stem ELSE 0

Without(s, p) ==
    IF p \in ToSet(s) THEN RemoveAt(s, CHOOSE i \in 1..Len(s) : s[i] = p) ELSE s

\* save_to_path: the file is what the session is.
Write(p, s) ==
    /\ files' = [files EXCEPT ![p] = s]
    /\ recent' = IF Managed(p) THEN Append(Without(recent, p), p) ELSE recent

OpenIn(p, repls) == \E r \in repls : repl[r].on /\ repl[r].path = p
Opened(p, already) == mingled' = IF already THEN mingled \cup {p} ELSE mingled

Session(c) == [id |-> c.sid, msgs |-> c.msgs]

-----------------------------------------------------------------------------
(* REPL processes.                                                         *)

Live(id, msgs, path) ==
    [on |-> TRUE, id |-> id, path |-> path, sid |-> id, msgs |-> msgs, spath |-> path]

\* LiveCli::new: a fresh session in a file of its own.
Start(r) ==
    /\ ~repl[r].on
    /\ nextId <= MaxId
    /\ nextId' = nextId + 1
    /\ repl' = [repl EXCEPT ![r] = Live(nextId, {}, HandlePath(nextId))]
    /\ Write(HandlePath(nextId), [id |-> nextId, msgs |-> {}])
    /\ UNCHANGED <<shot, nextMsg, parent, acked, removed, mingled>>

\* Mutant: the session is saved before the runtime is replaced.
TurnSavesFirst(r) ==
    LET c == repl[r]  s == Session(c)
    IN  /\ c.on
        /\ nextMsg <= MaxMsg
        /\ nextMsg' = nextMsg + 1
        /\ acked' = acked \cup {[msg |-> nextMsg, path |-> c.path, sid |-> c.sid]}
        /\ repl' = [repl EXCEPT ![r].msgs = @ \cup {nextMsg}]
        /\ Write(c.path, s)
        /\ UNCHANGED <<shot, nextId, parent, removed, mingled>>

\* run_turn: the runtime's clone of the session appends its messages to its
\* file (which is written in full if it is gone), then replaces the session of
\* the REPL, which is saved.  A turn that fails ends the process.
Turn(r) ==
    LET c == repl[r]  s == Session(c)  f == files[c.spath]
    IN  /\ c.on
        /\ nextMsg <= MaxMsg
        /\ nextMsg' = nextMsg + 1
        /\ acked' = acked \cup {[msg |-> nextMsg, path |-> c.path, sid |-> c.sid]}
        /\ \/ /\ repl' = [repl EXCEPT ![r].msgs = @ \cup {nextMsg}]
              /\ Write(c.path, [s EXCEPT !.msgs = @ \cup {nextMsg}])
           \/ /\ repl' = [repl EXCEPT ![r] = Off]
              /\ Write(c.spath, IF f = NoFile THEN [s EXCEPT !.msgs = @ \cup {nextMsg}]
                                ELSE [f EXCEPT !.msgs = @ \cup {nextMsg}])
        /\ UNCHANGED <<shot, nextId, parent, removed, mingled>>

\* Commands that rebuild the runtime and save: /model, /permissions, /compact,
\* /plugins; also the quitting of the REPL.
Persist(r) ==
    LET c == repl[r]
    IN  /\ c.on
        /\ Write(c.path, Session(c))
        /\ repl' \in {repl, [repl EXCEPT ![r] = Off]}
        /\ UNCHANGED <<shot, nextId, nextMsg, parent, acked, removed, mingled>>

\* /clear --confirm: a fresh session in a new file; the old file stays.
Clear(r) ==
    LET c == repl[r]
    IN  /\ c.on /\ nextId <= MaxId
        /\ nextId' = nextId + 1
        /\ repl' = [repl EXCEPT ![r] = Live(nextId, {}, HandlePath(nextId))]
        /\ Write(HandlePath(nextId), [id |-> nextId, msgs |-> {}])
        /\ UNCHANGED <<shot, nextMsg, parent, acked, removed, mingled>>

\* /resume and /session switch: the session of the file, under its own id and
\* the file's path; then saved.
Resume(r, ref) ==
    LET f == files[ref.path]
    IN  /\ repl[r].on
        /\ repl' = [repl EXCEPT ![r] = Live(f.id, f.msgs, ref.path)]
        /\ Write(ref.path, f)
        /\ Opened(ref.path, OpenIn(ref.path, Repl \ {r}) \/ shot.path = ref.path)
        /\ UNCHANGED <<shot, nextId, nextMsg, parent, acked, removed>>

\* Mutant: the fork goes on in the parent's file.
ForkSharesFile(r) ==
    LET c == repl[r]
    IN  /\ c.on /\ nextId <= MaxId
        /\ nextId' = nextId + 1
        /\ parent' = [parent EXCEPT ![nextId] = c.sid]
        /\ Write(HandlePath(nextId), [id |-> nextId, msgs |-> c.msgs])
        /\ repl' = [repl EXCEPT ![r] =
                      [Live(nextId, c.msgs, HandlePath(nextId)) EXCEPT !.spath = c.spath]]
        /\ UNCHANGED <<shot, nextMsg, acked, removed, mingled>>

\* /session fork: a copy of the messages under a new id in a file of its own,
\* saved before the runtime is built; if building it fails the process ends.
Fork(r) ==
    LET c == repl[r]
    IN  /\ c.on /\ nextId <= MaxId
        /\ nextId' = nextId + 1
        /\ parent' = [parent EXCEPT ![nextId] = c.sid]
        /\ Write(HandlePath(nextId), [id |-> nextId, msgs |-> c.msgs])
        /\ \/ repl' = [repl EXCEPT ![r] = Live(nextId, c.msgs, HandlePath(nextId))]
           \/ repl' = [repl EXCEPT ![r] = Off]
        /\ UNCHANGED <<shot, nextMsg, acked, removed, mingled>>

\* /session delete, after the question where there is one: refused if the
\* handle's id is the active session's.
Delete(r, ref) ==
    /\ repl[r].on
    /\ HandleId(ref) # repl[r].id
    /\ removed' = removed \cup files[ref.path].msgs
    /\ files' = [files EXCEPT ![ref.path] = NoFile]
    /\ recent' = Without(recent, ref.path)
    /\ UNCHANGED <<repl, shot, nextId, nextMsg, parent, acked, mingled>>

\* A crash, or a command that fails: its error ends the REPL without a save.
Die(r) ==
    /\ repl[r].on
    /\ repl' = [repl EXCEPT ![r] = Off]
    /\ UNCHANGED <<files, recent, shot, nextId, nextMsg, parent, acked, removed, mingled>>

-----------------------------------------------------------------------------
(* claw --resume <session> <commands>.                                     *)

ShotLoad(ref) ==
    LET f == files[ref.path]
    IN  /\ shot = Idle
        /\ shot' = [Idle EXCEPT !.path = ref.path, !.sid = f.id, !.msgs = f.msgs]
        /\ Opened(ref.path, OpenIn(ref.path, Repl))
        /\ UNCHANGED <<files, recent, repl, nextId, nextMsg, parent, acked, removed>>

ShotCompact ==
    /\ shot # Idle /\ ~shot.backed
    /\ Write(shot.path, [id |-> shot.sid, msgs |-> shot.msgs])
    /\ UNCHANGED <<repl, shot, nextId, nextMsg, parent, acked, removed, mingled>>

\* The name of a backup has the time in it: nobody has it.  (Bound: one backup
\* of a file exists at a time.)
Fresh(p) == ~Exists(p) /\ \A r \in Repl : repl[r].path # p

\* Mutant: what /clear replaces is not kept.
ShotNoBackup ==
    /\ shot # Idle /\ ~shot.backed
    /\ shot.path.ext # "bak" /\ Fresh([shot.path EXCEPT !.ext = "bak"])
    /\ shot' = [shot EXCEPT !.backed = TRUE]
    /\ UNCHANGED <<files, recent, repl, nextId, nextMsg, parent, acked, removed, mingled>>

\* /clear --confirm writes a backup beside the file...
ShotBackup ==
    /\ shot # Idle /\ ~shot.backed
    /\ shot.path.ext # "bak" /\ Fresh([shot.path EXCEPT !.ext = "bak"])
    /\ Write([shot.path EXCEPT !.ext = "bak"], [id |-> shot.sid, msgs |-> shot.msgs])
    /\ shot' = [shot EXCEPT !.backed = TRUE]
    /\ UNCHANGED <<repl, nextId, nextMsg, parent, acked, removed, mingled>>

\* ... then a fresh session, with an id of its own, into the same file.
ShotClear ==
    /\ shot.backed /\ nextId <= MaxId
    /\ nextId' = nextId + 1
    /\ Write(shot.path, [id |-> nextId, msgs |-> {}])
    /\ shot' = [shot EXCEPT !.sid = nextId, !.msgs = {}, !.backed = FALSE]
    /\ UNCHANGED <<repl, nextMsg, parent, acked, removed, mingled>>

\* The last command is done, one fails, or the process crashes.
ShotExit ==
    /\ shot # Idle
    /\ shot' = Idle
    /\ UNCHANGED <<files, recent, repl, nextId, nextMsg, parent, acked, removed, mingled>>

Next ==
    \/ \E r \in Repl :
          \/ Start(r) \/ Turn(r) \/ Persist(r) \/ Clear(r) \/ Fork(r) \/ Die(r)
          \/ \E ref \in Resolved : Resume(r, ref) \/ Delete(r, ref)
    \/ \E ref \in Resolved : ShotLoad(ref)
    \/ ShotCompact \/ ShotBackup \/ ShotClear \/ ShotExit

Spec == Init /\ [][Next]_vars

-----------------------------------------------------------------------------
\* The type invariant.
TypeOK ==
    /\ files \in [Path -> [id : Id \cup {0}, msgs : SUBSET Msg]]
    /\ recent \in Seq(Path) /\ IsInjective(recent)
    /\ ToSet(recent) = {p \in Path : Exists(p) /\ Managed(p)}
    /\ repl \in [Repl -> {Off} \cup [on : {TRUE}, id : Id, path : Path, sid : Id,
                                     msgs : SUBSET Msg, spath : Path]]
    /\ shot \in [path : Path \cup {NoPath}, sid : Id \cup {0}, msgs : SUBSET Msg,
                 backed : BOOLEAN]
    /\ nextId \in 1..(MaxId + 1) /\ nextMsg \in 1..(MaxMsg + 1)
    /\ parent \in [Id -> Id \cup {0}] /\ removed \subseteq Msg /\ mingled \subseteq Path

\* The handle the REPL shows, saves to and protects from deletion is the
\* session in memory and the file that session appends to.
HandleIsSession ==
    \A r \in Repl : repl[r].id = repl[r].sid /\ repl[r].path = repl[r].spath

\* A message a turn put on record is in some session file until the user
\* deletes its session; two processes on one file at once are the exception
\* (see the hazards).
NothingLost ==
    \A a \in acked :
       \/ a.path \in mingled \/ a.msg \in removed
       \/ \E p \in Path : a.msg \in files[p].msgs

\* A message is only in files of the session it was said in and of sessions
\* forked from it: /clear, /resume and forks never mix conversations.
Descends[i \in Id] ==
    {i} \cup IF parent[i] = 0 THEN {} ELSE Descends[parent[i]]
NoMixing ==
    \A a \in acked, p \in Path :
       a.msg \in files[p].msgs /\ a.path \notin mingled =>
          a.sid \in Descends[files[p].id]

\* Whatever command came last, a crash loses nothing: the active file is the
\* session in memory, unless another process had it open or removed it.
DiskIsCurrent ==
    \A r \in Repl : LET p == repl[r].path IN
       repl[r].on /\ p \notin mingled /\ Exists(p) => files[p] = Session(repl[r])

\* What a REPL shows as its session is the one in its memory, the one its turns are
\* appended to, and, unless two processes are on one file, what that file holds.
ShownIsOnDisk == TypeOK /\ HandleIsSession /\ DiskIsCurrent

ActiveEverywhere(p) ==
    /\ \E r \in Repl : repl[r].on
    /\ \A r \in Repl : repl[r].on => repl[r].path = p

\* "delete: refusing to delete the active session": no delete removes the file
\* of a session that is active in every running REPL.
DeleteSparesActive ==
    [][\A p \in Path : ActiveEverywhere(p) /\ Exists(p) => files'[p] # NoFile]_vars

=============================================================================
