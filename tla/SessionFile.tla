---------------------------- MODULE SessionFile ----------------------------
(***************************************************************************)
(* The session file at the grain of its I/O calls                          *)
(* (src/rust/crates/runtime/src/session.rs).  push_message and             *)
(* push_prompt_entry append one JSONL record, its content and its newline  *)
(* in two writes; save_to_path renders the whole session, rotates a large  *)
(* file away, writes a temporary file and renames it into place, then      *)
(* deletes old rotations.  Every call may fail, and the process may be     *)
(* killed between any two of them or inside a write.                       *)
(*                                                                         *)
(* A failed prompt entry is only warned about by the CLI; a failed message *)
(* or save ends the process (see ConversationTurn).                        *)
(***************************************************************************)
EXTENDS Naturals, Sequences

CONSTANTS
    RotateAt,    \* ROTATE_AFTER_BYTES, in records of one size
    MaxRotated,  \* MAX_ROTATED_FILES
    Preserve,    \* CompactionConfig::preserve_recent_messages
    MaxMessages, MaxPrompts, MaxLives    \* bounds

ASSUME SizesAssumption == /\ RotateAt \in Nat \ {0} /\ Preserve \in Nat \ {0}
                          /\ MaxRotated \in Nat \ {0}
ASSUME FileBoundsAssumption == MaxMessages \in Nat /\ MaxPrompts \in Nat /\ MaxLives \in Nat

VARIABLES
    pc,        \* the call the process is about to make, see PC
    op,        \* the operation it belongs to
    messages,  \* Session::messages
    prompts,   \* Session::prompt_history
    path,      \* content of the session file, <<>> when there is none
    rotated,   \* contents of the rotated files, oldest first
    lives,     \* processes so far, only for the bound
    acked      \* history: the last message whose push returned Ok, or that
               \* was restored

vars == <<pc, op, messages, prompts, path, rotated, lives, acked>>

PC == {"idle", "append", "newline", "rotate", "write", "cleanup", "exited"}
Op == {"none", "message", "prompt", "persist"}

(***************************************************************************)
(* A record's id is its position in the conversation; a summary stands for *)
(* all messages up to its id.  A chunk is what one append left: a line, a  *)
(* record still without its newline (the next chunk continues its line) or *)
(* a proper prefix of a record, which is not JSON.                         *)
(***************************************************************************)
Record == [kind : {"meta", "prompt", "summary", "message"}, id : Nat]
Chunk == [rec : Record, st : {"line", "bare", "torn"}]

Rec(k, n) == [kind |-> k, id |-> n]
LastId(s) == IF s = <<>> THEN 0 ELSE s[Len(s)].id

PrefixLen(s) == IF s # <<>> /\ s[1].kind = "summary" THEN 1 ELSE 0

\* Mutant: the snapshot forgets the prompt history.
SnapshotMessagesOnly ==
    LET recs == <<Rec("meta", 0)>> \o messages
    IN  [i \in 1..Len(recs) |-> [rec |-> recs[i], st |-> "line"]]

\* render_jsonl_snapshot
Snapshot ==
    LET recs == <<Rec("meta", 0)>> \o prompts \o messages
    IN  [i \in 1..Len(recs) |-> [rec |-> recs[i], st |-> "line"]]

\* load_from_path: one bad line and from_jsonl refuses the file.
Readable(f) ==
    /\ f # <<>>
    /\ \A i \in 1..Len(f) : f[i].st = "line" \/ (f[i].st = "bare" /\ i = Len(f))

\* The records of some kinds among the chunks of f, in order.
Records(f, kinds) ==
    LET kept[i \in 0..Len(f)] ==
            IF i = 0 THEN <<>>
            ELSE IF f[i].rec.kind \in kinds THEN Append(kept[i - 1], f[i].rec) ELSE kept[i - 1]
    IN  kept[Len(f)]
LoadMessages(f) == Records(f, {"summary", "message"})
LoadPrompts(f) == Records(f, {"prompt"})

Init ==
    /\ pc = "idle" /\ op = "none"
    /\ messages = <<>> /\ prompts = <<>>
    /\ path = <<>> /\ rotated = <<>>
    /\ lives = 1 /\ acked = 0

Exit ==
    /\ pc' = "exited" /\ op' = "none"
    /\ messages' = <<>> /\ prompts' = <<>>
    /\ UNCHANGED <<lives, acked>>

CallReturns ==
    /\ pc' = "idle" /\ op' = "none"
    /\ acked' = IF op = "message" THEN LastId(messages) ELSE acked
    /\ UNCHANGED <<messages, prompts, lives>>

\* A prompt entry stays in memory and the session goes on; any other failure
\* ends the process.
CallFails ==
    IF op = "prompt"
    THEN /\ pc' = "idle" /\ op' = "none"
         /\ UNCHANGED <<messages, prompts, lives, acked>>
    ELSE Exit

-----------------------------------------------------------------------------
\* append_persisted_*: a missing or empty file is written whole.
StartAppend == pc' = IF path = <<>> THEN "rotate" ELSE "append"

PushMessage ==
    /\ pc = "idle" /\ LastId(messages) < MaxMessages
    /\ messages' = Append(messages, Rec("message", LastId(messages) + 1))
    /\ op' = "message"
    /\ StartAppend
    /\ UNCHANGED <<prompts, path, rotated, lives, acked>>

PushPromptEntry ==
    /\ pc = "idle" /\ Len(prompts) < MaxPrompts
    /\ prompts' = Append(prompts, Rec("prompt", Len(prompts) + 1))
    /\ op' = "prompt"
    /\ StartAppend
    /\ UNCHANGED <<messages, path, rotated, lives, acked>>

\* persist_session, at the end of a turn or of the process.
Persist ==
    /\ pc = "idle"
    /\ op' = "persist" /\ pc' = "rotate"
    /\ UNCHANGED <<messages, prompts, path, rotated, lives, acked>>

\* A compaction, automatic or by /compact, and then persist_session.
CompactAndPersist ==
    /\ pc = "idle"
    /\ Len(messages) - PrefixLen(messages) > Preserve
    /\ LET keepFrom == Len(messages) - Preserve
       IN  messages' = <<Rec("summary", messages[keepFrom].id)>>
                          \o SubSeq(messages, keepFrom + 1, Len(messages))
    /\ op' = "persist" /\ pc' = "rotate"
    /\ UNCHANGED <<prompts, path, rotated, lives, acked>>

Appended == LET s == IF op = "message" THEN messages ELSE prompts IN s[Len(s)]

\* Mutant: the record stays in a buffer nobody flushes.
AppendContentBuffered ==
    /\ pc = "append"
    /\ CallReturns
    /\ UNCHANGED <<path, rotated>>

\* The content: written, or partly written, or not at all.
AppendContent ==
    /\ pc = "append"
    /\ \/ /\ path' = Append(path, [rec |-> Appended, st |-> "bare"])
          /\ pc' = "newline"
          /\ UNCHANGED <<op, messages, prompts, lives, acked>>
       \/ /\ path' \in {path, Append(path, [rec |-> Appended, st |-> "torn"])}
          /\ CallFails
    /\ UNCHANGED rotated

\* writeln! issues the newline as a write of its own.
AppendNewline ==
    /\ pc = "newline"
    /\ \/ path' = [path EXCEPT ![Len(path)].st = "line"] /\ CallReturns
       \/ UNCHANGED path /\ CallFails
    /\ UNCHANGED rotated

\* rotate_session_file_if_needed.  The rotated name has the time in
\* milliseconds: a second rotation in the same one replaces the first.
Rotate ==
    /\ pc = "rotate"
    /\ \/ /\ Len(path) < RotateAt
          /\ pc' = "write"
          /\ UNCHANGED <<op, messages, prompts, path, rotated, lives, acked>>
       \/ /\ Len(path) >= RotateAt
          /\ path' = <<>>
          /\ \/ rotated' = Append(rotated, path)
             \/ rotated # <<>> /\ rotated' = [rotated EXCEPT ![Len(rotated)] = path]
          /\ pc' = "write"
          /\ UNCHANGED <<op, messages, prompts, lives, acked>>
       \/ /\ Len(path) >= RotateAt
          /\ CallFails
          /\ UNCHANGED <<path, rotated>>

\* write_atomic: a temporary file nobody reads, then the rename.
WriteAtomic ==
    /\ pc = "write"
    /\ \/ /\ path' = Snapshot
          /\ pc' = "cleanup"
          /\ UNCHANGED <<op, messages, prompts, lives, acked>>
       \/ UNCHANGED path /\ CallFails
    /\ UNCHANGED rotated

DropOldest(n) == SubSeq(rotated, n + 1, Len(rotated))
Surplus(limit) == IF Len(rotated) > limit THEN Len(rotated) - limit ELSE 0

\* cleanup_rotated_logs removes the surplus one by one, oldest first.
Cleanup ==
    /\ pc = "cleanup"
    /\ \/ rotated' = DropOldest(Surplus(MaxRotated)) /\ CallReturns
       \/ /\ \E n \in 0..Surplus(MaxRotated) : rotated' = DropOldest(n)
          /\ CallFails
    /\ UNCHANGED path

\* The process dies; a write it was in may have got part of the way.
Kill ==
    /\ pc # "exited"
    /\ path' \in {path} \cup IF pc = "append"
                             THEN {Append(path, [rec |-> Appended, st |-> "torn"])} ELSE {}
    /\ Exit
    /\ UNCHANGED rotated

\* A new process loads the file, when it can, and persists the session.
Resume ==
    /\ pc = "exited" /\ lives < MaxLives
    /\ Readable(path)
    /\ messages' = LoadMessages(path) /\ prompts' = LoadPrompts(path)
    /\ acked' = LastId(LoadMessages(path))
    /\ op' = "persist" /\ pc' = "rotate"
    /\ lives' = lives + 1
    /\ UNCHANGED <<path, rotated>>

Next ==
    \/ PushMessage \/ PushPromptEntry \/ Persist \/ CompactAndPersist
    \/ AppendContent \/ AppendNewline
    \/ Rotate \/ WriteAtomic \/ Cleanup
    \/ Kill \/ Resume

Spec == Init /\ [][Next]_vars

-----------------------------------------------------------------------------
(***************************************************************************)
(* Properties.                                                             *)
(***************************************************************************)
\* The type invariant.
TypeOK ==
    /\ pc \in PC /\ op \in Op
    /\ messages \in Seq(Record) /\ prompts \in Seq(Record)
    /\ path \in Seq(Chunk) /\ rotated \in Seq(Seq(Chunk))
    /\ lives \in Nat /\ acked \in Nat

\* Content f holds message n, readable or on a line that is damaged elsewhere.
Holds(f, n) ==
    \E i \in 1..Len(f) :
       /\ f[i].st # "torn"
       /\ \/ f[i].rec = Rec("message", n)
          \/ f[i].rec.kind = "summary" /\ n <= f[i].rec.id

\* An acknowledged message never leaves the disk, whatever fails and whenever
\* the process dies: the session file holds it, or, in the window of a save
\* between the two renames, the newest rotation does.
AckedOnDisk ==
    \A n \in 1..acked :
       \/ Holds(path, n)
       \/ path = <<>> /\ rotated # <<>> /\ Holds(rotated[Len(rotated)], n)

\* Between calls, a file that can be read restores the messages in memory,
\* even after failed prompt entries.
ReadableIsCurrent ==
    pc = "idle" /\ Readable(path) => LoadMessages(path) = messages

\* What a dead process left, if it can be read, is the acknowledged messages
\* in order, at most followed by the one whose append did not return.
LoadsAcked ==
    pc = "exited" /\ Readable(path) =>
       LET s == LoadMessages(path)
       IN  /\ LastId(s) \in {acked, acked + 1}
           /\ \A i \in 1..(Len(s) - 1) : s[i + 1].id = s[i].id + 1

\* A save that returns repairs whatever earlier failures left in the file: it
\* restores messages and prompt history as they are in memory.
SaveRepairs ==
    [][op = "persist" /\ pc' = "idle" =>
          /\ Readable(path')
          /\ LoadMessages(path') = messages' /\ LoadPrompts(path') = prompts']_vars

\* No more than MaxRotated rotations are left while the session is in use,
\* also when a cleanup failed in an earlier life.
RotatedBounded == pc = "idle" => Len(rotated) <= MaxRotated

\* What push_message and a save acknowledged is on disk, in order, whatever fails and
\* whenever the process dies; a file that can be read restores the messages in memory,
\* and rotations do not pile up.
SessionKept == TypeOK /\ AckedOnDisk /\ ReadableIsCurrent /\ LoadsAcked /\ RotatedBounded

\* A push_message that returned Ok left a file load_from_path can replay.
AppendReplays == [][op = "message" /\ pc' = "idle" => Readable(path')]_vars
=============================================================================
