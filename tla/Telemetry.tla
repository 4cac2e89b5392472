------------------------------- MODULE Telemetry -------------------------------
(***************************************************************************)
(* The trace of a session (src/rust/crates/telemetry): SessionTracer,      *)
(* whose clones share one counter and one sink, and JsonlTelemetrySink,    *)
(* with what a turn (runtime/src/conversation.rs) and the requests of a    *)
(* client (api/src/providers/anthropic.rs) record.  A runner holds a clone *)
(* for its conversation and client, a sender for a client alone; a write   *)
(* to the sink may fail, and so may saving a message of the turn.          *)
(***************************************************************************)
EXTENDS Integers, Sequences, FiniteSets

CONSTANTS
    Runner, Sender,  \* the clones of the tracer, by who holds them
    Resends,         \* max_retries of the client
    MaxTraced,       \* bound: records numbered
    MaxLost          \* bound: writes that fail

ASSUME HoldersAssumption == Runner \cap Sender = {}

VARIABLES
    sequence,  \* the AtomicU64 of the tracer
    lines,     \* the lines of the file, whatever their order: the events on each
    open,      \* the events on a line that has no end yet
    holder,    \* [clone -> pc, attempt, calls of tools to come, events to record]
    unwritten,      \* history: events whose write failed
    unsaid     \* history: runners whose turn ended at a message that was not saved

traceVars == <<sequence, lines, open, holder, unwritten, unsaid>>
Holder == Runner \cup Sender

Unnumbered == -1
TelemetryEvent(h, name, n, traced) == [by |-> h, name |-> name, n |-> n, trace |-> traced, seq |-> Unnumbered]
\* What is recorded of a request and of its use is an event of its own, without a
\* number, followed by a record of the same.
Doubled(h, name, n) == <<TelemetryEvent(h, name, n, FALSE), TelemetryEvent(h, name, n, TRUE)>>
Says(h, name) == <<TelemetryEvent(h, name, 0, TRUE)>>

TraceInit == /\ sequence = 0 /\ lines = {} /\ open = {} /\ unwritten = {} /\ unsaid = {}
             /\ holder = [h \in Holder |-> [pc |-> IF h \in Runner THEN "idle" ELSE "send",
                                            attempt |-> 0, tools |-> 0, todo |-> <<>>]]
-----------------------------------------------------------------------------
(* The tracer and its sink.                                                *)

Due(h) == Head(holder[h].todo)
\* SessionTracer::record: fetch_add, before the lock of the sink is taken.
TakeNumber(h) ==
    /\ holder[h].todo # <<>> /\ Due(h).trace /\ Due(h).seq = Unnumbered
    /\ sequence' = sequence + 1
    /\ holder' = [holder EXCEPT ![h].todo[1].seq = sequence]
    /\ UNCHANGED <<lines, open, unwritten, unsaid>>
\* JsonlTelemetrySink::record: under the lock the line and then its end are written;
\* the failure of either is ignored.
WriteLine(h) ==
    LET line == open \cup {Due(h)}
        Fails == Cardinality(unwritten) < MaxLost /\ unwritten' = unwritten \cup {Due(h)}
    IN  /\ holder[h].todo # <<>> /\ (Due(h).trace => Due(h).seq # Unnumbered)
        /\ \/ lines' = lines \cup {line} /\ open' = {} /\ UNCHANGED unwritten
           \/ Fails /\ open' = line /\ UNCHANGED lines
           \/ Fails /\ UNCHANGED <<lines, open>>
        /\ holder' = [holder EXCEPT ![h].todo = Tail(@)]
        /\ UNCHANGED <<sequence, unsaid>>
-----------------------------------------------------------------------------
(* What is recorded when.                                                  *)

Moves(h, pc, next, events) ==
    /\ holder[h].pc = pc /\ holder[h].todo = <<>> /\ sequence < MaxTraced
    /\ holder' = [holder EXCEPT ![h] = [next EXCEPT !.todo = events]]
    /\ UNCHANGED <<sequence, lines, open, unwritten>>
Goto(h, pc, next, events) == Moves(h, pc, [holder[h] EXCEPT !.pc = next], events)
Step(h, pc, next, events) == Goto(h, pc, next, events) /\ UNCHANGED unsaid
\* A message that cannot be saved ends the turn, and nothing is recorded of that.
Save(h, pc, next) ==
    \/ Step(h, pc, next, <<>>)
    \/ Goto(h, pc, "over", <<>>) /\ unsaid' = unsaid \cup {h}

\* preflight_message_request, which may refuse the request, and send_with_retry.
Requests(h) ==
    LET n == holder[h].attempt
    IN  \/ n = 0 /\ Step(h, "send", "failed", <<>>)
        \/ /\ Moves(h, "send", [holder[h] EXCEPT !.pc = "sent", !.attempt = n + 1], Doubled(h, "started", n + 1))
           /\ UNCHANGED unsaid
        \/ Step(h, "sent", "answered", Doubled(h, "succeeded", n))
        \/ Step(h, "sent", IF n > Resends THEN "failed" ELSE "send", Doubled(h, "failed", n))
        \/ Step(h, "sent", "failed", Doubled(h, "failed", n))
\* send_message of a client: the prompt cache may have the answer before any attempt, and
\* an answer that cannot be read has no usage.
SenderStep(h) ==
    \/ Requests(h)
    \/ holder[h].attempt = 0 /\ Step(h, "send", "over", <<>>)
    \/ Step(h, "answered", "over", Doubled(h, "message_usage", 0))
    \/ Step(h, "answered", "over", <<>>)
    \/ Step(h, "failed", "over", <<>>)
\* run_turn: the iteration limit, the stream and the answer may end it.
RunTurn(h) ==
    \/ Step(h, "idle", "user", Says(h, "turn_started"))
    \/ Save(h, "user", "iterate")
    \/ /\ Moves(h, "iterate", [holder[h] EXCEPT !.pc = "send", !.attempt = 0], <<>>) /\ UNCHANGED unsaid
    \/ Requests(h)
    \/ \E pc \in {"iterate", "answered", "failed"} : Step(h, pc, "over", Says(h, "turn_failed"))
    \/ \E k \in 0..1 : /\ Moves(h, "answered", [holder[h] EXCEPT !.pc = "answer", !.tools = k],
                                Says(h, "assistant_iteration_completed"))
                       /\ UNCHANGED unsaid
    \/ Save(h, "answer", IF holder[h].tools = 0 THEN "complete" ELSE "tool")
    \/ Step(h, "tool", "result", Says(h, "tool_execution_started"))   \* permitted
    \/ Step(h, "tool", "result", <<>>)
    \/ Save(h, "result", "finish")
    \/ Step(h, "finish", "iterate", Says(h, "tool_execution_finished"))
    \/ Step(h, "complete", "over", Says(h, "turn_completed"))

TraceNext ==
    \/ \E h \in Holder : TakeNumber(h) \/ WriteLine(h)
    \/ \E h \in Sender : SenderStep(h)
    \/ \E h \in Runner : RunTurn(h)
TraceSpec == TraceInit /\ [][TraceNext]_traceVars
-----------------------------------------------------------------------------
Recorded == (UNION lines) \cup unwritten
            \cup {Due(h) : h \in {g \in Holder : holder[g].todo # <<>>}}
Traces(h) == {e \in Recorded : e.trace /\ e.by = h}
OfRequest(e) == e.name \in {"started", "succeeded", "failed"}

\* However the clones of a tracer take turns and writes fail, every number is given
\* once, and by the numbers the trace of each can be told: an attempt that was started
\* is followed by its outcome before the next, and a turn that is over ended once, or
\* its message could not be saved.  An event that was written is on a line of its
\* own, or behind one whose write failed.
TraceKept ==
    /\ \A i \in 0..(sequence - 1) :
          Cardinality({e \in Recorded : e.trace /\ e.seq = i}) = 1
    /\ \A h \in Holder : (holder[h].pc # "sent" /\ holder[h].todo = <<>>) =>
          \A e \in Traces(h) : e.name = "started" =>
              \E o \in Traces(h) : /\ OfRequest(o) /\ o.name # "started" /\ o.n = e.n /\ o.seq > e.seq
                                   /\ \A x \in Traces(h) : OfRequest(x) => x.seq \notin (e.seq + 1)..(o.seq - 1)
    /\ \A h \in Runner : (holder[h].pc = "over" /\ holder[h].todo = <<>>) =>
          Cardinality({e \in Traces(h) : e.name \in {"turn_completed", "turn_failed"}})
             = IF h \in unsaid THEN 0 ELSE 1
    /\ \A line \in lines \cup {open} : Cardinality(line \ unwritten) <= 1
=============================================================================
