----------------------------- MODULE Transcript -----------------------------
(***************************************************************************)
(* What a persisted session promises: a log of messages that only grows at *)
(* its end, and whose oldest messages are now and then folded into a       *)
(* summary, in order and never the last Keep of them.  Neither a failed    *)
(* append nor the end of the process is visible here.                      *)
(***************************************************************************)
EXTENDS Naturals, Sequences

CONSTANTS Message, Keep

VARIABLES covered,  \* how many messages the summary stands for
          tail      \* the messages after the summary

Init == covered = 0 /\ tail = <<>>

\* tail' = Append(tail, m) for some m \in Message, in a form TLC evaluates.
AppendMessage ==
    /\ tail' # <<>>
    /\ LET m == tail'[Len(tail')] IN m \in Message /\ tail' = Append(tail, m)
    /\ UNCHANGED covered

Summarise ==
    \E n \in 1..(Len(tail) - Keep) :
        /\ covered' = covered + n
        /\ tail' = SubSeq(tail, n + 1, Len(tail))

Next == AppendMessage \/ Summarise

Spec == Init /\ [][Next]_<<covered, tail>>
=============================================================================
