----------------------- MODULE ConversationTurn_proofs -----------------------
(***************************************************************************)
(* Theorems about ConversationTurn, for every set of inputs, policy, hook  *)
(* configuration and bound.                                                *)
(***************************************************************************)
EXTENDS ConversationTurn, SequenceTheorems, TLAPS

(***************************************************************************)
(* Messages and sessions.                                                  *)
(***************************************************************************)
LEMMA NextIdType ==
    ASSUME NEW s \in Seq(Message)
    PROVE  LastId(s) \in Nat /\ NextId(s) \in Nat
<1>1. CASE s = <<>>
  BY <1>1 DEF LastId, NextId
<1>2. CASE s # <<>>
  <2>1. Len(s) \in 1..Len(s)
    BY <1>2
  <2>2. s[Len(s)] \in Message
    BY <2>1
  <2> QED
    BY <1>2, <2>2 DEF LastId, NextId, Message
<1> QED
  BY <1>1, <1>2

LEMMA CompactType ==
    ASSUME NEW s \in Seq(Message), NEW over \in BOOLEAN
    PROVE  CompactSession(s, over) \in Seq(Message)
<1>1. CASE ~ShouldCompact(s, over)
  BY <1>1 DEF CompactSession
<1>2. CASE ShouldCompact(s, over)
  <2> DEFINE k == Len(s) - Preserve
  <2>1. k \in 1..Len(s)
    BY <1>2, PreserveAssumption DEF ShouldCompact, PrefixLen
  <2>2. s[k].id \in Nat
    <3>1. s[k] \in Message
      BY <2>1
    <3> QED
      BY <3>1 DEF Message
  <2>3. <<Summary(s[k].id)>> \in Seq(Message)
    BY <2>2 DEF Summary, Message, NoUse
  <2>4. SubSeq(s, k + 1, Len(s)) \in Seq(Message)
    BY <2>1
  <2>5. CompactSession(s, over) = <<Summary(s[k].id)>> \o SubSeq(s, k + 1, Len(s))
    BY <1>2 DEF CompactSession
  <2> QED
    BY <2>3, <2>4, <2>5
<1> QED
  BY <1>1, <1>2

(***************************************************************************)
(* Type correctness.  QueueNotEmpty makes the invariant inductive: the     *)
(* head of the queue is a tool use only when there is one.                 *)
(***************************************************************************)
TypeInv == TypeOK /\ QueueNotEmpty

LEMMA NoGrantType == NoGrant \in Grant
BY DEF NoGrant, NoUse, Grant

LEMMA DieType ==
    ASSUME TypeOK, Die, file' \in Seq(Message)
    PROVE  TypeInv'
<1>1. deaths' \subseteq Nat
  <2>1. LastId(file') \in Nat
    BY NextIdType
  <2> QED
    BY <2>1 DEF Die, TypeOK
<1>2. phase' = "exited" /\ phase' \in Phase
  BY DEF Die, Phase
<1>3. live' \in Seq(Message) /\ work' \in Seq(Message) /\ pending' \in Seq(Nat \X Nat)
  BY DEF Die
<1>4. grant' \in Grant
  BY NoGrantType DEF Die
<1>5. iter' \in Nat /\ abort' \in BOOLEAN /\ late' \in Nat
  BY DEF Die
<1>6. turns' \in Nat /\ lives' \in Nat /\ ran' \subseteq Grant
  BY DEF Die, TypeOK
<1> QED
  BY <1>1, <1>2, <1>3, <1>4, <1>5, <1>6 DEF TypeInv, TypeOK, QueueNotEmpty

LEMMA FailType ==
    ASSUME TypeOK, Fail
    PROVE  TypeInv'
<1>1. Die /\ file' \in Seq(Message)
  BY DEF Fail, TypeOK
<1> QED
  BY <1>1, DieType

LEMMA PushFailsType ==
    ASSUME TypeOK, NEW m \in Message, PushFails(m)
    PROVE  TypeInv'
<1>1. file \in Seq(Message) /\ Append(file, m) \in Seq(Message)
  BY DEF TypeOK
<1>2. Die /\ file' \in Seq(Message)
  BY <1>1 DEF PushFails
<1> QED
  BY <1>2, DieType

\* Types of every variable, with what the actions need to know to keep them.
THEOREM TypeInvariant == Spec => []TypeInv
<1>1. Init => TypeInv
  <2> SUFFICES ASSUME Init PROVE TypeInv
    OBVIOUS
  <2>1. live \in Seq(Message) /\ work \in Seq(Message) /\ file \in Seq(Message)
    BY DEF Init
  <2>2. pending \in Seq(Nat \X Nat)
    BY DEF Init
  <2> QED
    BY <2>1, <2>2, NoGrantType DEF Init, TypeInv, TypeOK, QueueNotEmpty, Phase
<1>2. TypeInv /\ [Next]_vars => TypeInv'
  <2> SUFFICES ASSUME TypeInv, [Next]_vars
               PROVE  TypeInv'
    OBVIOUS
  <2> USE DEF TypeInv
  <2>1. CASE SubmitPrompt
    <3> DEFINE m == UserText(NextId(live))
    <3>1. m \in Message
      <4>1. NextId(live) \in Nat
        BY NextIdType DEF TypeOK
      <4> QED
        BY <4>1 DEF Message, UserText, NoUse
    <3>2. CASE PushFails(m)
      BY <3>1, <3>2, PushFailsType
    <3>3. CASE ~PushFails(m)
      <4>1. /\ work' = Append(live, m) /\ file' = Append(file, m)
            /\ phase' = "request"
            /\ iter' = 0 /\ abort' = FALSE /\ late' = 0
            /\ turns' = turns + 1
            /\ UNCHANGED <<live, pending, grant, lives, ran, deaths>>
        BY <2>1, <3>3 DEF SubmitPrompt
      <4>2. work' \in Seq(Message) /\ file' \in Seq(Message)
        BY <3>1, <4>1 DEF TypeOK
      <4>3. abort' \in BOOLEAN
        BY <4>1
      <4>6. iter' \in Nat /\ late' \in Nat /\ turns' \in Nat
        BY <4>1 DEF TypeOK
      <4>4. /\ phase' = "request" /\ phase' \in Phase
            /\ live' \in Seq(Message) /\ pending' \in Seq(Nat \X Nat)
        BY <4>1 DEF TypeOK, Phase
      <4>5. grant' \in Grant /\ lives' \in Nat /\ ran' \subseteq Grant /\ deaths' \subseteq Nat
        BY <4>1 DEF TypeOK
      <4> QED
        BY <4>2, <4>3, <4>4, <4>5, <4>6 DEF TypeOK, QueueNotEmpty
    <3> QED
      BY <3>2, <3>3
  <2>2. CASE Stream
    <3>1. PICK u \in 0..MaxUses :
             LET m == Assistant(NextId(work), u)
             IN  \/ /\ PushMessage(m)
                    /\ pending' = [j \in 1..u |-> <<m.id, j>>]
                    /\ phase' = IF u = 0 THEN "compact" ELSE "pre"
                    /\ iter' = iter + 1
                    /\ UNCHANGED <<live, grant, abort, turns, lives, ran, deaths, late>>
                 \/ PushFails(m)
      BY <2>2 DEF Stream
    <3> DEFINE m == Assistant(NextId(work), u)
    <3>2. u \in Nat /\ NextId(work) \in Nat
      BY NextIdType, MaxUsesAssumption DEF TypeOK
    <3>3. m \in Message /\ m.id = NextId(work)
      BY <3>2 DEF NoUse, Assistant, Message
    <3>4. CASE PushFails(m)
      BY <3>3, <3>4, PushFailsType
    <3>5. CASE ~PushFails(m)
      <4>1. /\ PushMessage(m)
            /\ pending' = [j \in 1..u |-> <<m.id, j>>]
            /\ phase' = IF u = 0 THEN "compact" ELSE "pre"
            /\ iter' = iter + 1
            /\ UNCHANGED <<live, grant, abort, turns, lives, ran, deaths, late>>
        BY <3>1, <3>5
      <4>2. pending' \in Seq(Nat \X Nat) /\ (u # 0 => pending' # <<>>)
        <5>1. pending' \in [1..u -> Nat \X Nat]
          BY <3>2, <3>3, <4>1
        <5>2. pending' \in Seq(Nat \X Nat)
          BY <3>2, <5>1
        <5>3. Len(pending') = u
          BY <3>2, <5>1, <5>2
        <5> QED
          BY <5>2, <5>3
      <4>3. work' \in Seq(Message) /\ file' \in Seq(Message)
        BY <3>3, <4>1 DEF TypeOK, PushMessage
      <4>4. phase' \in Phase /\ (phase' = "pre" => u # 0) /\ phase' \notin {"execute", "result"}
        BY <4>1 DEF Phase
      <4>5. iter' \in Nat /\ abort' \in BOOLEAN /\ late' \in Nat /\ turns' \in Nat /\ lives' \in Nat
        BY <4>1 DEF TypeOK
      <4>6. live' \in Seq(Message) /\ grant' \in Grant /\ ran' \subseteq Grant /\ deaths' \subseteq Nat
        BY <4>1 DEF TypeOK
      <4> QED
        BY <4>2, <4>3, <4>4, <4>5, <4>6 DEF TypeOK, QueueNotEmpty
    <3> QED
      BY <3>4, <3>5
  <2>3. CASE StreamFails
    BY <2>3, FailType DEF StreamFails
  <2>4. CASE TooManyIterations
    BY <2>4, FailType DEF TooManyIterations
  <2>5. CASE PreToolUse
    <3>0. PICK x \in Input, answer \in Answers : \E h \in PreHook(x) :
             LET ok == /\ h.verdict = "allow"
                       /\ AuthorizeWithContext(Question(h.updated, h.override, answer))
             IN  /\ phase' = IF ok THEN "execute" ELSE "result"
                 /\ grant' = IF ok
                             THEN [use |-> Head(pending), ok |-> TRUE, input |-> h.updated,
                                   override |-> h.override, answer |-> answer]
                             ELSE [use |-> Head(pending), ok |-> FALSE]
      BY <2>5 DEF PreToolUse
    <3>1. PICK h \in PreHook(x) :
             LET ok == /\ h.verdict = "allow"
                       /\ AuthorizeWithContext(Question(h.updated, h.override, answer))
             IN  /\ phase' = IF ok THEN "execute" ELSE "result"
                 /\ grant' = IF ok
                             THEN [use |-> Head(pending), ok |-> TRUE, input |-> h.updated,
                                   override |-> h.override, answer |-> answer]
                             ELSE [use |-> Head(pending), ok |-> FALSE]
      BY <3>0
    <3>2. Head(pending) \in Nat \X Nat
      BY <2>5 DEF PreToolUse, TypeOK, QueueNotEmpty
    <3>3. answer \in Answer
      BY DEF Answers, Answer
    <3>4. h.updated \in Input /\ h.override \in PermissionOverride
      BY DEF PreHook, HookAnswers, HookResult, PermissionOverride
    <3>5. grant' \in Grant
      BY <3>1, <3>2, <3>3, <3>4 DEF Grant
    <3>6. phase' \in {"execute", "result"}
      BY <3>1
    <3> QED
      BY <2>5, <3>5, <3>6 DEF PreToolUse, TypeOK, QueueNotEmpty, Phase
  <2>6. CASE ExecuteTool
    BY <2>6 DEF ExecuteTool, TypeOK, QueueNotEmpty, Phase
  <2>7. CASE PushResult
    <3> DEFINE m == ToolResult(NextId(work), grant.use, grant.ok)
    <3>1. m \in Message
      <4>1. NextId(work) \in Nat
        BY NextIdType DEF TypeOK
      <4>2. grant.use \in Nat \X Nat /\ grant.ok \in BOOLEAN
        BY DEF TypeOK, Grant
      <4> QED
        BY <4>1, <4>2 DEF ToolResult, Message
    <3>2. CASE PushFails(m)
      BY <3>1, <3>2, PushFailsType
    <3>3. CASE ~PushFails(m)
      <4>1. /\ PushMessage(m)
            /\ pending' = Tail(pending)
            /\ phase' = IF Tail(pending) = <<>> THEN "request" ELSE "pre"
            /\ grant' = NoGrant
            /\ UNCHANGED <<live, iter, abort, turns, lives, ran, deaths, late>>
        BY <2>7, <3>3 DEF PushResult
      <4>2. pending' \in Seq(Nat \X Nat)
        BY <2>7, <4>1 DEF PushResult, TypeOK, QueueNotEmpty
      <4>3. work' \in Seq(Message) /\ file' \in Seq(Message)
        BY <3>1, <4>1 DEF TypeOK, PushMessage
      <4> QED
        BY <4>1, <4>2, <4>3, NoGrantType DEF TypeOK, QueueNotEmpty, Phase
    <3> QED
      BY <3>2, <3>3
  <2>8. CASE AutoCompact
    <3>1. work' \in Seq(Message)
      BY <2>8, CompactType DEF AutoCompact, TypeOK
    <3> QED
      BY <2>8, <3>1 DEF AutoCompact, TypeOK, QueueNotEmpty, Phase
  <2>9. CASE ReplaceRuntime
    <3>1. CASE Fail
      BY <3>1, FailType
    <3>2. CASE ~Fail
      <4>1. /\ live' = work /\ work' = <<>> /\ phase' = "persist"
            /\ iter' = 0 /\ abort' = FALSE /\ late' = 0
            /\ UNCHANGED <<file, pending, grant, turns, lives, ran, deaths>>
        BY <2>9, <3>2 DEF ReplaceRuntime
      <4>2. iter' \in Nat /\ abort' \in BOOLEAN /\ late' \in Nat
        BY <4>1
      <4>3. /\ phase' \in Phase /\ work' \in Seq(Message)
            /\ live' \in Seq(Message) /\ file' \in Seq(Message)
        BY <4>1 DEF TypeOK, Phase
      <4>4. /\ pending' \in Seq(Nat \X Nat) /\ grant' \in Grant /\ turns' \in Nat /\ lives' \in Nat
            /\ ran' \subseteq Grant /\ deaths' \subseteq Nat
        BY <4>1 DEF TypeOK
      <4> QED
        BY <4>1, <4>2, <4>3, <4>4 DEF TypeOK, QueueNotEmpty
    <3> QED
      BY <3>1, <3>2
  <2>10. CASE PersistSession
    <3>1. CASE Fail
      BY <3>1, FailType
    <3>2. CASE ~Fail
      BY <2>10, <3>2 DEF PersistSession, TypeOK, QueueNotEmpty, Phase
    <3> QED
      BY <3>1, <3>2
  <2>11. CASE SlashCompact
    <3>1. live' \in Seq(Message)
      BY <2>11, CompactType DEF SlashCompact, TypeOK
    <3> QED
      BY <2>11, <3>1 DEF SlashCompact, TypeOK, QueueNotEmpty, Phase
  <2>12. CASE Quit
    <3>1. Die /\ file' \in Seq(Message)
      BY <2>12 DEF Quit, TypeOK
    <3> QED
      BY <3>1, DieType
  <2>13. CASE Resume
    BY <2>13 DEF Resume, TypeOK, QueueNotEmpty, Phase
  <2>14. CASE CtrlC
    BY <2>14 DEF CtrlC, TypeOK, QueueNotEmpty
  <2>15. CASE Crash
    BY <2>15, FailType DEF Crash
  <2>16. CASE UNCHANGED vars
    BY <2>16 DEF vars, TypeOK, QueueNotEmpty
  <2> QED
    BY <2>1, <2>2, <2>3, <2>4, <2>5, <2>6, <2>7, <2>8, <2>9, <2>10, <2>11,
       <2>12, <2>13, <2>14, <2>15, <2>16 DEF Next, TurnStep
<1> QED
  BY <1>1, <1>2, PTL DEF Spec

\* The type invariant holds in every reachable state.
THEOREM TypeCorrect == Spec => []TypeOK
BY TypeInvariant, PTL DEF TypeInv

(***************************************************************************)
(* The messages of a session are numbered without a gap, before and after  *)
(* every operation on it.                                                  *)
(***************************************************************************)
LEMMA PrefixLenRange ==
    ASSUME NEW s \in Seq(Message)
    PROVE  /\ PrefixLen(s) \in 0..1 /\ PrefixLen(s) <= Len(s)
           /\ PrefixLen(s) = 1 <=> s # <<>> /\ s[1].role = "system"
           /\ Covered(s) \in Nat
<1>1. CASE s = <<>>
  BY <1>1 DEF PrefixLen, Covered
<1>2. CASE s # <<>>
  <2>1. Len(s) \in Nat \ {0} /\ s[1] \in Message
    BY <1>2
  <2> QED
    BY <1>2, <2>1 DEF PrefixLen, Covered, Message
<1> QED
  BY <1>1, <1>2

LEMMA LastIdContiguous ==
    ASSUME NEW s \in Seq(Message), Contiguous(s)
    PROVE  LastId(s) = Covered(s) + Len(s) - PrefixLen(s)
<1>1. CASE s = <<>>
  BY <1>1 DEF LastId, Covered, PrefixLen
<1>2. CASE s # <<>>
  <2>1. Len(s) \in 1..Len(s)
    BY <1>2
  <2> QED
    BY <1>2, <2>1 DEF LastId, Contiguous
<1> QED
  BY <1>1, <1>2

LEMMA EmptyContiguous == Contiguous(<<>>)
BY DEF Contiguous

LEMMA AppendContiguous ==
    ASSUME NEW s \in Seq(Message), Contiguous(s),
           NEW m \in Message, m.role # "system", m.id = NextId(s)
    PROVE  Contiguous(Append(s, m))
<1> DEFINE t == Append(s, m)
<1>1. /\ t \in Seq(Message) /\ Len(t) = Len(s) + 1 /\ t[Len(s) + 1] = m
      /\ \A i \in 1..Len(s) : t[i] = s[i]
  OBVIOUS
<1>2. PrefixLen(t) = PrefixLen(s) /\ Covered(t) = Covered(s)
  <2>1. CASE s = <<>>
    BY <2>1, <1>1 DEF PrefixLen, Covered
  <2>2. CASE s # <<>>
    <3>1. t # <<>> /\ t[1] = s[1]
      BY <2>2, <1>1
    <3> QED
      BY <2>2, <3>1 DEF PrefixLen, Covered
  <2> QED
    BY <2>1, <2>2
<1>3. m.id = Covered(s) + Len(s) + 1 - PrefixLen(s)
  BY LastIdContiguous, PrefixLenRange DEF NextId
<1>4. \A i \in 1..Len(t) : t[i].role = "system" => i = 1
  BY <1>1 DEF Contiguous
<1>5. \A i \in 1..Len(t) : t[i].id = Covered(t) + i - PrefixLen(t)
  <2> SUFFICES ASSUME NEW i \in 1..Len(t)
               PROVE  t[i].id = Covered(t) + i - PrefixLen(t)
    OBVIOUS
  <2>1. CASE i \in 1..Len(s)
    BY <2>1, <1>1, <1>2 DEF Contiguous
  <2>2. CASE i = Len(s) + 1
    <3>1. t[i].id = Covered(s) + Len(s) + 1 - PrefixLen(s)
      BY <2>2, <1>1, <1>3
    <3>2. Covered(s) \in Nat /\ PrefixLen(s) \in 0..1 /\ Len(s) \in Nat
      BY PrefixLenRange
    <3> QED
      BY <2>2, <3>1, <3>2, <1>2
  <2> QED
    BY <2>1, <2>2, <1>1
<1> HIDE DEF t
<1>6. Contiguous(t)
  BY <1>4, <1>5 DEF Contiguous
<1> QED
  BY <1>6 DEF t

\* What a compaction makes of a session: the summary stands for everything up
\* to the message before the preserved ones.
LEMMA CompactShape ==
    ASSUME NEW s \in Seq(Message), ShouldCompact(s, TRUE), Contiguous(s)
    PROVE  LET c == CompactSession(s, TRUE)
               k == Len(s) - Preserve
           IN  /\ k \in (PrefixLen(s) + 1)..Len(s)
               /\ c \in Seq(Message) /\ Len(c) = Preserve + 1
               /\ c[1] = Summary(s[k].id)
               /\ \A i \in 2..Len(c) : c[i] = s[k + i - 1]
               /\ PrefixLen(c) = 1 /\ Covered(c) = Covered(s) + k - PrefixLen(s)
<1> DEFINE c == CompactSession(s, TRUE)
           k == Len(s) - Preserve
           h == <<Summary(s[k].id)>>
           t == SubSeq(s, k + 1, Len(s))
<1>1. k \in (PrefixLen(s) + 1)..Len(s) /\ Preserve \in Nat \ {0}
  BY PrefixLenRange, PreserveAssumption DEF ShouldCompact
<1>2. k \in 1..Len(s) /\ s[k] \in Message
  BY <1>1, PrefixLenRange
<1>3. s[k].id = Covered(s) + k - PrefixLen(s)
  BY <1>2 DEF Contiguous
<1>4. c \in Seq(Message) /\ c = h \o t
  BY CompactType DEF CompactSession
<1>5. Summary(s[k].id) \in Message
  BY <1>2 DEF Message, Summary, NoUse
<1>6. h \in Seq(Message) /\ Len(h) = 1 /\ h[1] = Summary(s[k].id)
  BY <1>5
<1>7. t \in Seq(Message) /\ Len(t) = Preserve /\ \A i \in 1..Preserve : t[i] = s[k + i]
  BY <1>1, <1>2
<1> HIDE DEF h, t, c, k
<1>8. Len(c) = Preserve + 1 /\ c[1] = Summary(s[k].id)
  <2>1. Len(h \o t) = Len(h) + Len(t)
    BY <1>6, <1>7, ConcatProperties
  <2>2. (h \o t)[1] = h[1]
    <3>1. 1 \in 1..(Len(h) + Len(t)) /\ 1 <= Len(h)
      BY <1>1, <1>6, <1>7
    <3> QED
      BY <1>6, <1>7, <3>1, ConcatProperties
  <2> QED
    BY <1>1, <1>4, <1>6, <1>7, <2>1, <2>2
<1>9. \A i \in 2..Len(c) : c[i] = s[k + i - 1]
  <2> SUFFICES ASSUME NEW i \in 2..Len(c)
               PROVE  c[i] = s[k + i - 1]
    OBVIOUS
  <2>1. c[i] = t[i - 1] /\ i - 1 \in 1..Preserve
    BY <1>1, <1>4, <1>6, <1>7, <1>8
  <2> QED
    BY <1>1, <1>2, <1>7, <2>1
<1>10. PrefixLen(c) = 1 /\ Covered(c) = Covered(s) + k - PrefixLen(s)
  <2>1. c # <<>>
    BY <1>1, <1>8
  <2> QED
    BY <2>1, <1>3, <1>8 DEF PrefixLen, Covered, Summary
<1> QED
  BY <1>1, <1>4, <1>8, <1>9, <1>10 DEF c, k

LEMMA CompactContiguous ==
    ASSUME NEW s \in Seq(Message), Contiguous(s), NEW over \in BOOLEAN
    PROVE  Contiguous(CompactSession(s, over))
<1>1. CASE ~ShouldCompact(s, over)
  BY <1>1 DEF CompactSession
<1>2. CASE ShouldCompact(s, over)
  <2>1. over = TRUE
    BY <1>2 DEF ShouldCompact
  <2> DEFINE c == CompactSession(s, TRUE)
             k == Len(s) - Preserve
  <2>2. /\ k \in (PrefixLen(s) + 1)..Len(s)
        /\ c \in Seq(Message) /\ Len(c) = Preserve + 1
        /\ c[1] = Summary(s[k].id)
        /\ \A i \in 2..Len(c) : c[i] = s[k + i - 1]
        /\ PrefixLen(c) = 1 /\ Covered(c) = Covered(s) + k - PrefixLen(s)
    BY <1>2, <2>1, CompactShape
  <2>3. Preserve \in Nat \ {0} /\ PrefixLen(s) \in 0..1 /\ k = Len(s) - Preserve
    BY PreserveAssumption, PrefixLenRange
  <2> HIDE DEF c, k
  <2>4. \A i \in 1..Len(c) : c[i].role = "system" => i = 1
    <3> SUFFICES ASSUME NEW i \in 2..Len(c)
                 PROVE  c[i].role # "system"
      BY <2>2
    <3>1. k + i - 1 \in 2..Len(s)
      BY <2>2, <2>3
    <3> QED
      BY <2>2, <3>1 DEF Contiguous
  <2>5. \A i \in 1..Len(c) : c[i].id = Covered(c) + i - PrefixLen(c)
    <3> SUFFICES ASSUME NEW i \in 1..Len(c)
                 PROVE  c[i].id = Covered(c) + i - PrefixLen(c)
      OBVIOUS
    <3>1. CASE i = 1
      <4>1. c[1].id = Covered(c) /\ Covered(c) \in Nat
        BY <2>2, PrefixLenRange DEF Covered
      <4> QED
        BY <2>2, <3>1, <4>1
    <3>2. CASE i # 1
      <4>1. i \in 2..Len(c) /\ k + i - 1 \in 1..Len(s)
        BY <2>2, <2>3, <3>2
      <4>2. c[i].id = Covered(s) + (k + i - 1) - PrefixLen(s)
        BY <2>2, <4>1 DEF Contiguous
      <4>3. Covered(s) \in Nat
        BY PrefixLenRange
      <4> QED
        BY <2>2, <2>3, <4>2, <4>3
    <3> QED
      BY <3>1, <3>2
  <2> QED
    BY <2>1, <2>4, <2>5 DEF Contiguous, c
<1> QED
  BY <1>1, <1>2

(***************************************************************************)
(* The session invariant: the three copies of the conversation are free of *)
(* gaps, and each is tied to the file by where the process is.             *)
(***************************************************************************)
SessionInv == NoMessageLost /\ WriteAhead /\ IdleInSync /\ SaveKeepsFile

LEMMA DieSession ==
    ASSUME TypeOK, Die, Contiguous(file')
    PROVE  SessionInv'
<1>1. phase' = "exited" /\ live' = <<>> /\ work' = <<>>
  BY DEF Die
<1>2. Contiguous(live') /\ Contiguous(work')
  BY <1>1, EmptyContiguous
<1>3. \A s \in {live', work', file'} : Contiguous(s)
  BY <1>2
<1>4. NoMessageLost'
  BY <1>3 DEF NoMessageLost, Sessions, Contiguous, Covered, PrefixLen
<1> QED
  BY <1>1, <1>4 DEF SessionInv, WriteAhead, IdleInSync, SaveKeepsFile, InTurn

LEMMA FailSession ==
    ASSUME TypeOK, SessionInv, Fail
    PROVE  SessionInv'
<1>1. Die /\ Contiguous(file')
  BY DEF Fail, SessionInv, NoMessageLost, Sessions
<1> QED
  BY <1>1, DieSession

LEMMA PushFailsSession ==
    ASSUME TypeOK, SessionInv, NEW m \in Message, m.role # "system", m.id = NextId(file),
           PushFails(m)
    PROVE  SessionInv'
<1>1. Contiguous(file) /\ file \in Seq(Message)
  BY DEF SessionInv, NoMessageLost, Sessions, TypeOK
<1>2. Contiguous(Append(file, m))
  BY <1>1, AppendContiguous
<1>3. Die /\ Contiguous(file')
  BY <1>1, <1>2 DEF PushFails
<1> QED
  BY <1>3, DieSession

\* The steps that leave every copy of the conversation alone.
LEMMA QuietSession ==
    ASSUME SessionInv, UNCHANGED <<live, work, file>>,
           InTurn' => InTurn,
           phase' \in {"idle", "replace", "persist"} => phase' = phase
    PROVE  SessionInv'
<1>1. NoMessageLost'
  BY DEF SessionInv, NoMessageLost, Sessions, Contiguous, Covered, PrefixLen
<1>2. WriteAhead' /\ IdleInSync'
  BY DEF SessionInv, WriteAhead, IdleInSync
<1>3. SaveKeepsFile'
  BY DEF SessionInv, SaveKeepsFile, CompactSession, ShouldCompact, PrefixLen
<1> QED
  BY <1>1, <1>2, <1>3 DEF SessionInv

\* A message pushed on the turn's session and on the file.
LEMMA PushSession ==
    ASSUME TypeOK, SessionInv, NEW m \in Message, m.role # "system",
           m.id = NextId(work), InTurn, PushMessage(m), UNCHANGED live, InTurn'
    PROVE  SessionInv'
<1>1. work = file /\ Contiguous(live) /\ Contiguous(work) /\ work \in Seq(Message)
  BY DEF SessionInv, NoMessageLost, Sessions, WriteAhead, TypeOK
<1>2. Contiguous(Append(work, m))
  BY <1>1, AppendContiguous
<1>3. file' = work' /\ Contiguous(work') /\ Contiguous(live')
  BY <1>1, <1>2 DEF PushMessage
<1>4. NoMessageLost'
  <2>1. \A s \in {live', work', file'} : Contiguous(s)
    BY <1>3
  <2> QED
    BY <2>1 DEF NoMessageLost, Sessions, Contiguous, Covered, PrefixLen
<1> QED
  BY <1>3, <1>4 DEF SessionInv, WriteAhead, IdleInSync, SaveKeepsFile, InTurn

LEMMA SessionStep ==
    ASSUME TypeInv, SessionInv, [Next]_vars
    PROVE  SessionInv'
<1> USE DEF TypeInv
<1>1. CASE SubmitPrompt
  <2> DEFINE m == UserText(NextId(live))
  <2>1. /\ m \in Message /\ m.role # "system" /\ m.id = NextId(live)
        /\ live = file /\ live \in Seq(Message) /\ Contiguous(live)
    <3>1. NextId(live) \in Nat
      BY NextIdType DEF TypeOK
    <3> QED
      BY <1>1, <3>1 DEF UserText, Message, NoUse, SubmitPrompt, SessionInv,
                        IdleInSync, NoMessageLost, Sessions, TypeOK
  <2>2. CASE PushFails(m)
    BY <2>1, <2>2, PushFailsSession
  <2>3. CASE ~PushFails(m)
    <3>1. /\ work' = Append(live, m) /\ file' = Append(file, m)
          /\ phase' = "request" /\ live' = live
      BY <1>1, <2>3 DEF SubmitPrompt
    <3> HIDE DEF m
    <3>2. Contiguous(Append(live, m))
      BY <2>1, AppendContiguous
    <3>3. file' = work' /\ Contiguous(work') /\ Contiguous(live')
      BY <2>1, <3>1, <3>2
    <3>4. NoMessageLost'
      <4>1. \A s \in {live', work', file'} : Contiguous(s)
        BY <3>3
      <4> QED
        BY <4>1 DEF NoMessageLost, Sessions, Contiguous, Covered, PrefixLen
    <3> QED
      BY <3>1, <3>3, <3>4 DEF SessionInv, WriteAhead, IdleInSync, SaveKeepsFile
  <2> QED
    BY <2>2, <2>3
<1>2. CASE Stream
  <2>1. PICK u \in 0..MaxUses :
           LET m == Assistant(NextId(work), u)
           IN  \/ /\ PushMessage(m)
                  /\ pending' = [j \in 1..u |-> <<m.id, j>>]
                  /\ phase' = IF u = 0 THEN "compact" ELSE "pre"
                  /\ iter' = iter + 1
                  /\ UNCHANGED <<live, grant, abort, turns, lives, ran, deaths, late>>
               \/ PushFails(m)
    BY <1>2 DEF Stream
  <2> DEFINE m == Assistant(NextId(work), u)
  <2>2. u \in Nat /\ NextId(work) \in Nat
    BY NextIdType, MaxUsesAssumption DEF TypeOK
  <2>3. m \in Message /\ m.role # "system" /\ m.id = NextId(work)
    BY <2>2 DEF Assistant, Message, NoUse
  <2>4. InTurn /\ work = file
    BY <1>2 DEF Stream, InTurn, SessionInv, WriteAhead
  <2>5. CASE PushFails(m)
    BY <2>3, <2>4, <2>5, PushFailsSession
  <2>6. CASE ~PushFails(m)
    <3>1. PushMessage(m) /\ UNCHANGED live /\ phase' \in {"compact", "pre"}
      BY <2>1, <2>6
    <3>2. InTurn'
      BY <3>1 DEF InTurn
    <3> QED
      BY <2>3, <2>4, <3>1, <3>2, PushSession
  <2> QED
    BY <2>5, <2>6
<1>3. CASE StreamFails
  BY <1>3, FailSession DEF StreamFails
<1>4. CASE TooManyIterations
  BY <1>4, FailSession DEF TooManyIterations
<1>5. CASE PreToolUse
  <2>1. InTurn /\ phase' \in {"execute", "result"} /\ UNCHANGED <<live, work, file>>
    BY <1>5 DEF PreToolUse, InTurn
  <2> QED
    BY <2>1, QuietSession
<1>6. CASE ExecuteTool
  <2>1. InTurn /\ phase' = "result" /\ UNCHANGED <<live, work, file>>
    BY <1>6 DEF ExecuteTool, InTurn
  <2> QED
    BY <2>1, QuietSession
<1>7. CASE PushResult
  <2> DEFINE m == ToolResult(NextId(work), grant.use, grant.ok)
  <2>1. NextId(work) \in Nat /\ grant.use \in Nat \X Nat /\ grant.ok \in BOOLEAN
    BY NextIdType DEF TypeOK, Grant
  <2>2. m \in Message /\ m.role # "system" /\ m.id = NextId(work)
    BY <2>1 DEF ToolResult, Message
  <2>3. InTurn /\ work = file
    BY <1>7 DEF PushResult, InTurn, SessionInv, WriteAhead
  <2>4. CASE PushFails(m)
    BY <2>2, <2>3, <2>4, PushFailsSession
  <2>5. CASE ~PushFails(m)
    <3>1. PushMessage(m) /\ UNCHANGED live /\ phase' \in {"request", "pre"}
      BY <1>7, <2>5 DEF PushResult
    <3>2. InTurn'
      BY <3>1 DEF InTurn
    <3> QED
      BY <2>2, <2>3, <3>1, <3>2, PushSession
  <2> QED
    BY <2>4, <2>5
<1>8. CASE AutoCompact
  <2>1. work = file /\ work \in Seq(Message)
    BY <1>8 DEF AutoCompact, InTurn, SessionInv, WriteAhead, TypeOK
  <2>2. Contiguous(live) /\ Contiguous(file)
    BY DEF SessionInv, NoMessageLost, Sessions
  <2>3. work' \in {file, CompactSession(file, TRUE)} /\ UNCHANGED <<live, file>> /\ phase' = "replace"
    BY <1>8, <2>1 DEF AutoCompact
  <2>4. Contiguous(work')
    BY <2>1, <2>2, <2>3, CompactContiguous
  <2>5. NoMessageLost'
    <3>1. \A s \in {live', work', file'} : Contiguous(s)
      BY <2>2, <2>3, <2>4
    <3> QED
      BY <3>1 DEF NoMessageLost, Sessions, Contiguous, Covered, PrefixLen
  <2>6. SaveKeepsFile'
    BY <2>3 DEF SaveKeepsFile, CompactSession, ShouldCompact, PrefixLen
  <2> QED
    BY <2>3, <2>5, <2>6 DEF SessionInv, WriteAhead, IdleInSync, InTurn
<1>9. CASE ReplaceRuntime
  <2>1. CASE Fail
    BY <2>1, FailSession
  <2>2. CASE ~Fail
    <3>1. live' = work /\ work' = <<>> /\ file' = file /\ phase' = "persist" /\ phase = "replace"
      BY <1>9, <2>2 DEF ReplaceRuntime
    <3>2. Contiguous(live') /\ Contiguous(work') /\ Contiguous(file')
      BY <3>1, EmptyContiguous DEF SessionInv, NoMessageLost, Sessions
    <3>3. NoMessageLost'
      <4>1. \A s \in {live', work', file'} : Contiguous(s)
        BY <3>2
      <4> QED
        BY <4>1 DEF NoMessageLost, Sessions, Contiguous, Covered, PrefixLen
    <3>4. SaveKeepsFile'
      BY <3>1 DEF SessionInv, SaveKeepsFile, CompactSession, ShouldCompact, PrefixLen
    <3> QED
      BY <3>1, <3>3, <3>4 DEF SessionInv, WriteAhead, IdleInSync, InTurn
  <2> QED
    BY <2>1, <2>2
<1>10. CASE PersistSession
  <2>1. CASE Fail
    BY <2>1, FailSession
  <2>2. CASE ~Fail
    <3>1. file' = live /\ live' = live /\ work' = work /\ phase' = "idle"
      BY <1>10, <2>2 DEF PersistSession
    <3>2. NoMessageLost'
      <4>1. \A s \in {live', work', file'} : Contiguous(s)
        BY <3>1 DEF SessionInv, NoMessageLost, Sessions
      <4> QED
        BY <4>1 DEF NoMessageLost, Sessions, Contiguous, Covered, PrefixLen
    <3> QED
      BY <3>1, <3>2 DEF SessionInv, WriteAhead, IdleInSync, SaveKeepsFile, InTurn
  <2> QED
    BY <2>1, <2>2
<1>11. CASE SlashCompact
  <2>1. PICK over \in BOOLEAN : live' = CompactSession(live, over)
    BY <1>11 DEF SlashCompact
  <2>2. live = file /\ live \in Seq(Message) /\ Contiguous(live) /\ Contiguous(work)
    BY <1>11 DEF SlashCompact, SessionInv, IdleInSync, NoMessageLost, Sessions, TypeOK
  <2>3. UNCHANGED <<work, file>> /\ phase' = "persist"
    BY <1>11 DEF SlashCompact
  <2>4. Contiguous(live')
    BY <2>1, <2>2, CompactContiguous
  <2>5. NoMessageLost'
    <3>1. \A s \in {live', work', file'} : Contiguous(s)
      BY <2>2, <2>3, <2>4
    <3> QED
      BY <3>1 DEF NoMessageLost, Sessions, Contiguous, Covered, PrefixLen
  <2>6. live' \in {file, CompactSession(file, TRUE)}
    <3>1. CASE over = TRUE
      BY <2>1, <2>2, <3>1
    <3>2. CASE over = FALSE
      BY <2>1, <2>2, <3>2 DEF CompactSession, ShouldCompact
    <3> QED
      BY <3>1, <3>2
  <2>7. SaveKeepsFile'
    BY <2>3, <2>6 DEF SaveKeepsFile, CompactSession, ShouldCompact, PrefixLen
  <2> QED
    BY <2>3, <2>5, <2>7 DEF SessionInv, WriteAhead, IdleInSync, InTurn
<1>12. CASE Quit
  <2>1. Die /\ Contiguous(file')
    BY <1>12 DEF Quit, SessionInv, NoMessageLost, Sessions
  <2> QED
    BY <2>1, DieSession
<1>13. CASE Resume
  <2>1. live' = file /\ UNCHANGED <<work, file>> /\ phase' = "persist"
    BY <1>13 DEF Resume
  <2>2. NoMessageLost'
    <3>1. \A s \in {live', work', file'} : Contiguous(s)
      BY <2>1 DEF SessionInv, NoMessageLost, Sessions
    <3> QED
      BY <3>1 DEF NoMessageLost, Sessions, Contiguous, Covered, PrefixLen
  <2> QED
    BY <2>1, <2>2 DEF SessionInv, WriteAhead, IdleInSync, SaveKeepsFile, InTurn
<1>14. CASE CtrlC
  BY <1>14, QuietSession DEF CtrlC, InTurn
<1>15. CASE Crash
  BY <1>15, FailSession DEF Crash
<1>16. CASE UNCHANGED vars
  BY <1>16, QuietSession DEF vars, InTurn
<1> QED
  BY <1>1, <1>2, <1>3, <1>4, <1>5, <1>6, <1>7, <1>8, <1>9, <1>10, <1>11,
     <1>12, <1>13, <1>14, <1>15, <1>16 DEF Next, TurnStep

LEMMA SessionInit == Init => SessionInv
<1> SUFFICES ASSUME Init PROVE SessionInv
  OBVIOUS
<1>1. live = <<>> /\ work = <<>> /\ file = <<>> /\ phase = "idle"
  BY DEF Init
<1> QED
  BY <1>1, EmptyContiguous DEF SessionInv, NoMessageLost, Sessions, WriteAhead,
                               IdleInSync, SaveKeepsFile, InTurn

\* Memory, clone and file hold pieces of one conversation at every step of a turn.
THEOREM SessionInvariant == Spec => []SessionInv
BY SessionInit, SessionStep, TypeInvariant, PTL DEF Spec

\* Between the summary and the end of a session no message is missing or twice,
\* in memory or on file, in every reachable state.
THEOREM NoMessageIsLost == Spec => []NoMessageLost
BY SessionInvariant, PTL DEF SessionInv

\* The file holds what a turn under way sends to the provider.
THEOREM TurnIsWrittenAhead == Spec => []WriteAhead
BY SessionInvariant, PTL DEF SessionInv

\* Between turns the live session and the file agree.
THEOREM IdleIsInSync == Spec => []IdleInSync
BY SessionInvariant, PTL DEF SessionInv

\* A save writes the content of the file back, at most compacted.
THEOREM SavesKeepFile == Spec => []SaveKeepsFile
BY SessionInvariant, PTL DEF SessionInv

\* The file keeps up with the session in memory.
THEOREM FileIsKeptUp == Spec => []FileKeepsUp
BY SessionInvariant, PTL DEF SessionInv, FileKeepsUp

(***************************************************************************)
(* The session file implements Transcript: a step leaves it alone, appends *)
(* one message, or replaces it by its compaction.                          *)
(***************************************************************************)
LEMMA FileStep ==
    ASSUME TypeInv, SessionInv, [Next]_vars
    PROVE  \/ file' = file
           \/ \E m \in Message : m.role # "system" /\ file' = Append(file, m)
           \/ file' = CompactSession(file, TRUE)
<1> DEFINE Goal == \/ file' = file
                   \/ \E m \in Message : m.role # "system" /\ file' = Append(file, m)
                   \/ file' = CompactSession(file, TRUE)
<1> USE DEF TypeInv
<1>1. ASSUME NEW m \in Message, m.role # "system", PushFails(m)
      PROVE  Goal
  BY <1>1 DEF PushFails
<1>2. CASE Fail \/ UNCHANGED file
  BY <1>2 DEF Fail
<1>3. CASE SubmitPrompt
  <2> DEFINE m == UserText(NextId(live))
  <2>1. NextId(live) \in Nat
    BY NextIdType DEF TypeOK
  <2>2. m \in Message /\ m.role # "system"
    BY <2>1 DEF UserText, Message, NoUse
  <2>3. PushFails(m) \/ file' = Append(file, m)
    BY <1>3 DEF SubmitPrompt
  <2> HIDE DEF m
  <2> QED
    BY <2>2, <2>3, <1>1
<1>4. CASE Stream
  <2>1. PICK u \in 0..MaxUses :
           LET m == Assistant(NextId(work), u) IN PushMessage(m) \/ PushFails(m)
    BY <1>4 DEF Stream
  <2> DEFINE m == Assistant(NextId(work), u)
  <2>2. u \in Nat /\ NextId(work) \in Nat
    BY NextIdType, MaxUsesAssumption DEF TypeOK
  <2>3. m \in Message /\ m.role # "system"
    BY <2>2 DEF Assistant, Message, NoUse
  <2> HIDE DEF m
  <2> QED
    BY <2>1, <2>3, <1>1 DEF PushMessage, m
<1>5. CASE PushResult
  <2> DEFINE m == ToolResult(NextId(work), grant.use, grant.ok)
  <2>1. NextId(work) \in Nat /\ grant.use \in Nat \X Nat /\ grant.ok \in BOOLEAN
    BY NextIdType DEF TypeOK, Grant
  <2>2. m \in Message /\ m.role # "system"
    BY <2>1 DEF ToolResult, Message
  <2>3. PushMessage(m) \/ PushFails(m)
    BY <1>5 DEF PushResult
  <2> HIDE DEF m
  <2> QED
    BY <2>2, <2>3, <1>1 DEF PushMessage
<1>6. CASE PersistSession
  BY <1>6 DEF PersistSession, SessionInv, SaveKeepsFile, Fail
<1>7. CASE Quit
  BY <1>7 DEF Quit, SessionInv, IdleInSync
<1>8. CASE StreamFails \/ TooManyIterations \/ Crash \/ ReplaceRuntime
  BY <1>8, <1>2 DEF StreamFails, TooManyIterations, Crash, ReplaceRuntime
<1>9. CASE \/ PreToolUse \/ ExecuteTool \/ AutoCompact \/ SlashCompact \/ Resume \/ CtrlC
           \/ UNCHANGED vars
  <2>1. UNCHANGED file
    BY <1>9 DEF PreToolUse, ExecuteTool, AutoCompact, SlashCompact, Resume, CtrlC, vars
  <2> QED
    BY <2>1
<1> QED
  BY <1>3, <1>4, <1>5, <1>6, <1>7, <1>8, <1>9 DEF Next, TurnStep

LEMMA AfterSummaryShape ==
    ASSUME NEW s \in Seq(Message)
    PROVE  /\ AfterSummary(s) \in Seq(Message)
           /\ Len(AfterSummary(s)) = Len(s) - PrefixLen(s)
           /\ \A i \in 1..Len(AfterSummary(s)) : AfterSummary(s)[i] = s[PrefixLen(s) + i]
<1>1. /\ PrefixLen(s) \in 0..1 /\ PrefixLen(s) <= Len(s) /\ Len(s) \in Nat
      /\ \A i \in (PrefixLen(s) + 1)..Len(s) : s[i] \in Message
  BY PrefixLenRange
<1>2. /\ SubSeq(s, PrefixLen(s) + 1, Len(s)) \in Seq(Message)
      /\ Len(SubSeq(s, PrefixLen(s) + 1, Len(s))) = Len(s) - PrefixLen(s)
      /\ \A i \in 1..(Len(s) - PrefixLen(s)) :
            SubSeq(s, PrefixLen(s) + 1, Len(s))[i] = s[PrefixLen(s) + i]
  BY <1>1, SubSeqProperties
<1> QED
  BY <1>2 DEF AfterSummary

LEMMA AppendMaps ==
    ASSUME NEW s \in Seq(Message), NEW m \in Message, m.role # "system"
    PROVE  /\ Covered(Append(s, m)) = Covered(s)
           /\ AfterSummary(Append(s, m)) = Append(AfterSummary(s), m)
<1> DEFINE t == Append(s, m)
<1>1. /\ t \in Seq(Message) /\ Len(t) = Len(s) + 1 /\ t[Len(s) + 1] = m
      /\ \A i \in 1..Len(s) : t[i] = s[i]
  OBVIOUS
<1>2. PrefixLen(t) = PrefixLen(s) /\ Covered(t) = Covered(s)
  <2>1. CASE s = <<>>
    BY <2>1, <1>1 DEF PrefixLen, Covered
  <2>2. CASE s # <<>>
    <3>1. t # <<>> /\ t[1] = s[1]
      BY <2>2, <1>1
    <3> QED
      BY <2>2, <3>1 DEF PrefixLen, Covered
  <2> QED
    BY <2>1, <2>2
<1> HIDE DEF t
<1>3. /\ AfterSummary(t) \in Seq(Message) /\ Len(AfterSummary(t)) = Len(t) - PrefixLen(t)
      /\ \A i \in 1..Len(AfterSummary(t)) : AfterSummary(t)[i] = t[PrefixLen(t) + i]
  BY <1>1, AfterSummaryShape
<1>4. /\ AfterSummary(s) \in Seq(Message) /\ Len(AfterSummary(s)) = Len(s) - PrefixLen(s)
      /\ \A i \in 1..Len(AfterSummary(s)) : AfterSummary(s)[i] = s[PrefixLen(s) + i]
  BY AfterSummaryShape
<1>5. PrefixLen(s) \in 0..1 /\ PrefixLen(s) <= Len(s) /\ Len(s) \in Nat
  BY PrefixLenRange
<1> DEFINE a == Append(AfterSummary(s), m)
<1>6. /\ a \in Seq(Message) /\ Len(a) = Len(AfterSummary(s)) + 1
      /\ a[Len(AfterSummary(s)) + 1] = m
      /\ \A i \in 1..Len(AfterSummary(s)) : a[i] = AfterSummary(s)[i]
  BY <1>4, AppendProperties
<1> HIDE DEF a
<1>7. Len(AfterSummary(t)) = Len(a)
  BY <1>1, <1>2, <1>3, <1>4, <1>5, <1>6
<1>8. \A i \in 1..Len(AfterSummary(t)) : AfterSummary(t)[i] = a[i]
  <2> SUFFICES ASSUME NEW i \in 1..Len(AfterSummary(t))
               PROVE  AfterSummary(t)[i] = a[i]
    OBVIOUS
  <2>1. CASE i \in 1..Len(AfterSummary(s))
    <3>1. PrefixLen(s) + i \in 1..Len(s)
      BY <2>1, <1>4, <1>5
    <3> QED
      BY <2>1, <3>1, <1>1, <1>2, <1>3, <1>4, <1>6
  <2>2. CASE i = Len(AfterSummary(s)) + 1
    BY <2>2, <1>1, <1>2, <1>3, <1>4, <1>5, <1>6
  <2> QED
    BY <2>1, <2>2, <1>1, <1>2, <1>3, <1>4, <1>5
<1>9. AfterSummary(t) = a
  BY <1>3, <1>6, <1>7, <1>8, SeqEqual
<1> QED
  BY <1>2, <1>9 DEF t, a

LEMMA CompactMaps ==
    ASSUME NEW s \in Seq(Message), Contiguous(s), ShouldCompact(s, TRUE)
    PROVE  \E n \in 1..(Len(AfterSummary(s)) - Preserve) :
              /\ Covered(CompactSession(s, TRUE)) = Covered(s) + n
              /\ AfterSummary(CompactSession(s, TRUE))
                    = SubSeq(AfterSummary(s), n + 1, Len(AfterSummary(s)))
<1> DEFINE c == CompactSession(s, TRUE)
           k == Len(s) - Preserve
           n == k - PrefixLen(s)
           a == AfterSummary(s)
           b == SubSeq(a, n + 1, Len(a))
<1>1. /\ k \in (PrefixLen(s) + 1)..Len(s)
      /\ c \in Seq(Message) /\ Len(c) = Preserve + 1
      /\ \A i \in 2..Len(c) : c[i] = s[k + i - 1]
      /\ PrefixLen(c) = 1 /\ Covered(c) = Covered(s) + k - PrefixLen(s)
  BY CompactShape
<1>2. /\ Preserve \in Nat /\ Preserve >= 1 /\ PrefixLen(s) \in 0..1 /\ Len(s) \in Nat
  BY PreserveAssumption, PrefixLenRange
<1>3. /\ a \in Seq(Message) /\ Len(a) = Len(s) - PrefixLen(s)
      /\ \A i \in 1..Len(a) : a[i] = s[PrefixLen(s) + i]
  BY AfterSummaryShape
<1>4. /\ AfterSummary(c) \in Seq(Message) /\ Len(AfterSummary(c)) = Preserve
      /\ \A i \in 1..Preserve : AfterSummary(c)[i] = c[1 + i]
  <2> HIDE DEF c
  <2>1. /\ AfterSummary(c) \in Seq(Message) /\ Len(AfterSummary(c)) = Len(c) - 1
        /\ \A i \in 1..Len(AfterSummary(c)) : AfterSummary(c)[i] = c[1 + i]
    BY <1>1, AfterSummaryShape
  <2>2. Len(c) - 1 = Preserve
    BY <1>1, <1>2
  <2> QED
    BY <2>1, <2>2
<1>5. n \in 1..(Len(a) - Preserve) /\ Len(a) = n + Preserve /\ n \in Nat /\ k \in Nat
  <2>1. PrefixLen(s) + 1 <= k /\ Len(a) = Len(s) - PrefixLen(s)
    BY <1>1, <1>2, <1>3
  <2>2. PrefixLen(s) = 0 \/ PrefixLen(s) = 1
    BY <1>2
  <2> HIDE DEF a
  <2>3. k \in Nat /\ n \in Nat /\ 1 <= n
    BY <1>2, <2>1, <2>2
  <2>4. Len(a) = n + Preserve
    BY <1>2, <2>1, <2>2
  <2> HIDE DEF n, k
  <2> QED
    BY <1>2, <2>3, <2>4
<1>10. k + Preserve = Len(s) /\ PrefixLen(s) + n = k
  BY <1>2
<1> HIDE DEF c, k, n, a
<1>6. /\ b \in Seq(Message) /\ Len(b) = Preserve
      /\ \A i \in 1..Preserve : b[i] = a[n + i]
  <2>1. n + 1 \in Int /\ Len(a) \in Int /\ n + 1 <= Len(a)
    BY <1>2, <1>5
  <2>2. \A i \in (n + 1)..Len(a) : a[i] \in Message
    BY <1>3, <1>5
  <2>3. /\ b \in Seq(Message) /\ Len(b) = Len(a) - (n + 1) + 1
        /\ \A i \in 1..(Len(a) - (n + 1) + 1) : b[i] = a[(n + 1) + i - 1]
    BY <2>1, <2>2, SubSeqProperties
  <2>4. Len(a) - (n + 1) + 1 = Preserve /\ \A i \in 1..Preserve : (n + 1) + i - 1 = n + i
    BY <1>2, <1>5
  <2> HIDE DEF b
  <2> QED
    BY <2>3, <2>4
<1> HIDE DEF b
<1>7. \A i \in 1..Preserve : AfterSummary(c)[i] = b[i]
  <2> SUFFICES ASSUME NEW i \in 1..Preserve
               PROVE  AfterSummary(c)[i] = b[i]
    OBVIOUS
  <2>1. AfterSummary(c)[i] = s[k + i]
    <3>1. 1 + i \in 2..Len(c) /\ k + (1 + i) - 1 = k + i
      BY <1>1, <1>2, <1>5
    <3> QED
      BY <3>1, <1>1, <1>4
  <2>2. b[i] = s[k + i]
    <3>1. n + i \in 1..Len(a) /\ PrefixLen(s) + (n + i) = k + i
      BY <1>2, <1>5, <1>10
    <3> QED
      BY <3>1, <1>3, <1>6
  <2> QED
    BY <2>1, <2>2
<1>8. AfterSummary(c) = b
  BY <1>2, <1>4, <1>6, <1>7, SeqEqual
<1>9. Covered(c) = Covered(s) + n
  <2>1. Covered(s) \in Nat
    BY PrefixLenRange
  <2> QED
    BY <2>1, <1>1, <1>2, <1>5, <1>10
<1> QED
  BY <1>5, <1>8, <1>9 DEF a, b, c

\* The session file behaves as the abstract transcript whatever the turn, the
\* user, the disk and the end of the process do: it only grows at its end, and
\* a summary only replaces the oldest messages, in order.
THEOREM FileImplementsTranscript == Spec => FileIsTranscript
<1>1. Init => Log!Init
  <2> SUFFICES ASSUME Init PROVE Log!Init
    OBVIOUS
  <2>1. file = <<>>
    BY DEF Init
  <2>2. Covered(file) = 0
    BY <2>1 DEF Covered, PrefixLen
  <2>3. AfterSummary(file) = <<>>
    <3>1. <<>> \in Seq(Message) /\ PrefixLen(<<>>) = 0 /\ Len(<<>>) = 0
      BY DEF PrefixLen
    <3> QED
      BY <2>1, <3>1, SubSeqEmpty DEF AfterSummary
  <2> QED
    BY <2>2, <2>3 DEF Log!Init
<1>2. TypeInv /\ SessionInv /\ [Next]_vars
         => [Log!Next]_<<Covered(file), AfterSummary(file)>>
  <2> SUFFICES ASSUME TypeInv, SessionInv, [Next]_vars
               PROVE  [Log!Next]_<<Covered(file), AfterSummary(file)>>
    OBVIOUS
  <2>1. file \in Seq(Message) /\ Contiguous(file)
    BY DEF TypeInv, TypeOK, SessionInv, NoMessageLost, Sessions
  <2>2. CASE file' = file
    <3>1. Covered(file)' = Covered(file) /\ AfterSummary(file)' = AfterSummary(file)
      BY <2>2 DEF Covered, AfterSummary, PrefixLen
    <3> QED
      BY <3>1
  <2>3. ASSUME NEW m \in Message, m.role # "system", file' = Append(file, m)
        PROVE  Log!AppendMessage
    <3> DEFINE a == AfterSummary(file)
    <3>1. Covered(file)' = Covered(file) /\ AfterSummary(file)' = Append(a, m)
      <4>1. /\ Covered(Append(file, m)) = Covered(file)
            /\ AfterSummary(Append(file, m)) = Append(a, m)
        BY <2>1, <2>3, AppendMaps
      <4>2. Covered(file)' = Covered(file') /\ AfterSummary(file)' = AfterSummary(file')
        BY DEF Covered, AfterSummary, PrefixLen
      <4> QED
        BY <4>1, <4>2, <2>3
    <3>2. a \in Seq(Message)
      BY <2>1, AfterSummaryShape
    <3>3. /\ Append(a, m) # <<>> /\ Append(a, m)[Len(Append(a, m))] = m
      BY <3>2, <2>3, AppendProperties
    <3> HIDE DEF a
    <3> QED
      BY <3>1, <3>3 DEF Log!AppendMessage, a
  <2>4. CASE file' = CompactSession(file, TRUE)
    <3>1. CASE ~ShouldCompact(file, TRUE)
      BY <3>1, <2>2, <2>4 DEF CompactSession
    <3>2. CASE ShouldCompact(file, TRUE)
      <4>1. PICK n \in 1..(Len(AfterSummary(file)) - Preserve) :
              /\ Covered(CompactSession(file, TRUE)) = Covered(file) + n
              /\ AfterSummary(CompactSession(file, TRUE))
                    = SubSeq(AfterSummary(file), n + 1, Len(AfterSummary(file)))
        BY <2>1, <3>2, CompactMaps
      <4>2. Covered(file)' = Covered(file') /\ AfterSummary(file)' = AfterSummary(file')
        BY DEF Covered, AfterSummary, PrefixLen
      <4>3. Log!Summarise
        BY <4>1, <4>2, <2>4 DEF Log!Summarise
      <4> QED
        BY <4>3 DEF Log!Next
    <3> QED
      BY <3>1, <3>2
  <2> QED
    BY <2>2, <2>3, <2>4, FileStep DEF Log!Next
<1> QED
  BY <1>1, <1>2, TypeInvariant, SessionInvariant, PTL DEF Spec, Log!Spec, FileIsTranscript

(***************************************************************************)
(* Permissions and Ctrl-C.  A tool runs on the grant of the check, which   *)
(* nothing changes in between.                                             *)
(***************************************************************************)
PermitInv ==
    /\ RanAsPermitted
    /\ phase = "execute" => grant.ok /\ Permitted(grant)

\* The cascade allows only what Permitted says.
LEMMA CascadePermits ==
    ASSUME NEW x \in Input, NEW o \in PermissionOverride, NEW answer \in Answers,
           AuthorizeWithContext(Question(x, o, answer)),
           NEW use
    PROVE  Permitted([use |-> use, ok |-> TRUE, input |-> x, override |-> o, answer |-> answer])
<1>1. /\ Rules[x].deny \in BOOLEAN /\ Rules[x].ask \in BOOLEAN /\ Rules[x].allow \in BOOLEAN
      /\ ActiveMode \in PermissionMode /\ RequiredMode \in ToolPermission
  BY PolicyAssumption
<1>2. ActiveMode = "Allow" => Rank[ActiveMode] >= Rank[RequiredMode]
  BY <1>1 DEF Rank, ToolPermission
<1> QED
  BY <1>1, <1>2 DEF AuthorizeWithContext, Question, PromptOrDeny, Granted, Escalates, Permitted,
                    PermissionOverride

LEMMA PermitStep ==
    ASSUME TypeInv, PermitInv, [Next]_vars
    PROVE  PermitInv'
<1>1. CASE PreToolUse
  <2>1. PICK x \in Input, answer \in Answers : \E h \in PreHook(x) :
           LET ok == /\ h.verdict = "allow"
                     /\ AuthorizeWithContext(Question(h.updated, h.override, answer))
           IN  /\ phase' = IF ok THEN "execute" ELSE "result"
               /\ grant' = IF ok
                           THEN [use |-> Head(pending), ok |-> TRUE, input |-> h.updated,
                                 override |-> h.override, answer |-> answer]
                           ELSE [use |-> Head(pending), ok |-> FALSE]
    BY <1>1 DEF PreToolUse
  <2>2. PICK h \in PreHook(x) :
           LET ok == /\ h.verdict = "allow"
                     /\ AuthorizeWithContext(Question(h.updated, h.override, answer))
           IN  /\ phase' = IF ok THEN "execute" ELSE "result"
               /\ grant' = IF ok
                           THEN [use |-> Head(pending), ok |-> TRUE, input |-> h.updated,
                                 override |-> h.override, answer |-> answer]
                           ELSE [use |-> Head(pending), ok |-> FALSE]
    BY <2>1
  <2>3. h.updated \in Input /\ h.override \in PermissionOverride
    BY DEF PreHook, HookAnswers, HookResult, PermissionOverride
  <2>4. ASSUME phase' = "execute" PROVE grant'.ok /\ Permitted(grant)'
    <3>1. /\ AuthorizeWithContext(Question(h.updated, h.override, answer))
          /\ grant' = [use |-> Head(pending), ok |-> TRUE, input |-> h.updated,
                       override |-> h.override, answer |-> answer]
      BY <2>2, <2>4
    <3>2. Permitted(grant')
      BY <3>1, <2>3, CascadePermits
    <3> QED
      BY <3>1, <3>2 DEF Permitted
  <2> QED
    BY <2>4, <1>1 DEF PreToolUse, PermitInv, RanAsPermitted, Permitted
<1>2. CASE ExecuteTool
  BY <1>2 DEF ExecuteTool, PermitInv, RanAsPermitted, Permitted
<1>3. CASE UNCHANGED <<ran, phase, grant>>
  BY <1>3 DEF PermitInv, RanAsPermitted, Permitted
<1>4. CASE UNCHANGED ran /\ phase' # "execute"
  BY <1>4 DEF PermitInv, RanAsPermitted, Permitted
<1>5. Die => UNCHANGED ran /\ phase' # "execute"
  BY DEF Die
<1>6. CASE SubmitPrompt \/ Stream \/ PushResult
  BY <1>4, <1>5, <1>6 DEF SubmitPrompt, Stream, PushResult, PushFails
<1>7. CASE \/ StreamFails \/ TooManyIterations \/ AutoCompact \/ ReplaceRuntime \/ PersistSession
           \/ SlashCompact \/ Quit \/ Resume \/ Crash
  BY <1>4, <1>5, <1>7 DEF StreamFails, TooManyIterations, AutoCompact, ReplaceRuntime,
       PersistSession, SlashCompact, Quit, Resume, Crash, Fail
<1>8. CASE CtrlC \/ UNCHANGED vars
  BY <1>3, <1>8 DEF CtrlC, vars
<1> QED
  BY <1>1, <1>2, <1>6, <1>7, <1>8 DEF Next, TurnStep

\* What a tool is about to run on has been permitted, and what ran was.
THEOREM PermitInvariant == Spec => []PermitInv
<1>1. Init => PermitInv
  BY DEF Init, PermitInv, RanAsPermitted
<1> QED
  BY <1>1, PermitStep, TypeInvariant, PTL DEF Spec

\* A tool runs only on an input that rules, hooks, mode and the user's answer permit.
THEOREM OnlyPermittedRuns == Spec => []RanAsPermitted
BY PermitInvariant, PTL DEF PermitInv

\* Once a tool started after the signal, the hooks of the next one see it.
AbortInv == HasHooks => late = 0 \/ (late = 1 /\ abort /\ phase # "execute")

LEMMA AbortStep ==
    ASSUME TypeInv, AbortInv, [Next]_vars
    PROVE  AbortInv'
<1> SUFFICES ASSUME HasHooks
             PROVE  late' = 0 \/ (late' = 1 /\ abort' /\ phase' # "execute")
  BY DEF AbortInv
<1>0. late = 0 \/ (late = 1 /\ abort /\ phase # "execute")
  BY DEF AbortInv
<1>1. CASE PreToolUse
  <2>1. ASSUME abort
        PROVE  phase' = "result"
    BY <1>1, <2>1 DEF PreToolUse, PreHook, HookAnswers
  <2> QED
    BY <1>0, <1>1, <2>1 DEF PreToolUse
<1>2. CASE ExecuteTool
  BY <1>0, <1>2 DEF ExecuteTool
<1>3. CASE late' = 0
  BY <1>3
<1>4. CASE UNCHANGED <<late, abort>> /\ phase' # "execute"
  BY <1>0, <1>4
<1>5. Die => late' = 0
  BY DEF Die
<1>6. CASE SubmitPrompt \/ Stream \/ PushResult
  BY <1>3, <1>4, <1>5, <1>6 DEF SubmitPrompt, Stream, PushResult, PushFails
<1>7. CASE \/ StreamFails \/ TooManyIterations \/ AutoCompact \/ ReplaceRuntime \/ PersistSession
           \/ SlashCompact \/ Quit \/ Resume \/ Crash
  BY <1>3, <1>4, <1>5, <1>7 DEF StreamFails, TooManyIterations, AutoCompact, ReplaceRuntime,
       PersistSession, SlashCompact, Quit, Resume, Crash, Fail
<1>8. CASE CtrlC
  BY <1>0, <1>8 DEF CtrlC
<1>9. CASE UNCHANGED vars
  BY <1>0, <1>9 DEF vars
<1> QED
  BY <1>1, <1>2, <1>6, <1>7, <1>8, <1>9 DEF Next, TurnStep

\* With hooks configured, Ctrl-C lets at most one more tool start.
THEOREM AbortIsObeyed == Spec => []AbortStopsTools
<1>1. Init => AbortInv
  BY DEF Init, AbortInv
<1>2. AbortInv => AbortStopsTools
  BY DEF AbortInv, AbortStopsTools
<1> QED
  BY <1>1, <1>2, AbortStep, TypeInvariant, PTL DEF Spec

(***************************************************************************)
(* Tool uses.  The queue holds the uses of one message that have no result *)
(* yet, in order, and its head is the one being served.                    *)
(***************************************************************************)
QueueInv ==
    /\ pending # <<>> <=> phase \in {"pre", "execute", "result"}
    /\ pending # <<>> =>
          /\ pending[1][1] <= LastId(file) /\ pending[1][2] >= 1
          /\ \A k \in 1..Len(pending) : pending[k] = <<pending[1][1], pending[1][2] + k - 1>>
    /\ phase \in {"execute", "result"} => grant.use = pending[1]

\* Whatever ran was queued by a message on file; of the uses that still are, only the head
\* can have run, and it has when its result, which is due, says so.
RanInv ==
    /\ \A r \in ran : r.use[1] <= LastId(file)
    /\ \A r \in ran : \A k \in 1..Len(pending) : r.use = pending[k] => k = 1 /\ phase = "result"
    /\ phase = "result" => (grant.ok <=> \E r \in ran : r.use = pending[1])

\* The results in s tell what was done, and none answers a use that is still in queue.
Told(s, last, queue, done) ==
    \A i \in 1..Len(s) : s[i].role = "tool" =>
        /\ s[i].answers[1] <= last
        /\ \A k \in 1..Len(queue) : s[i].answers # queue[k]
        /\ s[i].ran <=> \E r \in done : r.use = s[i].answers
ToldInv == \A s \in Sessions : Told(s, LastId(file), pending, ran)

ToolInv == QueueInv /\ RanInv /\ ToldInv

LEMMA LastIdAppend ==
    ASSUME NEW s \in Seq(Message), NEW m \in Message
    PROVE  LastId(Append(s, m)) = m.id
<1>1. Append(s, m) # <<>> /\ Append(s, m)[Len(Append(s, m))] = m
  BY AppendProperties
<1> QED
  BY <1>1 DEF LastId

\* A compaction in terms of the message it cuts at.
LEMMA CompactTail ==
    ASSUME NEW s \in Seq(Message), Contiguous(s), ShouldCompact(s, TRUE)
    PROVE  LET c == CompactSession(s, TRUE)
               k == Len(s) - Preserve
           IN  /\ k \in 1..Len(s) /\ c \in Seq(Message) /\ Len(c) \in Nat /\ Len(c) >= 2
               /\ k + Len(c) - 1 = Len(s)
               /\ c[1] = Summary(s[k].id) /\ s[k].id \in Nat
               /\ \A i \in 2..Len(c) : k + i - 1 \in (k + 1)..Len(s) /\ c[i] = s[k + i - 1]
<1> DEFINE c == CompactSession(s, TRUE)
           k == Len(s) - Preserve
<1>1. /\ k \in (PrefixLen(s) + 1)..Len(s) /\ PrefixLen(s) \in 0..1
      /\ c \in Seq(Message) /\ Len(c) = Preserve + 1 /\ Preserve \in Nat \ {0}
      /\ c[1] = Summary(s[k].id)
      /\ \A i \in 2..Len(c) : c[i] = s[k + i - 1]
  BY CompactShape, PrefixLenRange, PreserveAssumption
<1>a. Len(s) \in Nat /\ k + Preserve = Len(s)
  BY PreserveAssumption
<1> HIDE DEF c, k
<1>2. k \in 1..Len(s) /\ k + Len(c) - 1 = Len(s) /\ Len(c) >= 2 /\ Len(c) \in Nat
  BY <1>1, <1>a
<1>3. \A i \in 2..Len(c) : k + i - 1 \in (k + 1)..Len(s)
  BY <1>1, <1>2
<1>4. s[k].id \in Nat
  <2>1. s[k] \in Message
    BY <1>2
  <2> QED
    BY <2>1 DEF Message
<1> QED
  BY <1>1, <1>2, <1>3, <1>4 DEF c, k

LEMMA LastIdCompact ==
    ASSUME NEW s \in Seq(Message), Contiguous(s), NEW over \in BOOLEAN
    PROVE  LastId(CompactSession(s, over)) = LastId(s)
<1>1. CASE ~ShouldCompact(s, over)
  BY <1>1 DEF CompactSession
<1>2. CASE ShouldCompact(s, over)
  <2>1. over = TRUE /\ ShouldCompact(s, TRUE)
    BY <1>2 DEF ShouldCompact
  <2> DEFINE c == CompactSession(s, TRUE)
             k == Len(s) - Preserve
  <2>2. /\ k \in 1..Len(s) /\ c \in Seq(Message) /\ Len(c) \in Nat /\ Len(c) >= 2
        /\ k + Len(c) - 1 = Len(s)
        /\ \A i \in 2..Len(c) : c[i] = s[k + i - 1]
    BY <2>1, CompactTail
  <2> HIDE DEF c, k
  <2>3. Len(c) \in 2..Len(c)
    BY <2>2
  <2>4. c[Len(c)] = s[Len(s)] /\ c # <<>> /\ s # <<>>
    BY <2>2, <2>3
  <2> QED
    BY <2>1, <2>4 DEF LastId, c
<1> QED
  BY <1>1, <1>2

LEMMA ToldEmpty ==
    ASSUME NEW last, NEW queue, NEW done
    PROVE  Told(<<>>, last, queue, done)
BY DEF Told

LEMMA ToldCompact ==
    ASSUME NEW s \in Seq(Message), Contiguous(s), NEW over \in BOOLEAN,
           NEW last, NEW queue, NEW done, Told(s, last, queue, done)
    PROVE  Told(CompactSession(s, over), last, queue, done)
<1>1. CASE ~ShouldCompact(s, over)
  BY <1>1 DEF CompactSession
<1>2. CASE ShouldCompact(s, over)
  <2>1. over = TRUE /\ ShouldCompact(s, TRUE)
    BY <1>2 DEF ShouldCompact
  <2> DEFINE c == CompactSession(s, TRUE)
             k == Len(s) - Preserve
  <2>2. /\ k \in 1..Len(s) /\ Len(c) \in Nat /\ c[1] = Summary(s[k].id)
        /\ \A i \in 2..Len(c) : k + i - 1 \in (k + 1)..Len(s) /\ c[i] = s[k + i - 1]
    BY <2>1, CompactTail
  <2> HIDE DEF c, k
  <2>4. ASSUME NEW i \in 1..Len(c), c[i].role = "tool"
        PROVE  \E j \in 1..Len(s) : c[i] = s[j]
    <3>1. i # 1
      BY <2>2, <2>4 DEF Summary
    <3>2. i \in 2..Len(c)
      BY <2>2, <3>1
    <3>3. k + i - 1 \in 1..Len(s) /\ c[i] = s[k + i - 1]
      BY <2>2, <3>2
    <3> QED
      BY <3>3
  <2>5. Told(c, last, queue, done)
    BY <2>4 DEF Told
  <2> QED
    BY <2>1, <2>5 DEF c
<1> QED
  BY <1>1, <1>2

LEMMA ToldAppend ==
    ASSUME NEW s \in Seq(Message), NEW m \in Message, NEW last, NEW queue, NEW done,
           Told(s, last, queue, done),
           m.role = "tool" => /\ m.answers[1] <= last
                              /\ \A k \in 1..Len(queue) : m.answers # queue[k]
                              /\ m.ran <=> \E r \in done : r.use = m.answers
    PROVE  Told(Append(s, m), last, queue, done)
<1> DEFINE t == Append(s, m)
<1>1. /\ Len(t) = Len(s) + 1 /\ t[Len(s) + 1] = m
      /\ \A i \in 1..Len(s) : t[i] = s[i]
  OBVIOUS
<1> HIDE DEF t
<1>2. \A i \in 1..Len(t) : i \in 1..Len(s) \/ i = Len(s) + 1
  BY <1>1
<1> QED
  BY <1>1, <1>2 DEF Told, t

\* A later last id and fewer queued uses disturb nothing.
LEMMA ToldLater ==
    ASSUME NEW s \in Seq(Message), NEW last \in Nat, NEW last2 \in Nat, last <= last2,
           NEW queue, NEW queue2, NEW done, Told(s, last, queue, done),
           \A k \in 1..Len(queue2) : \/ queue2[k][1] > last
                                     \/ \E j \in 1..Len(queue) : queue2[k] = queue[j]
    PROVE  Told(s, last2, queue2, done)
<1> SUFFICES ASSUME NEW i \in 1..Len(s), s[i].role = "tool"
             PROVE  /\ s[i].answers[1] <= last2
                    /\ \A k \in 1..Len(queue2) : s[i].answers # queue2[k]
  BY DEF Told
<1>0. s[i] \in Message
  OBVIOUS
<1>1. s[i].answers \in Nat \X Nat /\ s[i].answers[1] <= last
  BY <1>0 DEF Told, Message
<1>2. s[i].answers[1] \in Nat
  BY <1>1
<1>3. ASSUME NEW k \in 1..Len(queue2), s[i].answers = queue2[k]
      PROVE  FALSE
  <2>1. queue2[k][1] <= last /\ queue2[k][1] \in Nat
    BY <1>1, <1>2, <1>3
  <2>2. PICK j \in 1..Len(queue) : queue2[k] = queue[j]
    BY <2>1
  <2> QED
    BY <2>2, <1>3 DEF Told
<1> QED
  BY <1>1, <1>2, <1>3

\* The steps after which no use is queued.
LEMMA ToolsRest ==
    ASSUME TypeInv, TypeInv', ToolInv, pending' = <<>>, ran' = ran,
           phase' \notin {"pre", "execute", "result"}, LastId(file) <= LastId(file'),
           \A s \in {live', work', file'} : Told(s, LastId(file'), <<>>, ran)
    PROVE  ToolInv'
<1>1. LastId(file) \in Nat /\ LastId(file') \in Nat
  BY NextIdType DEF TypeInv, TypeOK
<1>2. \A r \in ran : r.use[1] \in Nat
  BY DEF TypeInv, TypeOK, Grant
<1>3. \A r \in ran : r.use[1] <= LastId(file')
  BY <1>1, <1>2 DEF ToolInv, RanInv
<1>4. RanInv'
  BY <1>3 DEF RanInv, LastId
<1>5. QueueInv'
  BY DEF QueueInv
<1>6. ToldInv'
  BY DEF ToldInv, Sessions, Told, LastId
<1> QED
  BY <1>4, <1>5, <1>6 DEF ToolInv

LEMMA DieTools ==
    ASSUME TypeInv, TypeInv', ToolInv, Die, LastId(file) <= LastId(file'),
           Told(file', LastId(file'), <<>>, ran)
    PROVE  ToolInv'
<1>1. /\ pending' = <<>> /\ ran' = ran /\ phase' = "exited"
      /\ live' = <<>> /\ work' = <<>>
  BY DEF Die
<1>2. \A s \in {live', work', file'} : Told(s, LastId(file'), <<>>, ran)
  BY <1>1, ToldEmpty
<1> QED
  BY <1>1, <1>2, ToolsRest

\* What is told of the sessions still is when the uses are dropped from the queue.
LEMMA ToldAtRest ==
    ASSUME TypeInv, ToolInv
    PROVE  \A s \in Sessions : Told(s, LastId(file), <<>>, ran)
BY DEF ToolInv, ToldInv, Told

LEMMA FailTools ==
    ASSUME TypeInv, TypeInv', ToolInv, Fail
    PROVE  ToolInv'
<1>1. LastId(file) \in Nat /\ file' = file
  BY NextIdType DEF TypeInv, TypeOK, Fail
<1>2. Told(file, LastId(file), <<>>, ran)
  BY ToldAtRest DEF Sessions
<1> QED
  BY <1>1, <1>2, DieTools DEF Fail

LEMMA PushFailsTools ==
    ASSUME TypeInv, TypeInv', ToolInv, NEW m \in Message, PushFails(m), m.id = NextId(file),
           m.role = "tool" => /\ m.answers[1] <= LastId(file)
                              /\ m.ran <=> \E r \in ran : r.use = m.answers
    PROVE  ToolInv'
<1>1. /\ file \in Seq(Message) /\ LastId(file) \in Nat /\ m.id = LastId(file) + 1
      /\ Told(file, LastId(file), <<>>, ran)
  BY NextIdType, ToldAtRest DEF TypeInv, TypeOK, Sessions, NextId
<1>2. CASE file' = file
  BY <1>1, <1>2, DieTools DEF PushFails
<1>3. CASE file' = Append(file, m)
  <2>1. LastId(file') = LastId(file) + 1
    BY <1>1, <1>3, LastIdAppend
  <2>2. Told(file, LastId(file'), <<>>, ran)
    <3>1. \A k \in 1..Len(<<>>) : FALSE
      OBVIOUS
    <3> QED
      BY <1>1, <2>1, <3>1, ToldLater
  <2>3. m.role = "tool" => m.answers[1] <= LastId(file')
    <3>1. m.answers[1] \in Nat
      BY DEF Message
    <3> QED
      BY <3>1, <1>1, <2>1
  <2>4. Told(file', LastId(file'), <<>>, ran)
    BY <1>1, <1>3, <2>2, <2>3, ToldAppend
  <2> QED
    BY <1>1, <2>1, <2>4, DieTools DEF PushFails
<1> QED
  BY <1>2, <1>3 DEF PushFails

\* The steps that move sessions about, at most compacted, with no use queued.
LEMMA MoveTools ==
    ASSUME TypeInv, TypeInv', SessionInv, ToolInv,
           UNCHANGED <<pending, ran>>, pending = <<>>,
           phase' \notin {"pre", "execute", "result"},
           \A s \in {live', work', file'} :
              \/ s = <<>>
              \/ \E t \in Sessions, over \in BOOLEAN : s = CompactSession(t, over),
           file' \in {file, CompactSession(file, TRUE)}
    PROVE  ToolInv'
<1>1. \A t \in Sessions : t \in Seq(Message) /\ Contiguous(t) /\ Told(t, LastId(file), <<>>, ran)
  BY ToldAtRest DEF TypeInv, TypeOK, SessionInv, NoMessageLost, Sessions
<1>2. LastId(file') = LastId(file) /\ LastId(file) \in Nat
  BY <1>1, LastIdCompact, NextIdType DEF Sessions
<1>3. \A s \in {live', work', file'} : Told(s, LastId(file), <<>>, ran)
  BY <1>1, ToldCompact, ToldEmpty
<1> QED
  BY <1>2, <1>3, ToolsRest

\* A message is pushed on a session while some uses stay queued and new ones, of this
\* message, may be.
LEMMA ToldPush ==
    ASSUME TypeInv, ToolInv, NEW s \in Sessions, NEW m \in Message, m.id = NextId(file),
           NEW queue,
           \A k \in 1..Len(queue) : \/ queue[k][1] > LastId(file)
                                    \/ \E j \in 1..Len(pending) : queue[k] = pending[j],
           m.role = "tool" => /\ m.answers[1] <= LastId(file)
                              /\ \A k \in 1..Len(queue) : m.answers # queue[k]
                              /\ m.ran <=> \E r \in ran : r.use = m.answers
    PROVE  Told(s, m.id, queue, ran) /\ Told(Append(s, m), m.id, queue, ran)
<1>1. s \in Seq(Message) /\ LastId(file) \in Nat /\ m.id = LastId(file) + 1
  BY NextIdType DEF TypeInv, TypeOK, Sessions, NextId
<1>2. Told(s, LastId(file), pending, ran)
  BY DEF ToolInv, ToldInv
<1>3. m.answers[1] \in Nat
  BY DEF Message
<1>4. Told(s, m.id, queue, ran)
  BY <1>1, <1>2, ToldLater
<1> QED
  BY <1>1, <1>3, <1>4, ToldAppend

LEMMA SubmitTools ==
    ASSUME TypeInv, TypeInv', SessionInv, ToolInv, SubmitPrompt
    PROVE  ToolInv'
<1> DEFINE m == UserText(NextId(live))
<1>1. live = file /\ live \in Sessions /\ file \in Sessions /\ file \in Seq(Message)
  BY DEF SubmitPrompt, SessionInv, IdleInSync, Sessions, TypeInv, TypeOK
<1>2. m \in Message /\ m.id = NextId(file) /\ m.role # "tool"
  <2>1. NextId(file) \in Nat
    BY <1>1, NextIdType
  <2> QED
    BY <1>1, <2>1 DEF Message, UserText, NoUse
<1>3. CASE PushFails(m)
  BY <1>2, <1>3, PushFailsTools
<1>4. CASE ~PushFails(m)
  <2>1. /\ work' = Append(live, m) /\ file' = Append(file, m) /\ phase' = "request"
        /\ UNCHANGED <<live, pending, ran>> /\ phase = "idle"
    BY <1>4 DEF SubmitPrompt
  <2>2. pending' = <<>>
    BY <2>1 DEF ToolInv, QueueInv
  <2> HIDE DEF m
  <2>3. LastId(file') = m.id /\ LastId(file) \in Nat /\ m.id = LastId(file) + 1
    BY <1>1, <1>2, <2>1, LastIdAppend, NextIdType DEF NextId
  <2>4. /\ Told(live, m.id, <<>>, ran) /\ Told(Append(file, m), m.id, <<>>, ran)
    <3>1. \A k \in 1..Len(<<>>) : FALSE
      OBVIOUS
    <3> QED
      BY <1>1, <1>2, <3>1, ToldPush
  <2>5. \A s \in {live', work', file'} : Told(s, LastId(file'), <<>>, ran)
    BY <1>1, <2>1, <2>3, <2>4
  <2> QED
    BY <2>1, <2>2, <2>3, <2>5, ToolsRest
<1> QED
  BY <1>3, <1>4

LEMMA StreamTools ==
    ASSUME TypeInv, TypeInv', SessionInv, ToolInv, Stream
    PROVE  ToolInv'
<1>1. PICK u \in 0..MaxUses :
         LET m == Assistant(NextId(work), u)
         IN  \/ /\ PushMessage(m)
                /\ pending' = [j \in 1..u |-> <<m.id, j>>]
                /\ phase' = IF u = 0 THEN "compact" ELSE "pre"
                /\ UNCHANGED <<live, grant, ran>>
             \/ PushFails(m)
  BY DEF Stream
<1> DEFINE m == Assistant(NextId(work), u)
<1>2. /\ work = file /\ live \in Sessions /\ file \in Sessions /\ file \in Seq(Message)
      /\ LastId(file) \in Nat
  BY NextIdType DEF Stream, InTurn, SessionInv, WriteAhead, Sessions, TypeInv, TypeOK
<1>3. u \in Nat /\ m \in Message /\ m.id = NextId(file) /\ m.role # "tool"
  <2>1. NextId(file) \in Nat
    BY <1>2, NextIdType
  <2> QED
    BY <1>2, <2>1, MaxUsesAssumption DEF Message, Assistant, NoUse
<1>4. CASE PushFails(m)
  BY <1>3, <1>4, PushFailsTools
<1>5. CASE ~PushFails(m)
  <2>1. /\ work' = Append(file, m) /\ file' = Append(file, m)
        /\ pending' = [j \in 1..u |-> <<m.id, j>>]
        /\ phase' = IF u = 0 THEN "compact" ELSE "pre"
        /\ UNCHANGED <<live, grant, ran>>
    BY <1>1, <1>2, <1>5 DEF PushMessage
  <2> HIDE DEF m
  <2>2. LastId(file') = m.id /\ m.id = LastId(file) + 1
    BY <1>2, <1>3, <2>1, LastIdAppend DEF NextId
  <2>3. Len(pending') = u /\ \A k \in 1..u : pending'[k] = <<m.id, k>>
    BY <1>3, <2>1
  <2>4. /\ Told(live, m.id, pending', ran) /\ Told(Append(file, m), m.id, pending', ran)
    <3>1. \A k \in 1..Len(pending') : pending'[k][1] > LastId(file)
      BY <1>2, <2>2, <2>3
    <3> QED
      BY <1>2, <1>3, <3>1, ToldPush
  <2>5. ToldInv'
    <3>1. \A s \in {live', work', file'} : Told(s, LastId(file'), pending', ran')
      BY <2>1, <2>2, <2>4
    <3> QED
      BY <3>1 DEF ToldInv, Sessions, Told, LastId
  <2>6. \A r \in ran : r.use[1] <= LastId(file) /\ r.use[1] \in Nat
    BY DEF ToolInv, RanInv, TypeInv, TypeOK, Grant
  <2>7. RanInv'
    <3>1. \A r \in ran' : r.use[1] <= LastId(file')
      BY <1>2, <2>1, <2>2, <2>6
    <3>2. \A r \in ran' : \A k \in 1..Len(pending') : r.use # pending'[k]
      BY <1>2, <2>1, <2>2, <2>3, <2>6
    <3> QED
      BY <2>1, <3>1, <3>2 DEF RanInv, LastId
  <2>8. QueueInv'
    <3>1. CASE u = 0
      <4>1. pending' = <<>>
        BY <3>1, <2>1
      <4> QED
        BY <2>1, <3>1, <4>1 DEF QueueInv
    <3>2. CASE u # 0
      <4>1. pending' # <<>> /\ pending'[1] = <<m.id, 1>> /\ 1 \in Nat
        BY <1>3, <2>3, <3>2
      <4>2. \A k \in 1..Len(pending') :
               pending'[k] = <<pending'[1][1], pending'[1][2] + k - 1>>
        BY <1>3, <2>3, <4>1
      <4>3. pending'[1][1] <= LastId(file') /\ pending'[1][2] >= 1
        BY <1>2, <2>2, <4>1
      <4> QED
        BY <2>1, <3>2, <4>1, <4>2, <4>3 DEF QueueInv, LastId
    <3> QED
      BY <3>1, <3>2
  <2> QED
    BY <2>5, <2>7, <2>8 DEF ToolInv
<1> QED
  BY <1>4, <1>5

LEMMA TailShape ==
    ASSUME NEW S, NEW s \in Seq(S), s # <<>>
    PROVE  /\ Len(Tail(s)) = Len(s) - 1 /\ Len(s) \in Nat /\ Len(s) >= 1
           /\ \A k \in 1..Len(Tail(s)) : k + 1 \in 1..Len(s) /\ Tail(s)[k] = s[k + 1]
           /\ Tail(s) # <<>> => 1 \in 1..Len(Tail(s))
<1>1. Len(s) \in Nat /\ Len(s) >= 1
  OBVIOUS
<1>2. Tail(s) \in Seq(S) /\ Len(Tail(s)) = Len(s) - 1
  BY HeadTailProperties
<1>3. \A k \in 1..Len(Tail(s)) : k + 1 \in 1..Len(s) /\ Tail(s)[k] = s[k + 1]
  BY <1>1, <1>2, HeadTailProperties
<1>4. Tail(s) # <<>> => 1 \in 1..Len(Tail(s))
  BY <1>2
<1> QED
  BY <1>1, <1>2, <1>3, <1>4

LEMMA PushResultTools ==
    ASSUME TypeInv, TypeInv', SessionInv, ToolInv, PushResult
    PROVE  ToolInv'
<1> DEFINE m == ToolResult(NextId(work), grant.use, grant.ok)
<1>a. phase = "result" /\ pending # <<>> /\ pending \in Seq(Nat \X Nat)
  BY DEF PushResult, TypeInv, TypeOK, QueueNotEmpty
<1>b. pending[1] \in Nat \X Nat
  BY <1>a
<1>c. work = file /\ file \in Seq(Message)
  BY <1>a DEF InTurn, SessionInv, WriteAhead, TypeInv, TypeOK
<1>1. /\ work = file /\ live \in Sessions /\ file \in Sessions /\ file \in Seq(Message)
      /\ LastId(file) \in Nat /\ phase = "result" /\ pending # <<>>
      /\ pending \in Seq(Nat \X Nat) /\ pending[1] \in Nat \X Nat
  BY <1>a, <1>b, <1>c, NextIdType DEF Sessions
<1>2. /\ grant.use = pending[1] /\ pending[1][1] <= LastId(file) /\ pending[1][2] >= 1
      /\ \A k \in 1..Len(pending) : pending[k] = <<pending[1][1], pending[1][2] + k - 1>>
      /\ grant.ok <=> \E r \in ran : r.use = pending[1]
  BY <1>1 DEF ToolInv, QueueInv, RanInv
<1>3. /\ m \in Message /\ m.id = NextId(file) /\ m.answers = pending[1] /\ m.ran = grant.ok
  <2>1. NextId(file) \in Nat /\ grant.ok \in BOOLEAN
    BY <1>1, NextIdType DEF TypeInv, TypeOK, Grant
  <2> QED
    BY <1>1, <1>2, <2>1 DEF Message, ToolResult
<1>4. CASE PushFails(m)
  BY <1>2, <1>3, <1>4, PushFailsTools
<1>5. CASE ~PushFails(m)
  <2>1. /\ work' = Append(file, m) /\ file' = Append(file, m)
        /\ pending' = Tail(pending)
        /\ phase' = IF Tail(pending) = <<>> THEN "request" ELSE "pre"
        /\ UNCHANGED <<live, ran>>
    BY <1>1, <1>5 DEF PushMessage, PushResult
  <2> HIDE DEF m
  <2>2. LastId(file') = m.id /\ m.id = LastId(file) + 1
    BY <1>1, <1>3, <2>1, LastIdAppend DEF NextId
  <2>3. /\ Len(pending') = Len(pending) - 1 /\ Len(pending) \in Nat
        /\ \A k \in 1..Len(pending') : k + 1 \in 1..Len(pending) /\ pending'[k] = pending[k + 1]
        /\ pending' # <<>> => 1 \in 1..Len(pending')
    BY <1>1, <2>1, TailShape
  <2>4. \A k \in 1..Len(pending') : pending'[k] = <<pending[1][1], pending[1][2] + k>>
    <3> TAKE k \in 1..Len(pending')
    <3>1. k + 1 \in 1..Len(pending) /\ pending'[k] = pending[k + 1]
          /\ pending[1][2] \in Nat /\ k \in Nat
      BY <1>1, <2>3, SMTT(30)
    <3>2. pending[k + 1] = <<pending[1][1], pending[1][2] + (k + 1) - 1>>
      BY <1>2, <3>1
    <3> QED
      BY <3>1, <3>2
  <2>5. \A k \in 1..Len(pending') : pending[1] # pending'[k]
    <3> TAKE k \in 1..Len(pending')
    <3>1. pending'[k][2] = pending[1][2] + k
      BY <2>4
    <3>2. k \in Nat /\ k >= 1 /\ pending[1][2] \in Nat
      BY <1>1, <2>3
    <3> QED
      BY <3>1, <3>2
  <2>6. /\ Told(live, m.id, pending', ran) /\ Told(Append(file, m), m.id, pending', ran)
    <3>1. \A k \in 1..Len(pending') : \E j \in 1..Len(pending) : pending'[k] = pending[j]
      BY <2>3
    <3> QED
      BY <1>1, <1>2, <1>3, <2>5, <3>1, ToldPush
  <2>7. ToldInv'
    <3>1. \A s \in {live', work', file'} : Told(s, LastId(file'), pending', ran')
      BY <2>1, <2>2, <2>6
    <3> QED
      BY <3>1 DEF ToldInv, Sessions, Told, LastId
  <2>8. RanInv'
    <3>1. \A r \in ran' : r.use[1] <= LastId(file')
      <4>1. \A r \in ran : r.use[1] <= LastId(file) /\ r.use[1] \in Nat
        BY DEF ToolInv, RanInv, TypeInv, TypeOK, Grant
      <4>2. LastId(file') = LastId(file) + 1 /\ ran' = ran
        BY <2>1, <2>2
      <4> QED
        BY <1>1, <4>1, <4>2
    <3>2. \A r \in ran' : \A k \in 1..Len(pending') : r.use # pending'[k]
      <4>1. \A k \in 1..Len(pending') : k + 1 # 1
        BY <2>3
      <4> QED
        BY <2>1, <2>3, <4>1 DEF ToolInv, RanInv
    <3> QED
      BY <2>1, <3>1, <3>2 DEF RanInv, LastId
  <2>9. QueueInv'
    <3>1. CASE Tail(pending) = <<>>
      BY <2>1, <3>1 DEF QueueInv
    <3>2. CASE Tail(pending) # <<>>
      <4>1. pending' # <<>> /\ 1 \in 1..Len(pending') /\ pending[1][2] \in Nat
        BY <1>1, <2>1, <2>3, <3>2
      <4>2. pending'[1] = <<pending[1][1], pending[1][2] + 1>>
        BY <2>4, <4>1
      <4>3. \A k \in 1..Len(pending') :
               pending'[k] = <<pending'[1][1], pending'[1][2] + k - 1>>
        BY <2>4, <4>1, <4>2
      <4>4. pending'[1][1] <= LastId(file') /\ pending'[1][2] >= 1
        BY <1>1, <1>2, <2>2, <4>1, <4>2
      <4> QED
        BY <2>1, <3>2, <4>1, <4>3, <4>4 DEF QueueInv, LastId
    <3> QED
      BY <3>1, <3>2
  <2> QED
    BY <2>7, <2>8, <2>9 DEF ToolInv
<1> QED
  BY <1>4, <1>5

\* Between the check of a use and its result: the grant is of the head of the queue.
LEMMA PreToolTools ==
    ASSUME TypeInv, ToolInv, PreToolUse
    PROVE  ToolInv'
<1>1. /\ phase = "pre" /\ phase' \in {"execute", "result"}
      /\ grant'.use = Head(pending) /\ (phase' = "result" => ~grant'.ok)
      /\ UNCHANGED <<live, work, file, pending, ran>>
  BY DEF PreToolUse
<1>2. pending # <<>> /\ Head(pending) = pending[1] /\ pending \in Seq(Nat \X Nat)
  BY <1>1 DEF TypeInv, TypeOK, QueueNotEmpty
<1>3. QueueInv'
  BY <1>1, <1>2 DEF ToolInv, QueueInv, LastId
<1>4. \A r \in ran : \A k \in 1..Len(pending) : r.use # pending[k]
  BY <1>1 DEF ToolInv, RanInv
<1>5. RanInv'
  <2>1. 1 \in 1..Len(pending)
    BY <1>2
  <2> QED
    BY <1>1, <1>4, <2>1 DEF ToolInv, RanInv, LastId
<1>6. ToldInv'
  BY <1>1 DEF ToolInv, ToldInv, Told, Sessions, LastId
<1> QED
  BY <1>3, <1>5, <1>6 DEF ToolInv

LEMMA ExecuteTools ==
    ASSUME TypeInv, PermitInv, ToolInv, ExecuteTool
    PROVE  ToolInv'
<1>1. /\ phase = "execute" /\ phase' = "result" /\ ran' = ran \cup {grant}
      /\ UNCHANGED <<live, work, file, pending, grant>>
  BY DEF ExecuteTool
<1>2. pending # <<>> /\ pending \in Seq(Nat \X Nat) /\ grant.use = pending[1] /\ grant.ok
  BY <1>1 DEF TypeInv, TypeOK, QueueNotEmpty, ToolInv, QueueInv, PermitInv
<1>3. 1 \in 1..Len(pending) /\ Len(pending) \in Nat
  BY <1>2
<1>4. QueueInv'
  BY <1>1 DEF ToolInv, QueueInv, LastId
<1>5. \A k \in 1..Len(pending) : pending[1] = pending[k] => k = 1
  <2> TAKE k \in 1..Len(pending)
  <2>1. pending[k] = <<pending[1][1], pending[1][2] + k - 1>> /\ pending[1] \in Nat \X Nat
    BY <1>2, <1>3, SMTT(30) DEF ToolInv, QueueInv
  <2> QED
    BY <2>1
<1>6. RanInv'
  <2>1. \A r \in ran' : r.use[1] <= LastId(file')
    <3>1. grant.use[1] <= LastId(file)
      BY <1>2 DEF ToolInv, QueueInv
    <3> QED
      BY <1>1, <3>1 DEF ToolInv, RanInv, LastId
  <2>2. \A r \in ran' : \A k \in 1..Len(pending') : r.use = pending'[k] => k = 1
    BY <1>1, <1>2, <1>5 DEF ToolInv, RanInv
  <2>3. \E r \in ran' : r.use = pending'[1]
    BY <1>1, <1>2
  <2> QED
    BY <1>1, <1>2, <2>1, <2>2, <2>3 DEF RanInv, LastId
<1>7. ToldInv'
  <2> SUFFICES ASSUME NEW s \in Sessions
               PROVE  Told(s, LastId(file), pending, ran')
    BY <1>1 DEF ToldInv, Told, Sessions, LastId
  <2>1. Told(s, LastId(file), pending, ran)
    BY DEF ToolInv, ToldInv
  <2> QED
    BY <1>1, <1>2, <1>3, <2>1 DEF Told
<1> QED
  BY <1>4, <1>6, <1>7 DEF ToolInv

\* The steps that leave sessions, queue and history alone.
LEMMA QuietTools ==
    ASSUME ToolInv, UNCHANGED <<live, work, file, pending, ran, phase, grant>>
    PROVE  ToolInv'
BY DEF ToolInv, QueueInv, RanInv, ToldInv, Told, Sessions, LastId

LEMMA ToolStep ==
    ASSUME TypeInv, TypeInv', SessionInv, PermitInv, ToolInv, [Next]_vars
    PROVE  ToolInv'
<1>0. /\ \A t \in Sessions : CompactSession(t, FALSE) = t
      /\ live \in Sessions /\ work \in Sessions /\ file \in Sessions
      /\ phase \notin {"pre", "execute", "result"} => pending = <<>>
  BY DEF CompactSession, ShouldCompact, Sessions, ToolInv, QueueInv
<1>1. CASE AutoCompact \/ SlashCompact \/ Resume
  <2>1. /\ UNCHANGED <<pending, ran>> /\ pending = <<>>
        /\ phase' \notin {"pre", "execute", "result"} /\ file' = file
    BY <1>0, <1>1 DEF AutoCompact, SlashCompact, Resume
  <2>2. \A s \in {live', work', file'} :
           \E t \in Sessions, over \in BOOLEAN : s = CompactSession(t, over)
    BY <1>0, <1>1 DEF AutoCompact, SlashCompact, Resume
  <2> QED
    BY <2>1, <2>2, MoveTools
<1>2. CASE ReplaceRuntime /\ ~Fail
  <2>1. /\ UNCHANGED <<pending, ran>> /\ pending = <<>>
        /\ phase' \notin {"pre", "execute", "result"} /\ file' = file
        /\ live' = work /\ work' = <<>>
    BY <1>0, <1>2 DEF ReplaceRuntime
  <2>2. \A s \in {live', work', file'} :
           s = <<>> \/ \E t \in Sessions, over \in BOOLEAN : s = CompactSession(t, over)
    BY <1>0, <2>1
  <2> QED
    BY <2>1, <2>2, MoveTools
<1>3. CASE PersistSession /\ ~Fail
  <2>1. /\ UNCHANGED <<pending, ran>> /\ pending = <<>>
        /\ phase' \notin {"pre", "execute", "result"}
        /\ file' = live /\ live' = live /\ work' = work
    BY <1>0, <1>3 DEF PersistSession
  <2>2. file' \in {file, CompactSession(file, TRUE)}
    BY <1>3, <2>1 DEF PersistSession, SessionInv, SaveKeepsFile
  <2>3. \A s \in {live', work', file'} :
           \E t \in Sessions, over \in BOOLEAN : s = CompactSession(t, over)
    BY <1>0, <2>1
  <2> QED
    BY <2>1, <2>2, <2>3, MoveTools
<1>4. CASE Quit
  <2>1. Die /\ file' = file
    BY <1>4 DEF Quit, SessionInv, IdleInSync
  <2> QED
    BY <2>1, FailTools DEF Fail
<1>5. CASE \/ StreamFails \/ TooManyIterations \/ Crash
           \/ (ReplaceRuntime /\ Fail) \/ (PersistSession /\ Fail)
  BY <1>5, FailTools DEF StreamFails, TooManyIterations, Crash
<1>6. CASE CtrlC \/ UNCHANGED vars
  BY <1>6, QuietTools DEF CtrlC, vars
<1> QED
  BY <1>1, <1>2, <1>3, <1>4, <1>5, <1>6, SubmitTools, StreamTools, PushResultTools,
     PreToolTools, ExecuteTools DEF Next, TurnStep

\* What ran, what is about to be told of it and what results in any session say agree.
THEOREM ToolInvariant == Spec => []ToolInv
<1>1. Init => ToolInv
  BY ToldEmpty DEF Init, ToolInv, QueueInv, RanInv, ToldInv, Sessions
<1> QED
  BY <1>1, ToolStep, TypeInvariant, SessionInvariant, PermitInvariant, PTL DEF Spec

\* A result in any session, in memory or on file, says that its tool ran exactly when the
\* tool did, across refusals, aborts, compactions, failed appends and restarts.
THEOREM ResultsAreTruthful == Spec => []TruthfulResults
<1>1. ToolInv => TruthfulResults
  BY DEF ToolInv, ToldInv, Told, TruthfulResults
<1> QED
  BY <1>1, ToolInvariant, PTL

\* No tool use is executed twice.
THEOREM RunsAtMostOnce == Spec => []AtMostOnce
<1>1. TypeInv /\ ToolInv => AtMostOnce
  <2> SUFFICES ASSUME TypeInv, ToolInv, phase = "execute", NEW r \in ran
               PROVE  r.use # grant.use
    BY DEF AtMostOnce
  <2>1. pending # <<>> /\ pending \in Seq(Nat \X Nat) /\ grant.use = pending[1]
    BY DEF TypeInv, TypeOK, QueueNotEmpty, ToolInv, QueueInv
  <2>2. 1 \in 1..Len(pending)
    BY <2>1
  <2> QED
    BY <2>1, <2>2 DEF ToolInv, RanInv
<1> QED
  BY <1>1, TypeInvariant, ToolInvariant, PTL

(***************************************************************************)
(* Uses and their results.  While uses are queued the turn's session ends  *)
(* with the message that made them and the results they have so far; what  *)
(* the turn was cloned from ends before that message.                      *)
(***************************************************************************)
Paid(s, queue, ends) ==
    \A i \in 1..Len(s) : \A j \in 1..s[i].uses :
        \/ i + j <= Len(s) /\ s[i + j].answers = <<s[i].id, j>>
        \/ \E d \in ends : s[i].id <= d /\ d < s[i].id + j
        \/ \E k \in 1..Len(queue) : queue[k] = <<s[i].id, j>>

FollowsFrom(s, k, i) ==
    /\ \/ /\ s[k].id = s[i].answers[1] /\ s[i].answers[2] = i - k
          /\ s[k].role = "assistant" /\ i - k <= s[k].uses
       \/ s[k].role = "system" /\ s[i].answers[1] <= s[k].id
    /\ \A l \in (k + 1)..i : s[l].role = "tool"
Follows(s) ==
    \A i \in 1..Len(s) : s[i].role = "tool" => \E k \in 1..(i - 1) : FollowsFrom(s, k, i)

\* The message at k made the uses of which the first in the queue is next to be answered.
Open(s, k, queue) ==
    /\ k \in 1..Len(s) /\ k + queue[1][2] = Len(s) + 1
    /\ s[k].role = "assistant" /\ s[k].id = queue[1][1]
    /\ s[k].uses = queue[1][2] + Len(queue) - 1
    /\ \A l \in (k + 1)..Len(s) : s[l].role = "tool"
OpenInv ==
    /\ InTurn => LastId(live) <= LastId(work)
    /\ pending # <<>> =>
          /\ LastId(live) < pending[1][1]
          /\ \E k \in 1..Len(work) : Open(work, k, pending)

PairInv == (\A s \in Sessions : Paid(s, pending, deaths) /\ Follows(s)) /\ OpenInv

LEMMA PairEmpty ==
    ASSUME NEW queue, NEW ends
    PROVE  Paid(<<>>, queue, ends) /\ Follows(<<>>)
BY DEF Paid, Follows

LEMMA AppendAt ==
    ASSUME NEW s \in Seq(Message), NEW m \in Message
    PROVE  /\ Append(s, m) \in Seq(Message) /\ Len(s) \in Nat
           /\ Len(Append(s, m)) = Len(s) + 1 /\ Append(s, m)[Len(s) + 1] = m
           /\ \A i \in 1..Len(s) : Append(s, m)[i] = s[i] /\ s[i] \in Message
           /\ \A i \in 1..Len(Append(s, m)) : i \in 1..Len(s) \/ i = Len(s) + 1
BY AppendProperties

LEMMA FollowsAppend ==
    ASSUME NEW s \in Seq(Message), NEW m \in Message, Follows(s),
           m.role = "tool" => \E k \in 1..Len(s) :
              /\ s[k].id = m.answers[1] /\ m.answers[2] = Len(s) + 1 - k
              /\ s[k].role = "assistant" /\ Len(s) + 1 - k <= s[k].uses
              /\ \A l \in (k + 1)..Len(s) : s[l].role = "tool"
    PROVE  Follows(Append(s, m))
<1> DEFINE t == Append(s, m)
<1>1. /\ Len(s) \in Nat /\ Len(t) = Len(s) + 1 /\ t[Len(s) + 1] = m
      /\ \A i \in 1..Len(s) : t[i] = s[i]
      /\ \A i \in 1..Len(t) : i \in 1..Len(s) \/ i = Len(s) + 1
  BY AppendAt
<1> HIDE DEF t
<1>2. ASSUME NEW i \in 1..Len(s), t[i].role = "tool"
      PROVE  \E k \in 1..(i - 1) : FollowsFrom(t, k, i)
  <2>1. PICK k \in 1..(i - 1) : FollowsFrom(s, k, i)
    BY <1>1, <1>2 DEF Follows
  <2>2. k \in 1..Len(s) /\ t[k] = s[k] /\ t[i] = s[i] /\ \A l \in (k + 1)..i : t[l] = s[l]
    BY <1>1
  <2>3. FollowsFrom(t, k, i)
    BY <2>1, <2>2 DEF FollowsFrom
  <2> QED
    BY <2>3
<1>3. ASSUME m.role = "tool"
      PROVE  \E k \in 1..Len(s) : FollowsFrom(t, k, Len(s) + 1)
  <2>1. PICK k \in 1..Len(s) :
              /\ s[k].id = m.answers[1] /\ m.answers[2] = Len(s) + 1 - k
              /\ s[k].role = "assistant" /\ Len(s) + 1 - k <= s[k].uses
              /\ \A l \in (k + 1)..Len(s) : s[l].role = "tool"
    BY <1>3
  <2>2. t[k] = s[k] /\ t[Len(s) + 1] = m
    BY <1>1
  <2>3. \A l \in (k + 1)..(Len(s) + 1) : t[l].role = "tool"
    <3> TAKE l \in (k + 1)..(Len(s) + 1)
    <3>1. l \in (k + 1)..Len(s) \/ l = Len(s) + 1
      BY <1>1
    <3> QED
      BY <1>1, <1>3, <2>1, <3>1
  <2>4. FollowsFrom(t, k, Len(s) + 1)
    BY <2>1, <2>2, <2>3 DEF FollowsFrom
  <2> QED
    BY <2>4
<1>4. ASSUME NEW i \in 1..Len(t), t[i].role = "tool"
      PROVE  \E k \in 1..(i - 1) : FollowsFrom(t, k, i)
  <2>1. CASE i \in 1..Len(s)
    BY <1>2, <1>4, <2>1
  <2>2. CASE i = Len(s) + 1
    <3>1. i - 1 = Len(s)
      BY <1>1, <2>2
    <3> QED
      BY <1>1, <1>3, <1>4, <2>2, <3>1
  <2> QED
    BY <1>1, <2>1, <2>2
<1> QED
  BY <1>4 DEF Follows, t

LEMMA ContiguousIds ==
    ASSUME NEW s \in Seq(Message), Contiguous(s), NEW i \in 1..Len(s), NEW j \in 1..Len(s)
    PROVE  /\ s[i].id \in Nat /\ s[j].id = s[i].id + (j - i)
           /\ LastId(s) = s[i].id + (Len(s) - i)
<1>1. s[i].id = Covered(s) + i - PrefixLen(s) /\ s[j].id = Covered(s) + j - PrefixLen(s)
  BY DEF Contiguous
<1>2. Covered(s) \in Nat /\ PrefixLen(s) \in 0..1
  BY PrefixLenRange
<1>3. s[i] \in Message
  OBVIOUS
<1>4. s[i].id \in Nat
  BY <1>3 DEF Message
<1>5. LastId(s) = Covered(s) + Len(s) - PrefixLen(s)
  BY LastIdContiguous
<1> QED
  BY <1>1, <1>2, <1>4, <1>5

LEMMA FollowsCompact ==
    ASSUME NEW s \in Seq(Message), Contiguous(s), Follows(s), NEW over \in BOOLEAN
    PROVE  Follows(CompactSession(s, over))
<1>1. CASE ~ShouldCompact(s, over)
  BY <1>1 DEF CompactSession
<1>2. CASE ShouldCompact(s, over)
  <2>1. over = TRUE /\ ShouldCompact(s, TRUE)
    BY <1>2 DEF ShouldCompact
  <2> DEFINE c == CompactSession(s, TRUE)
             k == Len(s) - Preserve
  <2>5. Len(s) \in Nat
    OBVIOUS
  <2>2. /\ k \in 1..Len(s) /\ c \in Seq(Message) /\ Len(c) \in Nat
        /\ c[1] = Summary(s[k].id) /\ s[k].id \in Nat
        /\ \A i \in 2..Len(c) : k + i - 1 \in (k + 1)..Len(s) /\ c[i] = s[k + i - 1]
    BY <2>1, CompactTail
  <2> HIDE DEF c, k
  <2>3. ASSUME NEW i \in 1..Len(c), c[i].role = "tool"
        PROVE  \E n \in 1..(i - 1) : FollowsFrom(c, n, i)
    <3>1. c[1].role = "system" /\ c[1].id = s[k].id
      BY <2>2 DEF Summary
    <3>2. i \in 2..Len(c)
      BY <2>2, <2>3, <3>1
    <3> DEFINE p == k + i - 1
    <3>3. p \in (k + 1)..Len(s) /\ p \in 1..Len(s) /\ c[i] = s[p]
      BY <2>2, <2>5, <3>2
    <3>4. PICK q \in 1..(p - 1) : FollowsFrom(s, q, p)
      BY <2>3, <3>3 DEF Follows
    <3>5. q \in 1..Len(s) /\ s[q] \in Message /\ s[p] \in Message
      BY <3>3
    <3>6. s[q].id \in Nat /\ s[k].id = s[q].id + (k - q)
      BY <2>2, <2>5, <3>5, ContiguousIds
    <3>7. s[p].answers[1] \in Nat
      BY <3>5 DEF Message
    <3>8. CASE q <= k
      <4>1. s[q].id <= c[1].id
        BY <2>2, <3>1, <3>5, <3>6, <3>8
      <4>2. c[i].answers[1] <= c[1].id
        BY <2>2, <3>1, <3>3, <3>4, <3>6, <3>7, <4>1 DEF FollowsFrom
      <4>3. \A l \in (1 + 1)..i : c[l].role = "tool"
        <5> TAKE l \in (1 + 1)..i
        <5>1. l \in 2..Len(c) /\ k + l - 1 \in (q + 1)..p
          BY <2>2, <2>5, <3>2, <3>3, <3>8
        <5> QED
          BY <2>2, <3>4, <5>1 DEF FollowsFrom
      <4>4. FollowsFrom(c, 1, i)
        BY <3>1, <4>2, <4>3 DEF FollowsFrom
      <4> QED
        BY <3>2, <4>4
    <3>9. CASE q > k
      <4> DEFINE n == q - k + 1
      <4>1. n \in 1..(i - 1) /\ n \in 2..Len(c) /\ k + n - 1 = q /\ i - n = p - q
        BY <2>2, <2>5, <3>2, <3>3, <3>9
      <4>2. c[n] = s[q]
        BY <2>2, <4>1
      <4>3. s[q].role # "system"
        BY <2>2, <2>5, <3>5, <3>9 DEF Contiguous
      <4> HIDE DEF n, p
      <4>4. \A l \in (n + 1)..i : c[l].role = "tool"
        <5> TAKE l \in (n + 1)..i
        <5>1. l \in 2..Len(c) /\ k + l - 1 \in (q + 1)..p
          BY <2>2, <2>5, <3>2, <3>3, <3>9, <4>1 DEF p, n
        <5> QED
          BY <2>2, <3>4, <5>1 DEF FollowsFrom
      <4>5. FollowsFrom(c, n, i)
        BY <3>3, <3>4, <4>1, <4>2, <4>3, <4>4 DEF FollowsFrom
      <4> QED
        BY <4>1, <4>5
    <3>10. q <= k \/ q > k
      BY <2>2, <2>5, <3>5
    <3> QED
      BY <3>8, <3>9, <3>10
  <2>4. Follows(c)
    BY <2>3 DEF Follows
  <2> QED
    BY <2>1, <2>4 DEF c
<1> QED
  BY <1>1, <1>2

LEMMA PaidCompact ==
    ASSUME NEW s \in Seq(Message), Contiguous(s), NEW over \in BOOLEAN,
           NEW queue, NEW ends, Paid(s, queue, ends)
    PROVE  Paid(CompactSession(s, over), queue, ends)
<1>1. CASE ~ShouldCompact(s, over)
  BY <1>1 DEF CompactSession
<1>2. CASE ShouldCompact(s, over)
  <2>1. over = TRUE /\ ShouldCompact(s, TRUE)
    BY <1>2 DEF ShouldCompact
  <2> DEFINE c == CompactSession(s, TRUE)
             k == Len(s) - Preserve
  <2>5. Len(s) \in Nat
    OBVIOUS
  <2>2. /\ k \in 1..Len(s) /\ c \in Seq(Message) /\ Len(c) \in Nat
        /\ k + Len(c) - 1 = Len(s)
        /\ c[1] = Summary(s[k].id)
        /\ \A i \in 2..Len(c) : k + i - 1 \in (k + 1)..Len(s) /\ c[i] = s[k + i - 1]
    BY <2>1, CompactTail
  <2> HIDE DEF c, k
  <2>3. ASSUME NEW i \in 1..Len(c), NEW j \in 1..c[i].uses
        PROVE  \/ i + j <= Len(c) /\ c[i + j].answers = <<c[i].id, j>>
               \/ \E d \in ends : c[i].id <= d /\ d < c[i].id + j
               \/ \E n \in 1..Len(queue) : queue[n] = <<c[i].id, j>>
    <3>1. i # 1
      BY <2>2 DEF Summary
    <3>2. i \in 2..Len(c)
      BY <2>2, <3>1
    <3> DEFINE p == k + i - 1
    <3>3. p \in 1..Len(s) /\ c[i] = s[p]
      BY <2>2, <2>5, <3>2
    <3>5. j \in Nat /\ j >= 1
      <4>1. c[i] \in Message
        BY <2>2, <3>2
      <4> QED
        BY <4>1 DEF Message
    <3>4. ASSUME p + j <= Len(s)
          PROVE  i + j <= Len(c) /\ c[i + j] = s[p + j]
      <4>1. i + j \in 2..Len(c) /\ k + (i + j) - 1 = p + j
        BY <2>2, <2>5, <3>2, <3>4, <3>5
      <4> QED
        BY <2>2, <4>1
    <3> HIDE DEF p
    <3> QED
      BY <3>3, <3>4 DEF Paid
  <2>4. Paid(c, queue, ends)
    BY <2>3 DEF Paid
  <2> QED
    BY <2>1, <2>4 DEF c
<1> QED
  BY <1>1, <1>2

LEMMA PaidAppend ==
    ASSUME NEW s \in Seq(Message), NEW m \in Message,
           NEW queue, NEW queue2, NEW ends, NEW ends2,
           Paid(s, queue, ends), ends \subseteq ends2,
           \A j \in 1..m.uses : \/ \E k \in 1..Len(queue2) : queue2[k] = <<m.id, j>>
                                \/ \E d \in ends2 : m.id <= d /\ d < m.id + j,
           \A i \in 1..Len(s) : \A j \in 1..s[i].uses : \A k \in 1..Len(queue) :
              queue[k] = <<s[i].id, j>> =>
                 \/ i + j = Len(s) + 1 /\ m.answers = <<s[i].id, j>>
                 \/ \E n \in 1..Len(queue2) : queue2[n] = <<s[i].id, j>>
                 \/ \E d \in ends2 : s[i].id <= d /\ d < s[i].id + j
    PROVE  Paid(Append(s, m), queue2, ends2)
<1> DEFINE t == Append(s, m)
<1>1. /\ Len(s) \in Nat /\ Len(t) = Len(s) + 1 /\ t[Len(s) + 1] = m
      /\ \A i \in 1..Len(s) : t[i] = s[i]
      /\ \A i \in 1..Len(t) : i \in 1..Len(s) \/ i = Len(s) + 1
  BY AppendAt
<1> HIDE DEF t
<1>2. ASSUME NEW i \in 1..Len(s), NEW j \in 1..s[i].uses
      PROVE  \/ i + j <= Len(t) /\ t[i + j].answers = <<s[i].id, j>>
             \/ \E d \in ends2 : s[i].id <= d /\ d < s[i].id + j
             \/ \E k \in 1..Len(queue2) : queue2[k] = <<s[i].id, j>>
  <2>0. j \in Nat /\ j >= 1
    <3>1. s[i] \in Message
      OBVIOUS
    <3> QED
      BY <3>1 DEF Message
  <2>1. CASE i + j <= Len(s) /\ s[i + j].answers = <<s[i].id, j>>
    <3>1. i + j \in 1..Len(s)
      BY <1>1, <2>0, <2>1
    <3> QED
      BY <1>1, <2>1, <3>1
  <2>2. CASE \E k \in 1..Len(queue) : queue[k] = <<s[i].id, j>>
    <3>1. CASE i + j = Len(s) + 1 /\ m.answers = <<s[i].id, j>>
      BY <1>1, <3>1
    <3> QED
      BY <2>2, <3>1
  <2> QED
    BY <2>1, <2>2 DEF Paid
<1>3. \A i \in 1..Len(t) : \A j \in 1..t[i].uses :
         \/ i + j <= Len(t) /\ t[i + j].answers = <<t[i].id, j>>
         \/ \E d \in ends2 : t[i].id <= d /\ d < t[i].id + j
         \/ \E k \in 1..Len(queue2) : queue2[k] = <<t[i].id, j>>
  <2> TAKE i \in 1..Len(t)
  <2>1. CASE i \in 1..Len(s)
    BY <1>1, <1>2, <2>1
  <2>2. CASE i = Len(s) + 1
    BY <1>1, <2>2
  <2> QED
    BY <1>1, <2>1, <2>2
<1> QED
  BY <1>3 DEF Paid, t

LEMMA PaidLater ==
    ASSUME NEW s, NEW queue, NEW queue2, NEW ends, NEW ends2,
           Paid(s, queue, ends), ends \subseteq ends2,
           \A i \in 1..Len(s) : \A j \in 1..s[i].uses : \A k \in 1..Len(queue) :
              queue[k] = <<s[i].id, j>> =>
                 \/ \E n \in 1..Len(queue2) : queue2[n] = <<s[i].id, j>>
                 \/ \E d \in ends2 : s[i].id <= d /\ d < s[i].id + j
    PROVE  Paid(s, queue2, ends2)
BY DEF Paid

\* The uses that are queued, seen from the end of the file.
LEMMA Owed ==
    ASSUME TypeInv, SessionInv, ToolInv, PairInv, pending # <<>>
    PROVE  /\ work = file /\ InTurn
           /\ pending \in Seq(Nat \X Nat) /\ pending[1] \in Nat \X Nat /\ pending[1][2] >= 1
           /\ Len(pending) \in Nat /\ 1 \in 1..Len(pending)
           /\ \E k \in 1..Len(file) : Open(file, k, pending)
           /\ LastId(file) = pending[1][1] + pending[1][2] - 1
           /\ \A k \in 1..Len(pending) : pending[k] = <<pending[1][1], pending[1][2] + k - 1>>
           /\ \A i \in 1..Len(file) : file[i].id = pending[1][1] => i + pending[1][2] = Len(file) + 1
<1>1. InTurn /\ work = file /\ file \in Seq(Message) /\ Contiguous(file)
  BY DEF ToolInv, QueueInv, InTurn, SessionInv, WriteAhead, NoMessageLost, Sessions, TypeInv, TypeOK
<1>2. pending \in Seq(Nat \X Nat) /\ Len(pending) \in Nat /\ 1 \in 1..Len(pending)
  BY DEF TypeInv, TypeOK
<1>3. pending[1] \in Nat \X Nat
  BY <1>2
<1>4. /\ pending[1][2] >= 1
      /\ \A k \in 1..Len(pending) : pending[k] = <<pending[1][1], pending[1][2] + k - 1>>
  BY DEF ToolInv, QueueInv
<1>5. PICK k \in 1..Len(file) : Open(file, k, pending)
  BY <1>1 DEF PairInv, OpenInv
<1>6. Len(file) \in Nat /\ pending[1][1] \in Nat /\ pending[1][2] \in Nat
  BY <1>1, <1>3
<1>7. file[k].id = pending[1][1] /\ k + pending[1][2] = Len(file) + 1
  BY <1>5 DEF Open
<1>8. LastId(file) = pending[1][1] + pending[1][2] - 1
  <2>1. LastId(file) = file[k].id + (Len(file) - k)
    BY <1>1, ContiguousIds
  <2> QED
    BY <1>6, <1>7, <2>1, SMTT(30)
<1>9. ASSUME NEW i \in 1..Len(file), file[i].id = pending[1][1]
      PROVE  i + pending[1][2] = Len(file) + 1
  <2>1. file[i].id = file[k].id + (i - k)
    BY <1>1, ContiguousIds
  <2>2. i = k
    BY <1>6, <1>7, <1>9, <2>1
  <2> QED
    BY <1>7, <2>2
<1> QED
  BY <1>1, <1>2, <1>3, <1>4, <1>5, <1>8, <1>9

\* The result of the first use in the queue finds its place at the end of the file.
LEMMA ResultFollows ==
    ASSUME TypeInv, SessionInv, ToolInv, PairInv, NEW m \in Message,
           m.role = "tool" => pending # <<>> /\ m.answers = pending[1]
    PROVE  Follows(Append(file, m))
<1>1. file \in Seq(Message) /\ Follows(file)
  BY DEF TypeInv, TypeOK, PairInv, Sessions
<1>2. ASSUME m.role = "tool"
      PROVE  \E k \in 1..Len(file) :
              /\ file[k].id = m.answers[1] /\ m.answers[2] = Len(file) + 1 - k
              /\ file[k].role = "assistant" /\ Len(file) + 1 - k <= file[k].uses
              /\ \A l \in (k + 1)..Len(file) : file[l].role = "tool"
  <2>1. m.answers = pending[1] /\ pending # <<>>
    BY <1>2
  <2>2. PICK k \in 1..Len(file) : Open(file, k, pending)
    BY <2>1, Owed
  <2>3. /\ k + pending[1][2] = Len(file) + 1 /\ Len(file) \in Nat
        /\ pending[1][2] \in Nat /\ Len(pending) \in Nat /\ Len(pending) >= 1
    BY <1>1, <2>1, <2>2, Owed DEF Open
  <2>4. m.answers[2] = Len(file) + 1 - k
    BY <2>1, <2>3
  <2>5. Len(file) + 1 - k <= pending[1][2] + Len(pending) - 1
    BY <2>3
  <2> QED
    BY <2>1, <2>2, <2>4, <2>5 DEF Open
<1> QED
  BY <1>1, <1>2, FollowsAppend

LEMMA DiePairs ==
    ASSUME Die, Paid(file', <<>>, deaths'), Follows(file')
    PROVE  PairInv'
<1>1. /\ pending' = <<>> /\ phase' = "exited" /\ live' = <<>> /\ work' = <<>>
  BY DEF Die
<1>2. \A s \in {live', work', file'} : Paid(s, pending', deaths') /\ Follows(s)
  BY <1>1, PairEmpty
<1>3. OpenInv'
  BY <1>1 DEF OpenInv, InTurn
<1> QED
  BY <1>2, <1>3 DEF PairInv, Sessions, Paid, Follows, FollowsFrom

LEMMA FailPairs ==
    ASSUME TypeInv, SessionInv, ToolInv, PairInv, Fail
    PROVE  PairInv'
<1>1. Die /\ file' = file /\ deaths' = deaths \cup {LastId(file)}
  BY DEF Fail, Die, LastId
<1>2. ASSUME NEW i \in 1..Len(file), NEW j \in 1..file[i].uses, NEW k \in 1..Len(pending),
             pending[k] = <<file[i].id, j>>
      PROVE  file[i].id <= LastId(file) /\ LastId(file) < file[i].id + j
  <2>1. pending # <<>>
    BY <1>2
  <2>2. /\ pending[1][1] \in Nat /\ pending[1][2] \in Nat /\ pending[1][2] >= 1
        /\ LastId(file) = pending[1][1] + pending[1][2] - 1
        /\ pending[k] = <<pending[1][1], pending[1][2] + k - 1>> /\ Len(pending) \in Nat
    BY <2>1, Owed
  <2>3. file[i].id = pending[1][1] /\ j = pending[1][2] + k - 1
    BY <1>2, <2>2
  <2> QED
    BY <2>2, <2>3
<1>3. Paid(file, <<>>, deaths') /\ Follows(file)
  <2>1. Paid(file, pending, deaths) /\ Follows(file)
    BY DEF PairInv, Sessions
  <2> QED
    BY <1>1, <1>2, <2>1, PaidLater
<1> QED
  BY <1>1, <1>3, DiePairs

LEMMA PushFailsPairs ==
    ASSUME TypeInv, SessionInv, ToolInv, PairInv, NEW m \in Message, m.id = NextId(file),
           PushFails(m), m.role = "tool" => pending # <<>>,
           pending # <<>> => m.answers = pending[1]
    PROVE  PairInv'
<1>1. CASE file' = file
  BY <1>1, FailPairs DEF PushFails, Fail
<1>2. CASE file' = Append(file, m)
  <2>1. /\ file \in Seq(Message) /\ LastId(file) \in Nat /\ m.id = LastId(file) + 1
        /\ Paid(file, pending, deaths)
    BY NextIdType DEF TypeInv, TypeOK, NextId, PairInv, Sessions
  <2>2. Die /\ LastId(file') = m.id /\ deaths' = deaths \cup {m.id}
    <3>1. LastId(file') = m.id
      BY <1>2, <2>1, LastIdAppend
    <3> QED
      BY <3>1 DEF PushFails, Die
  <2>3. \A j \in 1..m.uses : m.id <= m.id /\ m.id < m.id + j
    <3>1. m.uses \in Nat
      BY DEF Message
    <3> QED
      BY <2>1, <3>1
  <2>4. ASSUME NEW i \in 1..Len(file), NEW j \in 1..file[i].uses, NEW k \in 1..Len(pending),
               pending[k] = <<file[i].id, j>>
        PROVE  \/ i + j = Len(file) + 1 /\ m.answers = <<file[i].id, j>>
               \/ file[i].id <= m.id /\ m.id < file[i].id + j
    <3>1. pending # <<>>
      BY <2>4
    <3>2. /\ pending[1][1] \in Nat /\ pending[1][2] \in Nat /\ pending[1][2] >= 1
          /\ LastId(file) = pending[1][1] + pending[1][2] - 1
          /\ pending[k] = <<pending[1][1], pending[1][2] + k - 1>> /\ Len(pending) \in Nat
          /\ (file[i].id = pending[1][1] => i + pending[1][2] = Len(file) + 1)
      BY <3>1, Owed
    <3>6. pending[1] = <<pending[1][1], pending[1][2]>>
      <4>1. pending[1] \in Nat \X Nat
        BY <3>1, Owed
      <4> QED
        BY <4>1
    <3>3. file[i].id = pending[1][1] /\ j = pending[1][2] + k - 1
      BY <2>4, <3>2
    <3>4. CASE k = 1
      <4>1. j = pending[1][2]
        BY <3>2, <3>3, <3>4
      <4> QED
        BY <3>1, <3>2, <3>3, <3>6, <4>1
    <3>5. CASE k # 1
      <4>1. k \in Nat /\ k >= 2 /\ m.id = pending[1][1] + pending[1][2]
        BY <2>1, <3>2, <3>5
      <4>2. file[i].id <= m.id /\ m.id < file[i].id + j
        BY <3>2, <3>3, <4>1
      <4> QED
        BY <4>2
    <3> QED
      BY <3>4, <3>5
  <2>5. Paid(file', <<>>, deaths')
    <3>1. m.id \in deaths' /\ deaths \subseteq deaths'
      BY <2>2
    <3>2. Paid(Append(file, m), <<>>, deaths')
      BY <2>1, <2>3, <2>4, <3>1, PaidAppend
    <3> QED
      BY <1>2, <3>2
  <2>6. Follows(file')
    BY <1>2, ResultFollows
  <2> QED
    BY <2>2, <2>5, <2>6, DiePairs
<1> QED
  BY <1>1, <1>2 DEF PushFails

LEMMA SubmitPairs ==
    ASSUME TypeInv, SessionInv, ToolInv, PairInv, SubmitPrompt
    PROVE  PairInv'
<1> DEFINE m == UserText(NextId(live))
<1>1. live = file /\ file \in Sessions /\ file \in Seq(Message) /\ pending = <<>>
  BY DEF SubmitPrompt, SessionInv, IdleInSync, Sessions, TypeInv, TypeOK, ToolInv, QueueInv
<1>2. m \in Message /\ m.id = NextId(file) /\ m.role # "tool" /\ m.uses = 0
  <2>1. NextId(file) \in Nat
    BY <1>1, NextIdType
  <2> QED
    BY <1>1, <2>1 DEF Message, UserText, NoUse
<1>3. CASE PushFails(m)
  BY <1>1, <1>2, <1>3, PushFailsPairs
<1>4. CASE ~PushFails(m)
  <2>1. /\ work' = Append(file, m) /\ file' = Append(file, m) /\ phase' = "request"
        /\ UNCHANGED <<live, pending, deaths>>
    BY <1>1, <1>4 DEF SubmitPrompt
  <2> HIDE DEF m
  <2>2. Paid(file, <<>>, deaths) /\ Follows(file)
    BY <1>1 DEF PairInv
  <2>3. Paid(Append(file, m), <<>>, deaths) /\ Follows(Append(file, m))
    <3>1. \A k \in 1..Len(<<>>) : FALSE
      OBVIOUS
    <3> QED
      BY <1>1, <1>2, <2>2, <3>1, PaidAppend, FollowsAppend
  <2>4. LastId(live) <= LastId(work')
    BY <1>1, <1>2, <2>1, LastIdAppend, NextIdType DEF NextId
  <2>5. OpenInv'
    BY <1>1, <2>1, <2>4 DEF OpenInv, LastId
  <2>6. \A s \in {live', work', file'} : Paid(s, pending', deaths') /\ Follows(s)
    BY <1>1, <2>1, <2>2, <2>3
  <2> QED
    BY <2>5, <2>6 DEF PairInv, Sessions, Paid, Follows, FollowsFrom
<1> QED
  BY <1>3, <1>4

LEMMA StreamPairs ==
    ASSUME TypeInv, SessionInv, ToolInv, PairInv, Stream
    PROVE  PairInv'
<1>1. PICK u \in 0..MaxUses :
         LET m == Assistant(NextId(work), u)
         IN  \/ /\ PushMessage(m)
                /\ pending' = [j \in 1..u |-> <<m.id, j>>]
                /\ phase' = IF u = 0 THEN "compact" ELSE "pre"
                /\ UNCHANGED <<live, deaths>>
             \/ PushFails(m)
  BY DEF Stream
<1> DEFINE m == Assistant(NextId(work), u)
<1>2. /\ work = file /\ live \in Sessions /\ file \in Sessions /\ file \in Seq(Message)
      /\ InTurn /\ pending = <<>>
  BY DEF Stream, InTurn, SessionInv, WriteAhead, Sessions, TypeInv, TypeOK, ToolInv, QueueInv
<1>3. /\ u \in Nat /\ m \in Message /\ m.id = NextId(file) /\ m.role = "assistant"
      /\ m.uses = u
  <2>1. NextId(file) \in Nat
    BY <1>2, NextIdType
  <2> QED
    BY <1>2, <2>1, MaxUsesAssumption DEF Message, Assistant, NoUse
<1>4. CASE PushFails(m)
  BY <1>2, <1>3, <1>4, PushFailsPairs
<1>5. CASE ~PushFails(m)
  <2>1. /\ work' = Append(file, m) /\ file' = Append(file, m)
        /\ pending' = [j \in 1..u |-> <<m.id, j>>]
        /\ phase' = IF u = 0 THEN "compact" ELSE "pre"
        /\ UNCHANGED <<live, deaths>>
    BY <1>1, <1>2, <1>5 DEF PushMessage
  <2> HIDE DEF m
  <2>2. Len(pending') = u /\ \A k \in 1..u : pending'[k] = <<m.id, k>>
    BY <1>3, <2>1
  <2>3. Paid(file, <<>>, deaths) /\ Paid(live, <<>>, deaths) /\ Follows(file) /\ Follows(live)
    BY <1>2 DEF PairInv
  <2>4. \A k \in 1..Len(<<>>) : FALSE
    OBVIOUS
  <2>5. Paid(live, pending', deaths)
    BY <2>3, <2>4, PaidLater
  <2>6. Paid(Append(file, m), pending', deaths)
    <3>1. \A j \in 1..m.uses : \E k \in 1..Len(pending') : pending'[k] = <<m.id, j>>
      BY <1>3, <2>2
    <3> QED
      BY <1>2, <1>3, <2>3, <2>4, <3>1, PaidAppend
  <2>7. Follows(Append(file, m))
    BY <1>2, <1>3, <2>3, FollowsAppend
  <2>8. LastId(live) < m.id /\ LastId(work') = m.id /\ m.id \in Nat
    <3>1. LastId(live) <= LastId(file)
      BY <1>2 DEF PairInv, OpenInv
    <3>2. LastId(live) \in Nat /\ LastId(file) \in Nat
      BY NextIdType DEF TypeInv, TypeOK
    <3> QED
      BY <1>2, <1>3, <2>1, <3>1, <3>2, LastIdAppend DEF NextId
  <2>9. OpenInv'
    <3>1. LastId(live') <= LastId(work')
      <4>1. LastId(live) \in Nat
        BY NextIdType DEF TypeInv, TypeOK
      <4> QED
        BY <2>1, <2>8, <4>1
    <3>2. ASSUME pending' # <<>>
          PROVE  LastId(live') < pending'[1][1] /\ \E k \in 1..Len(work') : Open(work', k, pending')
      <4>1. 1 \in 1..u
        BY <1>3, <2>1, <3>2
      <4>2. pending'[1] = <<m.id, 1>> /\ pending'[1][1] = m.id /\ pending'[1][2] = 1
        BY <2>2, <4>1
      <4> DEFINE k == Len(work')
      <4>3. k \in 1..Len(work') /\ work'[k] = m /\ k \in Nat
        BY <1>2, <1>3, <2>1, AppendAt
      <4> HIDE DEF k
      <4>4. Open(work', Len(work'), pending')
        BY <1>3, <2>2, <4>2, <4>3 DEF Open, k
      <4> QED
        BY <2>1, <2>8, <4>2, <4>3, <4>4 DEF k
    <3> QED
      BY <3>1, <3>2 DEF OpenInv, Open, LastId
  <2>10. \A s \in {live', work', file'} : Paid(s, pending', deaths') /\ Follows(s)
    BY <2>1, <2>3, <2>5, <2>6, <2>7
  <2> QED
    BY <2>9, <2>10 DEF PairInv, Sessions, Paid, Follows, FollowsFrom
<1> QED
  BY <1>4, <1>5

LEMMA PushResultPairs ==
    ASSUME TypeInv, SessionInv, ToolInv, PairInv, PushResult
    PROVE  PairInv'
<1> DEFINE m == ToolResult(NextId(work), grant.use, grant.ok)
<1>1. phase = "result" /\ pending # <<>> /\ file \in Seq(Message) /\ live \in Seq(Message)
      /\ live \in Sessions /\ file \in Sessions /\ Contiguous(live)
  BY DEF PushResult, TypeInv, TypeOK, QueueNotEmpty, Sessions, SessionInv, NoMessageLost
<1>2. /\ work = file /\ InTurn
      /\ pending \in Seq(Nat \X Nat) /\ pending[1] \in Nat \X Nat /\ pending[1][2] >= 1
      /\ Len(pending) \in Nat /\ 1 \in 1..Len(pending)
      /\ LastId(file) = pending[1][1] + pending[1][2] - 1
      /\ \A k \in 1..Len(pending) : pending[k] = <<pending[1][1], pending[1][2] + k - 1>>
      /\ \A i \in 1..Len(file) : file[i].id = pending[1][1] => i + pending[1][2] = Len(file) + 1
  BY <1>1, Owed
<1>3. /\ m \in Message /\ m.id = NextId(file) /\ m.answers = pending[1] /\ m.role = "tool"
      /\ m.uses = 0
  <2>1. NextId(file) \in Nat /\ grant.ok \in BOOLEAN /\ grant.use = pending[1]
    BY <1>1, NextIdType DEF TypeInv, TypeOK, Grant, ToolInv, QueueInv
  <2> QED
    BY <1>2, <2>1 DEF Message, ToolResult
<1>4. CASE PushFails(m)
  BY <1>1, <1>3, <1>4, PushFailsPairs
<1>5. CASE ~PushFails(m)
  <2>1. /\ work' = Append(file, m) /\ file' = Append(file, m)
        /\ pending' = Tail(pending)
        /\ UNCHANGED <<live, deaths>>
    BY <1>2, <1>5 DEF PushMessage, PushResult
  <2> HIDE DEF m
  <2>2. /\ Len(pending') = Len(pending) - 1
        /\ \A k \in 1..Len(pending') : k + 1 \in 1..Len(pending) /\ pending'[k] = pending[k + 1]
        /\ pending' # <<>> => 1 \in 1..Len(pending')
    BY <1>1, <1>2, <2>1, TailShape
  <2>3. /\ Paid(file, pending, deaths) /\ Paid(live, pending, deaths) /\ Follows(live)
        /\ LastId(live) < pending[1][1] /\ LastId(live) <= LastId(work)
    BY <1>1, <1>2 DEF PairInv, OpenInv
  <2>4. Paid(live, pending', deaths)
    <3>1. ASSUME NEW i \in 1..Len(live), NEW k \in 1..Len(pending), NEW j,
                 pending[k] = <<live[i].id, j>>
          PROVE  FALSE
      <4>1. live[i].id = pending[1][1]
        BY <1>2, <3>1
      <4>2. LastId(live) = live[i].id + (Len(live) - i) /\ live[i].id \in Nat
        BY <1>1, ContiguousIds
      <4>3. Len(live) \in Nat
        BY <1>1
      <4> QED
        BY <2>3, <4>1, <4>2, <4>3
    <3> QED
      BY <2>3, <3>1, PaidLater
  <2>5. Paid(Append(file, m), pending', deaths)
    <3>1. ASSUME NEW i \in 1..Len(file), NEW j \in 1..file[i].uses, NEW k \in 1..Len(pending),
                 pending[k] = <<file[i].id, j>>
          PROVE  \/ i + j = Len(file) + 1 /\ m.answers = <<file[i].id, j>>
                 \/ \E n \in 1..Len(pending') : pending'[n] = <<file[i].id, j>>
      <4>1. CASE k = 1
        <5>1. pending[1] = <<file[i].id, j>>
          BY <3>1, <4>1
        <5>2. file[i].id = pending[1][1] /\ j = pending[1][2]
          BY <5>1
        <5> QED
          BY <1>2, <1>3, <5>1, <5>2
      <4>2. CASE k # 1
        <5>1. k - 1 \in 1..Len(pending') /\ (k - 1) + 1 = k
          BY <1>2, <2>2, <4>2
        <5> QED
          BY <2>2, <3>1, <5>1
      <4> QED
        BY <4>1, <4>2
    <3>2. \A j \in 1..m.uses : FALSE
      BY <1>3
    <3> QED
      BY <1>1, <1>3, <2>3, <3>1, <3>2, PaidAppend
  <2>6. Follows(Append(file, m))
    BY <1>1, <1>3, ResultFollows
  <2>7. OpenInv'
    <3>1. LastId(live') <= LastId(work')
      <4>1. LastId(work') = LastId(file) + 1 /\ LastId(file) \in Nat /\ LastId(live) \in Nat
        BY <1>1, <1>3, <2>1, LastIdAppend, NextIdType DEF NextId
      <4> QED
        BY <1>2, <2>1, <2>3, <4>1
    <3>2. ASSUME pending' # <<>>
          PROVE  LastId(live') < pending'[1][1] /\ \E k \in 1..Len(work') : Open(work', k, pending')
      <4>1. 1 \in 1..Len(pending') /\ 1 + 1 = 2 /\ 2 \in 1..Len(pending)
        BY <2>2, <3>2
      <4>2. /\ pending'[1][1] = pending[1][1] /\ pending'[1][2] = pending[1][2] + 1
            /\ pending[1][2] \in Nat
        <5>1. pending'[1] = <<pending[1][1], pending[1][2] + 1>>
          BY <1>2, <2>2, <4>1, SMTT(30)
        <5> QED
          BY <1>2, <5>1
      <4>3. PICK k \in 1..Len(file) : Open(file, k, pending)
        BY <1>1, Owed
      <4>4. /\ Len(file) \in Nat /\ Len(work') = Len(file) + 1 /\ work'[Len(file) + 1] = m
            /\ \A i \in 1..Len(file) : work'[i] = file[i]
        BY <1>1, <1>3, <2>1, AppendAt
      <4>5. k \in 1..Len(work') /\ k + pending'[1][2] = Len(work') + 1
        <5>1. k + pending[1][2] = Len(file) + 1
          BY <4>3 DEF Open
        <5> QED
          BY <4>2, <4>4, <5>1
      <4>6. work'[k].role = "assistant" /\ work'[k].id = pending'[1][1]
        BY <4>2, <4>3, <4>4 DEF Open
      <4>7. work'[k].uses = pending'[1][2] + Len(pending') - 1
        <5>1. work'[k].uses = pending[1][2] + Len(pending) - 1
          BY <4>3, <4>4 DEF Open
        <5>2. Len(pending') \in Int /\ Len(pending) = Len(pending') + 1
          BY <1>2, <2>2
        <5> HIDE DEF m
        <5> QED
          BY <4>2, <5>1, <5>2
      <4>8. \A l \in (k + 1)..Len(work') : work'[l].role = "tool"
        <5> TAKE l \in (k + 1)..Len(work')
        <5>1. l \in (k + 1)..Len(file) \/ l = Len(file) + 1
          BY <4>4
        <5>2. CASE l \in (k + 1)..Len(file)
          BY <4>3, <4>4, <5>2 DEF Open
        <5>3. CASE l = Len(file) + 1
          BY <1>3, <4>4, <5>3
        <5> QED
          BY <5>1, <5>2, <5>3
      <4>9. Open(work', k, pending')
        BY <4>5, <4>6, <4>7, <4>8 DEF Open
      <4> QED
        BY <1>2, <2>1, <2>3, <4>2, <4>5, <4>9
    <3> QED
      BY <3>1, <3>2 DEF OpenInv, Open, LastId
  <2>8. \A s \in {live', work', file'} : Paid(s, pending', deaths') /\ Follows(s)
    BY <2>1, <2>3, <2>4, <2>5, <2>6
  <2> QED
    BY <2>7, <2>8 DEF PairInv, Sessions, Paid, Follows, FollowsFrom
<1> QED
  BY <1>4, <1>5

LEMMA MovePairs ==
    ASSUME TypeInv, SessionInv, PairInv,
           UNCHANGED <<pending, deaths>>, pending = <<>>, ~InTurn',
           \A s \in {live', work', file'} :
              \/ s = <<>>
              \/ \E t \in Sessions, over \in BOOLEAN : s = CompactSession(t, over)
    PROVE  PairInv'
<1>1. \A t \in Sessions : /\ t \in Seq(Message) /\ Contiguous(t)
                          /\ Paid(t, pending, deaths) /\ Follows(t)
  BY DEF TypeInv, TypeOK, SessionInv, NoMessageLost, PairInv, Sessions
<1>2. \A s \in {live', work', file'} : Paid(s, pending', deaths') /\ Follows(s)
  BY <1>1, PairEmpty, PaidCompact, FollowsCompact
<1>3. OpenInv'
  BY DEF OpenInv
<1> QED
  BY <1>2, <1>3 DEF PairInv, Sessions, Paid, Follows, FollowsFrom

LEMMA QuietPairs ==
    ASSUME PairInv, UNCHANGED <<live, work, file, pending, deaths>>, InTurn' => InTurn
    PROVE  PairInv'
<1>1. OpenInv'
  BY DEF PairInv, OpenInv, Open, LastId
<1>2. \A s \in {live', work', file'} : Paid(s, pending', deaths') /\ Follows(s)
  BY DEF PairInv, Sessions
<1> QED
  BY <1>1, <1>2 DEF PairInv, Sessions, Paid, Follows, FollowsFrom

LEMMA PairStep ==
    ASSUME TypeInv, SessionInv, ToolInv, PairInv, [Next]_vars
    PROVE  PairInv'
<1>0. /\ \A t \in Sessions : CompactSession(t, FALSE) = t
      /\ live \in Sessions /\ work \in Sessions /\ file \in Sessions
      /\ phase \notin {"pre", "execute", "result"} => pending = <<>>
  BY DEF CompactSession, ShouldCompact, Sessions, ToolInv, QueueInv
<1>1. CASE AutoCompact \/ SlashCompact \/ Resume
  <2>1. UNCHANGED <<pending, deaths>> /\ pending = <<>> /\ ~InTurn'
    BY <1>0, <1>1 DEF AutoCompact, SlashCompact, Resume, InTurn
  <2>2. \A s \in {live', work', file'} :
           \E t \in Sessions, over \in BOOLEAN : s = CompactSession(t, over)
    BY <1>0, <1>1 DEF AutoCompact, SlashCompact, Resume
  <2> QED
    BY <2>1, <2>2, MovePairs
<1>2. CASE ReplaceRuntime /\ ~Fail
  <2>1. /\ UNCHANGED <<pending, deaths>> /\ pending = <<>> /\ ~InTurn'
        /\ file' = file /\ live' = work /\ work' = <<>>
    BY <1>0, <1>2 DEF ReplaceRuntime, InTurn
  <2>2. \A s \in {live', work', file'} :
           s = <<>> \/ \E t \in Sessions, over \in BOOLEAN : s = CompactSession(t, over)
    BY <1>0, <2>1
  <2> QED
    BY <2>1, <2>2, MovePairs
<1>3. CASE PersistSession /\ ~Fail
  <2>1. /\ UNCHANGED <<pending, deaths>> /\ pending = <<>> /\ ~InTurn'
        /\ file' = live /\ live' = live /\ work' = work
    BY <1>0, <1>3 DEF PersistSession, InTurn
  <2>2. \A s \in {live', work', file'} :
           \E t \in Sessions, over \in BOOLEAN : s = CompactSession(t, over)
    BY <1>0, <2>1
  <2> QED
    BY <2>1, <2>2, MovePairs
<1>4. CASE Quit
  <2>1. Die /\ file' = file
    BY <1>4 DEF Quit, SessionInv, IdleInSync
  <2> QED
    BY <2>1, FailPairs DEF Fail
<1>5. CASE \/ StreamFails \/ TooManyIterations \/ Crash
           \/ (ReplaceRuntime /\ Fail) \/ (PersistSession /\ Fail)
  BY <1>5, FailPairs DEF StreamFails, TooManyIterations, Crash
<1>6. CASE PreToolUse \/ ExecuteTool \/ CtrlC \/ UNCHANGED vars
  BY <1>6, QuietPairs DEF PreToolUse, ExecuteTool, CtrlC, vars, InTurn
<1> QED
  BY <1>1, <1>2, <1>3, <1>4, <1>5, <1>6, SubmitPairs, StreamPairs, PushResultPairs
     DEF Next, TurnStep

\* Sessions are paired but for the round of tools under way, in memory and on file.
THEOREM PairInvariant == Spec => []PairInv
<1>1. Init => PairInv
  BY PairEmpty DEF Init, PairInv, OpenInv, Sessions, InTurn
<1> QED
  BY <1>1, PairStep, TypeInvariant, SessionInvariant, ToolInvariant, PTL DEF Spec

\* In every session a provider can be sent, in memory or read back from the file, each tool
\* use has its one result in place and each result follows its use, whatever was refused,
\* aborted, compacted, cut off by a crash or half written by a failed append.
THEOREM TranscriptsArePaired == Spec => []ToolsPaired
<1>1. PairInv => ToolsPaired
  BY DEF PairInv, Paid, Follows, FollowsFrom, ToolsPaired, ToolUsesAnswered, Answered,
         ResultsFollowUse
<1> QED
  BY <1>1, PairInvariant, PTL

-----------------------------------------------------------------------------
(***************************************************************************)
(* The permission cascade.                                                 *)
(***************************************************************************)

LEMMA Ranked ==
    ASSUME NEW q \in Request
    PROVE  /\ q.mode \in PermissionMode /\ q.required \in ToolPermission
           /\ q.override \in PermissionOverride /\ q.answer \in Answer
           /\ q.mode = "Prompt" => Rank[q.mode] >= Rank[q.required]
           /\ q.mode = "Allow" => Rank[q.mode] >= Rank[q.required]
<1>1. q.mode \in PermissionMode /\ q.required \in ToolPermission /\ q.override \in PermissionOverride /\ q.answer \in Answer
  BY DEF Request
<1>2. Rank["Prompt"] = 3 /\ Rank["Allow"] = 4 /\ \A r \in ToolPermission : Rank[r] \in 0..2
  BY DEF Rank, ToolPermission
<1> QED
  BY <1>1, <1>2

\* The branches of authorize_with_context decide no more and no less than their closed
\* form: Prompt mode never reaches its branch, as it ranks above every requirement.
THEOREM CascadeIsClosedForm ==
    ASSUME NEW q \in Request
    PROVE  AuthorizeWithContext(q) <=> ClosedForm(q)
<1>1. Granted(q) <=> q.allow \/ Rank[q.mode] >= Rank[q.required] \/ q.mode = "Allow"
  BY DEF Granted
<1>2. ~Granted(q) => (Escalates(q) <=> q.mode = "WorkspaceWrite" /\ q.required = "DangerFullAccess")
  BY Ranked DEF Granted, Escalates
<1>3. q.override \in {"None", "Allow", "Ask", "Deny"}
  BY Ranked DEF PermissionOverride
<1> QED
  BY <1>1, <1>2, <1>3 DEF AuthorizeWithContext, ClosedForm, PromptOrDeny

\* A hook that says Allow decides as one that says nothing, and what is let through after
\* its Ask the user agreed to: no hook alone lets a tool run.
THEOREM NoHookWidens ==
    ASSUME NEW q \in Request, AuthorizeWithContext(q)
    PROVE  AuthorizeWithContext([q EXCEPT !.override = "None"]) \/ q.answer = "yes"
<1>1. PICK p : p = [q EXCEPT !.override = "None"]
  OBVIOUS
<1>2. /\ p.override = "None" /\ p.deny = q.deny /\ p.ask = q.ask /\ p.allow = q.allow
      /\ p.mode = q.mode /\ p.required = q.required /\ p.answer = q.answer
  BY <1>1 DEF Request
<1>3. p \in Request
  BY <1>1 DEF Request, PermissionOverride
<1>4. ClosedForm(q)
  BY CascadeIsClosedForm
<1>5. q.answer # "yes" => ClosedForm(p)
  BY <1>2, <1>4 DEF ClosedForm
<1> QED
  BY <1>1, <1>3, <1>5, CascadeIsClosedForm

\* What a turn without a prompter lets through, the tool executor does not refuse.
THEOREM EnforcerAgrees ==
    ASSUME NEW q \in Request, q.answer = "absent", AuthorizeWithContext(q)
    PROVE  EnforcerCheck(q)
<1>1. PICK p : p = [[q EXCEPT !.answer = "absent"] EXCEPT !.override = "None"]
  OBVIOUS
<1>2. p = [q EXCEPT !.override = "None"]
  BY <1>1 DEF Request
<1>3. AuthorizeWithContext(p)
  BY <1>2, NoHookWidens
<1> QED
  BY <1>1, <1>3 DEF EnforcerCheck, Authorize
=============================================================================
