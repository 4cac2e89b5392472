------------------------- MODULE StateFiles_proofs -------------------------
(***************************************************************************)
(* Theorems about what is kept in files: the session (SessionFile), the    *)
(* states of workers (WorkerBoot), and the plugins with the runtimes built *)
(* from them (RuntimeLifecycle), each under its own specification.         *)
(***************************************************************************)
EXTENDS SessionFile, WorkerBoot, RuntimeLifecycle, SequenceTheorems, WellFoundedInduction, TLAPS
-----------------------------------------------------------------------------
(***************************************************************************)
(* Reading a file back.  Records goes through the chunks one by one; what  *)
(* it keeps is told by induction on how many of them it has seen.          *)
(***************************************************************************)
LEMMA Induction ==
  ASSUME NEW S, 0 \in S, \A n \in Nat : n \in S => n + 1 \in S
  PROVE  Nat \subseteq S
<1> SUFFICES ASSUME Nat \ S # {} PROVE FALSE
  OBVIOUS
<1>1. PICK m \in Nat \ S : \A y \in Nat \ S : <<y, m>> \notin OpToRel(<, Nat)
  BY NatLessThanWellFounded, WFMin
<1>2. m # 0 /\ m - 1 \in Nat /\ m - 1 < m /\ (m - 1) + 1 = m
  OBVIOUS
<1>3. <<m - 1, m>> \in OpToRel(<, Nat)
  BY <1>2 DEF OpToRel
<1> QED
  BY <1>1, <1>2, <1>3

\* g is what is kept of f, chunk by chunk.
Keeps(g, f, kinds) ==
    g = [i \in 0..Len(f) |-> IF i = 0 THEN <<>>
                             ELSE IF f[i].rec.kind \in kinds THEN Append(g[i - 1], f[i].rec) ELSE g[i - 1]]
Kept(f, kinds) == CHOOSE g : Keeps(g, f, kinds)
NextKept(s, c, kinds) == IF c.rec.kind \in kinds THEN Append(s, c.rec) ELSE s

LEMMA ChunkRec ==
  ASSUME NEW f \in Seq(Chunk), NEW i \in 1..Len(f)
  PROVE  f[i] \in Chunk /\ f[i].rec \in Record
<1>1. f[i] \in Chunk
  BY ElementOfSeq
<1> QED
  BY <1>1 DEF Chunk

LEMMA KeptExists ==
  ASSUME NEW f \in Seq(Chunk), NEW kinds
  PROVE  Keeps(Kept(f, kinds), f, kinds)
<1> DEFINE Piece(g, n) == g = [i \in 0..n |-> IF i = 0 THEN <<>> ELSE NextKept(g[i - 1], f[i], kinds)]
           S == {n \in Nat : \E g : Piece(g, n)}
<1>1. 0 \in S
  <2>1. Piece([i \in 0..0 |-> <<>>], 0)
    OBVIOUS
  <2> QED
    BY <2>1
<1>2. ASSUME NEW n \in Nat, n \in S PROVE n + 1 \in S
  <2>1. PICK g : Piece(g, n)
    BY <1>2
  <2> DEFINE h == [i \in 0..(n + 1) |-> IF i <= n THEN g[i] ELSE NextKept(g[n], f[n + 1], kinds)]
  <2>2. ASSUME NEW i \in 0..(n + 1)
        PROVE  h[i] = IF i = 0 THEN <<>> ELSE NextKept(h[i - 1], f[i], kinds)
    <3>1. CASE i = 0
      BY <2>1, <3>1
    <3>2. CASE i \in 1..n
      <4>1. i - 1 \in 0..n /\ i \in 0..n /\ i # 0
        BY <3>2
      <4>2. h[i] = g[i] /\ h[i - 1] = g[i - 1]
        BY <4>1
      <4> QED
        BY <2>1, <4>1, <4>2
    <3>3. CASE i = n + 1
      <4>1. n \in 0..n /\ i - 1 = n /\ ~(i <= n) /\ i # 0
        BY <3>3
      <4>2. h[i - 1] = g[n] /\ h[i] = NextKept(g[n], f[n + 1], kinds)
        BY <4>1
      <4> QED
        BY <3>3, <4>1, <4>2
    <3> QED
      BY <3>1, <3>2, <3>3
  <2>3. Piece(h, n + 1)
    <3> DEFINE r == [i \in 0..(n + 1) |-> IF i = 0 THEN <<>> ELSE NextKept(h[i - 1], f[i], kinds)]
    <3>1. DOMAIN h = DOMAIN r /\ \A i \in DOMAIN h : h[i] = r[i]
      BY <2>2
    <3>2. h = [i \in DOMAIN h |-> h[i]] /\ r = [i \in DOMAIN r |-> r[i]]
      OBVIOUS
    <3> HIDE DEF h, r
    <3>3. h = r
      BY <3>1, <3>2
    <3> QED
      BY <3>3 DEF r
  <2> HIDE DEF h
  <2> QED
    BY <2>3
<1> HIDE DEF S
<1>3. Len(f) \in S
  BY <1>1, <1>2, Induction
<1>4. \E g : Piece(g, Len(f))
  BY <1>3 DEF S
<1>5. \E g : Keeps(g, f, kinds)
  BY <1>4 DEF Keeps, NextKept
<1> QED
  BY <1>5 DEF Kept

LEMMA KeptIs ==
  ASSUME NEW f \in Seq(Chunk), NEW kinds
  PROVE  /\ Kept(f, kinds)[0] = <<>>
         /\ \A i \in 1..Len(f) : Kept(f, kinds)[i] = NextKept(Kept(f, kinds)[i - 1], f[i], kinds)
         /\ Records(f, kinds) = Kept(f, kinds)[Len(f)]
<1> DEFINE g == Kept(f, kinds)
<1>1. g = [i \in 0..Len(f) |-> IF i = 0 THEN <<>>
                               ELSE IF f[i].rec.kind \in kinds THEN Append(g[i - 1], f[i].rec) ELSE g[i - 1]]
  BY KeptExists DEF Keeps
<1>2. Records(f, kinds) = g[Len(f)]
  BY DEF Records, Kept, Keeps
<1> HIDE DEF g
<1>3. g[0] = <<>>
  BY <1>1
<1>4. ASSUME NEW i \in 1..Len(f) PROVE g[i] = NextKept(g[i - 1], f[i], kinds)
  <2>1. i \in 0..Len(f) /\ i # 0
    OBVIOUS
  <2>2. g[i] = IF f[i].rec.kind \in kinds THEN Append(g[i - 1], f[i].rec) ELSE g[i - 1]
    BY <1>1, <2>1
  <2> QED
    BY <2>2 DEF NextKept
<1> QED
  BY <1>2, <1>3, <1>4 DEF g

\* Only the records matter, and only those up to where one has read.
LEMMA KeptAgrees ==
  ASSUME NEW f \in Seq(Chunk), NEW g \in Seq(Chunk), NEW kinds, NEW n \in Nat, n <= Len(f), n <= Len(g),
         \A i \in 1..n : f[i].rec = g[i].rec
  PROVE  Kept(f, kinds)[n] = Kept(g, kinds)[n]
<1> DEFINE S == {m \in Nat : m <= n => Kept(f, kinds)[m] = Kept(g, kinds)[m]}
<1>1. 0 \in S
  BY KeptIs
<1>2. ASSUME NEW m \in Nat, m \in S PROVE m + 1 \in S
  <2>1. CASE m + 1 <= n
    <3>1. m + 1 \in 1..Len(f) /\ m + 1 \in 1..Len(g) /\ m + 1 \in 1..n /\ (m + 1) - 1 = m
      BY <2>1
    <3>2. Kept(f, kinds)[m] = Kept(g, kinds)[m]
      BY <1>2, <2>1
    <3>3. Kept(f, kinds)[m + 1] = NextKept(Kept(f, kinds)[m], f[m + 1], kinds)
      BY <3>1, KeptIs
    <3>4. Kept(g, kinds)[m + 1] = NextKept(Kept(g, kinds)[m], g[m + 1], kinds)
      BY <3>1, KeptIs
    <3>5. f[m + 1].rec = g[m + 1].rec
      BY <3>1
    <3>6. Kept(f, kinds)[m + 1] = Kept(g, kinds)[m + 1]
      BY <3>2, <3>3, <3>4, <3>5 DEF NextKept
    <3> QED
      BY <3>6
  <2>2. CASE ~(m + 1 <= n)
    BY <2>2
  <2> QED
    BY <2>1, <2>2
<1> HIDE DEF S
<1>3. n \in S
  BY <1>1, <1>2, Induction
<1> QED
  BY <1>3 DEF S

LEMMA RecordsAppend ==
  ASSUME NEW f \in Seq(Chunk), NEW c \in Chunk, NEW kinds
  PROVE  Records(Append(f, c), kinds) = NextKept(Records(f, kinds), c, kinds)
<1> DEFINE g == Append(f, c)
           n == Len(f)
<1>1. g \in Seq(Chunk) /\ Len(g) = n + 1 /\ g[n + 1] = c /\ n \in Nat /\ \A i \in 1..n : g[i] = f[i]
  OBVIOUS
<1> HIDE DEF g
<1>2. Kept(g, kinds)[n] = Kept(f, kinds)[n]
  BY <1>1, KeptAgrees
<1>3. n + 1 \in 1..Len(g) /\ (n + 1) - 1 = n
  BY <1>1
<1>4. Kept(g, kinds)[n + 1] = NextKept(Kept(g, kinds)[n], g[n + 1], kinds)
  BY <1>1, <1>3, KeptIs
<1>5. Records(g, kinds) = Kept(g, kinds)[n + 1] /\ Records(f, kinds) = Kept(f, kinds)[n]
  BY <1>1, KeptIs
<1> QED
  BY <1>1, <1>2, <1>4, <1>5 DEF g

LEMMA RecordsSame ==
  ASSUME NEW f \in Seq(Chunk), NEW g \in Seq(Chunk), NEW kinds, Len(f) = Len(g),
         \A i \in 1..Len(f) : f[i].rec = g[i].rec
  PROVE  Records(f, kinds) = Records(g, kinds)
<1>1. Kept(f, kinds)[Len(f)] = Kept(g, kinds)[Len(f)]
  BY KeptAgrees
<1> QED
  BY <1>1, KeptIs

\* What is kept comes from the file and is of the kinds asked for.
LEMMA RecordsType ==
  ASSUME NEW f \in Seq(Chunk), NEW kinds
  PROVE  /\ Records(f, kinds) \in Seq(Record)
         /\ \A j \in 1..Len(Records(f, kinds)) : \E i \in 1..Len(f) :
               Records(f, kinds)[j] = f[i].rec /\ f[i].rec.kind \in kinds
<1> DEFINE Good(s) == /\ s \in Seq(Record)
                      /\ \A j \in 1..Len(s) : \E i \in 1..Len(f) : s[j] = f[i].rec /\ f[i].rec.kind \in kinds
           S == {m \in Nat : m <= Len(f) => Good(Kept(f, kinds)[m])}
<1>1. 0 \in S
  <2>1. Good(<<>>)
    OBVIOUS
  <2>2. Kept(f, kinds)[0] = <<>>
    BY KeptIs
  <2> QED
    BY <2>1, <2>2
<1>2. ASSUME NEW m \in Nat, m \in S PROVE m + 1 \in S
  <2>1. CASE m + 1 <= Len(f)
    <3> DEFINE s == Kept(f, kinds)[m]
               t == Kept(f, kinds)[m + 1]
    <3>1. m + 1 \in 1..Len(f) /\ (m + 1) - 1 = m
      BY <2>1
    <3>2. Good(s)
      BY <1>2, <2>1
    <3>3. t = NextKept(s, f[m + 1], kinds)
      BY <3>1, KeptIs
    <3>4. f[m + 1].rec \in Record
      BY <3>1, ChunkRec
    <3> HIDE DEF s, t
    <3>5. CASE f[m + 1].rec.kind \in kinds
      <4>1. t = Append(s, f[m + 1].rec)
        BY <3>3, <3>5 DEF NextKept
      <4>2. t \in Seq(Record)
        BY <3>2, <3>4, <4>1
      <4>3. ASSUME NEW j \in 1..Len(t) PROVE \E i \in 1..Len(f) : t[j] = f[i].rec /\ f[i].rec.kind \in kinds
        <5>1. CASE j <= Len(s)
          <6>1. t[j] = s[j] /\ j \in 1..Len(s)
            BY <3>2, <4>1, <5>1
          <6> QED
            BY <3>2, <6>1
        <5>2. CASE ~(j <= Len(s))
          <6>1. t[j] = f[m + 1].rec
            BY <3>2, <4>1, <5>2
          <6> QED
            BY <3>1, <3>5, <6>1
        <5> QED
          BY <5>1, <5>2
      <4> QED
        BY <4>2, <4>3 DEF t
    <3>6. CASE f[m + 1].rec.kind \notin kinds
      BY <3>2, <3>3, <3>6 DEF NextKept, t
    <3> QED
      BY <3>5, <3>6
  <2>2. CASE ~(m + 1 <= Len(f))
    BY <2>2
  <2> QED
    BY <2>1, <2>2
<1> HIDE DEF S
<1>3. Len(f) \in S
  BY <1>1, <1>2, Induction
<1>4. Good(Kept(f, kinds)[Len(f)])
  BY <1>3 DEF S
<1> QED
  BY <1>4, KeptIs, SMTT(30)

\* A file in which the records of the kinds stand together.
RunOf(f, a, n) == [j \in 1..n |-> f[a + j].rec]
LEMMA RecordsRun ==
  ASSUME NEW f \in Seq(Chunk), NEW kinds, NEW a \in Nat, NEW b \in Nat, a <= b, b <= Len(f),
         \A i \in 1..Len(f) : f[i].rec.kind \in kinds <=> (a < i /\ i <= b)
  PROVE  Records(f, kinds) = RunOf(f, a, b - a)
<1> DEFINE Run(n) == [j \in 1..n |-> f[a + j].rec]
           Upto(m) == IF m <= a THEN <<>> ELSE IF m <= b THEN Run(m - a) ELSE Run(b - a)
           S == {m \in Nat : m <= Len(f) => Kept(f, kinds)[m] = Upto(m)}
<1>0. ASSUME NEW n \in Nat, a + n + 1 <= Len(f) PROVE Run(n + 1) = Append(Run(n), f[a + n + 1].rec)
  <2>1. ASSUME NEW n1 \in Nat, a + n1 <= Len(f) PROVE Run(n1) \in Seq(Record) /\ Len(Run(n1)) = n1
    <3>1. \A j \in 1..n1 : a + j \in 1..Len(f)
      BY <2>1
    <3>2. \A j \in 1..n1 : f[a + j].rec \in Record
      BY <3>1, ChunkRec
    <3> QED
      BY <3>2
  <2>2. Run(n) \in Seq(Record) /\ Len(Run(n)) = n /\ Run(n + 1) \in Seq(Record) /\ Len(Run(n + 1)) = n + 1
    <3>1. n + 1 \in Nat /\ a + (n + 1) <= Len(f) /\ a + n <= Len(f)
      BY <1>0
    <3> HIDE DEF Run
    <3> QED
      BY <2>1, <3>1
  <2>3. \A j \in 1..(n + 1) : Run(n + 1)[j] = IF j <= n THEN Run(n)[j] ELSE f[a + n + 1].rec
    <3> TAKE j \in 1..(n + 1)
    <3>1. CASE j <= n
      BY <3>1
    <3>2. CASE ~(j <= n)
      <4>1. j = n + 1 /\ a + j = a + n + 1
        BY <3>2
      <4> QED
        BY <3>2, <4>1
    <3> QED
      BY <3>1, <3>2
  <2>4. a + n + 1 \in 1..Len(f)
    BY <1>0
  <2>5. f[a + n + 1].rec \in Record
    BY <2>4, ChunkRec
  <2> DEFINE s == Run(n)
             t == Run(n + 1)
             x == f[a + n + 1].rec
  <2> HIDE DEF Run
  <2>6. Append(s, x) \in Seq(Record) /\ Len(Append(s, x)) = n + 1
        /\ \A j \in 1..(n + 1) : Append(s, x)[j] = IF j <= n THEN s[j] ELSE x
    BY <2>2, <2>5, AppendProperties
  <2> HIDE DEF s, t
  <2>7. t = Append(s, x)
    BY <2>2, <2>3, <2>6, SeqEqual DEF s, t
  <2> QED
    BY <2>7 DEF s, t
<1>e. Run(0) = <<>>
  OBVIOUS
<1>1. 0 \in S
  BY KeptIs
<1>2. ASSUME NEW m \in Nat, m \in S PROVE m + 1 \in S
  <2>1. CASE m + 1 <= Len(f)
    <3>1. m + 1 \in 1..Len(f) /\ (m + 1) - 1 = m
      BY <2>1
    <3>2. Kept(f, kinds)[m] = Upto(m)
      BY <1>2, <2>1
    <3>3. Kept(f, kinds)[m + 1] = NextKept(Upto(m), f[m + 1], kinds)
      BY <3>1, <3>2, KeptIs
    <3> HIDE DEF Run
    <3>4. CASE m + 1 <= a
      <4>1. f[m + 1].rec.kind \notin kinds /\ m <= a
        BY <3>1, <3>4
      <4>2. Kept(f, kinds)[m + 1] = Upto(m + 1)
        BY <3>3, <3>4, <4>1 DEF NextKept
      <4> QED
        BY <4>2
    <3>5. CASE a < m + 1 /\ m + 1 <= b
      <4>1. f[m + 1].rec.kind \in kinds /\ m - a \in Nat /\ m <= b /\ a + (m - a) + 1 = m + 1 /\ (m - a) + 1 = (m + 1) - a
        BY <3>1, <3>5
      <4>2. Run((m - a) + 1) = Append(Run(m - a), f[a + (m - a) + 1].rec)
        BY <1>0, <2>1, <4>1
      <4>3. Upto(m) = Run(m - a)
        BY <1>e, <4>1
      <4>4. Upto(m + 1) = Run((m - a) + 1)
        BY <3>5, <4>1
      <4> HIDE DEF Upto
      <4>5. Kept(f, kinds)[m + 1] = Upto(m + 1)
        BY <3>3, <4>1, <4>2, <4>3, <4>4 DEF NextKept
      <4> QED
        BY <4>5
    <3>6. CASE b < m + 1
      <4>1. f[m + 1].rec.kind \notin kinds
        BY <3>1, <3>6
      <4>2. Upto(m + 1) = Upto(m)
        <5>1. m <= b => m = b
          BY <3>6
        <5>2. ~(m + 1 <= a) /\ ~(m + 1 <= b) /\ (m <= a => m = a /\ a = b)
          BY <3>6
        <5> QED
          BY <1>e, <5>1, <5>2
      <4> HIDE DEF Upto
      <4>3. Kept(f, kinds)[m + 1] = Upto(m + 1)
        BY <3>3, <4>1, <4>2 DEF NextKept
      <4> QED
        BY <4>3
    <3> QED
      BY <3>4, <3>5, <3>6
  <2>2. CASE ~(m + 1 <= Len(f))
    BY <2>2
  <2> QED
    BY <2>1, <2>2
<1> HIDE DEF S
<1>3. Len(f) \in S
  BY <1>1, <1>2, Induction
<1>4. Kept(f, kinds)[Len(f)] = Upto(Len(f))
  BY <1>3 DEF S
<1>5. Upto(Len(f)) = Run(b - a)
  <2> HIDE DEF Run
  <2>1. Len(f) <= a => a = b /\ b - a = 0
    OBVIOUS
  <2>2. Len(f) <= b => Len(f) = b
    OBVIOUS
  <2> QED
    BY <1>e, <2>1, <2>2
<1> QED
  BY <1>4, <1>5, KeptIs DEF RunOf

LEMMA RecordsAre ==
  ASSUME NEW f \in Seq(Chunk), NEW kinds, NEW s \in Seq(Record), NEW a \in Nat, a + Len(s) <= Len(f),
         \A i \in 1..Len(f) : f[i].rec.kind \in kinds <=> (a < i /\ i <= a + Len(s)),
         \A j \in 1..Len(s) : f[a + j].rec = s[j]
  PROVE  Records(f, kinds) = s
<1> DEFINE b == a + Len(s)
<1>1. b \in Nat /\ a <= b /\ b <= Len(f) /\ b - a = Len(s) /\ Len(s) \in Nat
  OBVIOUS
<1>2. \A i \in 1..Len(f) : f[i].rec.kind \in kinds <=> (a < i /\ i <= b)
  OBVIOUS
<1> HIDE DEF b
<1>3. Records(f, kinds) = RunOf(f, a, b - a)
  BY <1>1, <1>2, RecordsRun
<1>4. RunOf(f, a, b - a) = [j \in 1..Len(s) |-> s[j]]
  BY <1>1 DEF RunOf
<1>5. s = [j \in 1..Len(s) |-> s[j]]
  OBVIOUS
<1> QED
  BY <1>3, <1>4, <1>5
-----------------------------------------------------------------------------
(* The session file.  While no call is under way the file, if it can be    *)
(* read, restores the session in memory; while one is, it restores that    *)
(* session without the message the call appends.  What is torn stays on    *)
(* disk until the next save.                                               *)

Kinds == {"summary", "message"}
\* A conversation: its ids go up by one, from the summary that stands for the older ones.
Conversation(s) ==
    /\ s \in Seq(Record)
    /\ \A i \in 1..Len(s) : s[i].kind \in Kinds
    /\ \A i \in 1..(Len(s) - 1) : s[i + 1].id = s[i].id + 1
    /\ s # <<>> /\ s[1].kind = "message" => s[1].id = 1

InMemory ==
    /\ Conversation(messages)
    /\ \A i \in 1..Len(prompts) : prompts[i].kind = "prompt"
    /\ pc # "exited" => LastId(messages) = IF op = "message" THEN acked + 1 ELSE acked
    /\ op = "message" => messages # <<>> /\ messages[Len(messages)].kind = "message"
    /\ op = "prompt" => prompts # <<>>
UnderWay ==
    /\ op = "none" <=> pc \in {"idle", "exited"}
    /\ pc \in {"append", "newline"} => op # "persist" /\ path # <<>>
    /\ pc \in {"rotate", "write"} /\ op # "persist" => path = <<>>
    /\ pc = "newline" => path[Len(path)] = [rec |-> Appended, st |-> "bare"]
    /\ pc = "cleanup" => path = Snapshot
    /\ pc # "exited" /\ op # "persist" => Len(rotated) <= MaxRotated
Restorable ==
    Readable(path) =>
       /\ Conversation(LoadMessages(path)) /\ LastId(LoadMessages(path)) \in {acked, acked + 1}
       /\ pc \in {"idle", "newline"} \/ (pc = "append" /\ op = "prompt") => LoadMessages(path) = messages
       /\ pc = "append" /\ op = "message" => messages = Append(LoadMessages(path), messages[Len(messages)])
FileInv == TypeOK /\ InMemory /\ UnderWay /\ Restorable /\ AckedOnDisk

\* Ids, by induction along the conversation.
LEMMA ConversationIds ==
  ASSUME NEW s, Conversation(s), NEW i \in 1..Len(s)
  PROVE  s[i].id = s[1].id + (i - 1)
<1> DEFINE S == {n \in Nat : n + 1 <= Len(s) => s[n + 1].id = s[1].id + n}
<1>1. Len(s) \in Nat /\ \A j \in 1..Len(s) : s[j] \in Record /\ s[j].id \in Nat
  <2>1. \A j \in 1..Len(s) : s[j] \in Record
    BY ElementOfSeq DEF Conversation
  <2> QED
    BY <2>1 DEF Record, Conversation
<1>2. 0 \in S
  <2>1. 1 \in 1..Len(s)
    BY <1>1
  <2> QED
    BY <1>1, <2>1
<1>3. ASSUME NEW n \in Nat, n \in S PROVE n + 1 \in S
  <2> SUFFICES ASSUME (n + 1) + 1 <= Len(s) PROVE s[(n + 1) + 1].id = s[1].id + (n + 1)
    OBVIOUS
  <2>1. n + 1 \in 1..(Len(s) - 1) /\ n + 1 <= Len(s) /\ 1 \in 1..Len(s)
    BY <1>1
  <2>2. s[(n + 1) + 1].id = s[n + 1].id + 1
    BY <2>1 DEF Conversation
  <2>3. s[n + 1].id = s[1].id + n
    BY <1>3, <2>1
  <2>4. s[1].id \in Nat
    BY <1>1, <2>1
  <2> QED
    BY <2>2, <2>3, <2>4
<1> HIDE DEF S
<1>4. i - 1 \in S
  <2>1. i - 1 \in Nat
    OBVIOUS
  <2> QED
    BY <1>2, <1>3, <2>1, Induction
<1>5. i - 1 \in Nat /\ (i - 1) + 1 = i /\ i <= Len(s)
  BY <1>1
<1> QED
  BY <1>4, <1>5 DEF S

\* Every message up to the last is there, or under a summary.
LEMMA ConversationHolds ==
  ASSUME NEW s, Conversation(s), NEW n \in 1..LastId(s)
  PROVE  \E j \in 1..Len(s) : s[j] = Rec("message", n) \/ (s[j].kind = "summary" /\ n <= s[j].id)
<1>1. s # <<>>
  BY DEF LastId
<1>2. s \in Seq(Record) /\ Len(s) \in Nat /\ Len(s) >= 1
  BY <1>1 DEF Conversation
<1>3. \A j \in 1..Len(s) : s[j] \in Record /\ s[j].id \in Nat /\ s[j].kind \in Kinds /\ s[j].id = s[1].id + (j - 1)
  <2>1. \A j \in 1..Len(s) : s[j] \in Record
    BY <1>2, ElementOfSeq
  <2>2. \A j \in 1..Len(s) : s[j].id = s[1].id + (j - 1)
    BY ConversationIds
  <2> QED
    BY <2>1, <2>2 DEF Record, Conversation
<1>4. 1 \in 1..Len(s) /\ Len(s) \in 1..Len(s) /\ s[1].id \in Nat /\ LastId(s) = s[1].id + (Len(s) - 1)
  BY <1>1, <1>2, <1>3 DEF LastId
<1>5. CASE n < s[1].id
  <2>1. s[1].kind = "summary"
    BY <1>1, <1>3, <1>4, <1>5 DEF Conversation, Kinds
  <2> QED
    BY <1>4, <1>5, <2>1
<1>6. CASE n >= s[1].id
  <2> DEFINE j == (n - s[1].id) + 1
  <2>1. j \in 1..Len(s) /\ s[1].id + (j - 1) = n
    BY <1>2, <1>4, <1>6
  <2> HIDE DEF j
  <2>2. s[j].id = n /\ s[j] \in Record /\ s[j].kind \in Kinds
    BY <1>3, <2>1
  <2>3. s[j].kind = "summary" \/ s[j] = Rec("message", n)
    BY <2>2 DEF Record, Rec, Kinds
  <2> QED
    BY <2>1, <2>2, <2>3
<1> QED
  BY <1>4, <1>5, <1>6

\* A file that can be read holds what it restores.
LEMMA RestoredIsHeld ==
  ASSUME NEW f \in Seq(Chunk), Readable(f), Conversation(LoadMessages(f)), NEW n \in 1..LastId(LoadMessages(f))
  PROVE  Holds(f, n)
<1> DEFINE s == LoadMessages(f)
<1>1. PICK j \in 1..Len(s) : s[j] = Rec("message", n) \/ (s[j].kind = "summary" /\ n <= s[j].id)
  BY ConversationHolds
<1>2. PICK i \in 1..Len(f) : s[j] = f[i].rec
  BY <1>1, RecordsType DEF LoadMessages
<1>3. f[i].st # "torn"
  BY <1>2 DEF Readable
<1> HIDE DEF s
<1> QED
  BY <1>1, <1>2, <1>3 DEF Holds

\* A save writes what restores the session.
LEMMA SnapshotRestores ==
  ASSUME messages \in Seq(Record), prompts \in Seq(Record),
         \A i \in 1..Len(messages) : messages[i].kind \in Kinds,
         \A i \in 1..Len(prompts) : prompts[i].kind = "prompt"
  PROVE  /\ Snapshot \in Seq(Chunk) /\ Snapshot # <<>> /\ Readable(Snapshot)
         /\ LoadMessages(Snapshot) = messages /\ LoadPrompts(Snapshot) = prompts
<1> DEFINE m == Len(messages)
           p == Len(prompts)
           recs == <<Rec("meta", 0)>> \o prompts \o messages
<1>1. m \in Nat /\ p \in Nat
  OBVIOUS
<1>2. <<Rec("meta", 0)>> \in Seq(Record) /\ Len(<<Rec("meta", 0)>>) = 1 /\ <<Rec("meta", 0)>>[1] = Rec("meta", 0)
      /\ Rec("meta", 0).kind = "meta"
  BY DEF Rec, Record
<1> DEFINE head == <<Rec("meta", 0)>> \o prompts
<1>3. head \in Seq(Record) /\ Len(head) = 1 + p /\ \A i \in 1..(1 + p) : head[i] = IF i <= 1 THEN Rec("meta", 0) ELSE prompts[i - 1]
  <2>1. \A i \in 1..(1 + p) : i <= 1 => i = 1
    OBVIOUS
  <2> QED
    BY <1>2, <2>1, ConcatProperties
<1> HIDE DEF head
<1>4. recs \in Seq(Record) /\ Len(recs) = 1 + p + m
      /\ \A i \in 1..(1 + p + m) : recs[i] = IF i <= 1 + p THEN head[i] ELSE messages[i - (1 + p)]
  BY <1>1, <1>3, ConcatProperties DEF head
<1> HIDE DEF recs
<1> DEFINE f == [i \in 1..Len(recs) |-> [rec |-> recs[i], st |-> "line"]]
<1>5. f = Snapshot
  BY DEF Snapshot, recs
<1>6. f \in Seq(Chunk) /\ Len(f) = 1 + p + m /\ \A i \in 1..(1 + p + m) : f[i].rec = recs[i] /\ f[i].st = "line"
  <2>1. \A i \in 1..Len(recs) : [rec |-> recs[i], st |-> "line"] \in Chunk
    BY <1>4, ElementOfSeq DEF Chunk
  <2> QED
    BY <1>1, <1>4, <2>1
<1> HIDE DEF f
<1>7. ASSUME NEW i \in 1..(1 + p + m)
      PROVE  /\ i = 1 => f[i].rec.kind = "meta"
             /\ 1 < i /\ i <= 1 + p => f[i].rec = prompts[i - 1] /\ f[i].rec.kind = "prompt"
             /\ 1 + p < i => f[i].rec = messages[i - (1 + p)] /\ f[i].rec.kind \in Kinds
  <2>1. f[i].rec = recs[i]
    BY <1>6, <1>7
  <2>2. CASE i = 1
    BY <1>1, <1>2, <1>3, <1>4, <2>1, <2>2, SMTT(30)
  <2>3. CASE 1 < i /\ i <= 1 + p
    <3>1. i - 1 \in 1..p /\ i \in 1..(1 + p) /\ ~(i <= 1)
      BY <1>1, <2>3
    <3> QED
      BY <1>3, <1>4, <2>1, <2>3, <3>1
  <2>4. CASE 1 + p < i
    <3>1. i - (1 + p) \in 1..m /\ ~(i <= 1 + p)
      BY <1>1, <2>4
    <3>2. f[i].rec = messages[i - (1 + p)]
      BY <1>4, <2>1, <3>1
    <3> QED
      BY <1>1, <2>4, <3>1, <3>2
  <2> QED
    BY <1>1, <2>2, <2>3, <2>4
<1>8. LoadMessages(f) = messages
  <2> DEFINE a == 1 + p
  <2>1. a \in Nat /\ a + Len(messages) <= Len(f) /\ Len(f) = a + Len(messages) /\ f \in Seq(Chunk)
    BY <1>1, <1>6
  <2>2. ASSUME NEW i \in 1..Len(f) PROVE f[i].rec.kind \in Kinds <=> (a < i /\ i <= a + Len(messages))
    <3>1. i \in 1..(1 + p + m)
      BY <1>6
    <3>2. CASE i = 1
      BY <1>1, <1>7, <3>1, <3>2 DEF Kinds
    <3>3. CASE 1 < i /\ i <= 1 + p
      BY <1>1, <1>7, <3>1, <3>3 DEF Kinds
    <3>4. CASE 1 + p < i
      BY <1>1, <1>7, <3>1, <3>4
    <3> QED
      BY <1>1, <3>1, <3>2, <3>3, <3>4
  <2>3. ASSUME NEW j \in 1..Len(messages) PROVE f[a + j].rec = messages[j]
    <3>1. a + j \in 1..(1 + p + m) /\ 1 + p < a + j /\ (a + j) - (1 + p) = j
      BY <1>1
    <3> QED
      BY <1>7, <3>1
  <2> HIDE DEF a
  <2>4. Records(f, Kinds) = messages
    BY <2>1, <2>2, <2>3, RecordsAre
  <2> QED
    BY <2>4 DEF LoadMessages, Kinds
<1>9. LoadPrompts(f) = prompts
  <2>1. 1 + Len(prompts) <= Len(f) /\ f \in Seq(Chunk)
    BY <1>1, <1>6
  <2>2. ASSUME NEW i \in 1..Len(f) PROVE f[i].rec.kind \in {"prompt"} <=> (1 < i /\ i <= 1 + Len(prompts))
    <3>1. i \in 1..(1 + p + m)
      BY <1>6
    <3>2. CASE i = 1
      BY <1>1, <1>7, <3>1, <3>2
    <3>3. CASE 1 < i /\ i <= 1 + p
      BY <1>1, <1>7, <3>1, <3>3
    <3>4. CASE 1 + p < i
      BY <1>1, <1>7, <3>1, <3>4 DEF Kinds
    <3> QED
      BY <1>1, <3>1, <3>2, <3>3, <3>4
  <2>3. ASSUME NEW j \in 1..Len(prompts) PROVE f[1 + j].rec = prompts[j]
    <3>1. 1 + j \in 1..(1 + p + m) /\ 1 < 1 + j /\ 1 + j <= 1 + p /\ (1 + j) - 1 = j
      BY <1>1
    <3> QED
      BY <1>7, <3>1
  <2>4. Records(f, {"prompt"}) = prompts
    BY <2>1, <2>2, <2>3, RecordsAre
  <2> QED
    BY <2>4 DEF LoadPrompts
<1>10. f # <<>> /\ Readable(f)
  BY <1>1, <1>6 DEF Readable
<1> QED
  BY <1>5, <1>6, <1>8, <1>9, <1>10

\* One chunk more.
LEMMA ChunkMore ==
  ASSUME NEW f \in Seq(Chunk), NEW c \in Chunk
  PROVE  /\ Append(f, c) \in Seq(Chunk) /\ Append(f, c) # <<>> /\ Append(f, c)[Len(Append(f, c))] = c
         /\ LoadMessages(Append(f, c)) = NextKept(LoadMessages(f), c, Kinds)
         /\ c.st = "torn" => ~Readable(Append(f, c))
         /\ f # <<>> /\ Readable(Append(f, c)) => Readable(f)
         /\ \A n \in Nat : Holds(f, n) => Holds(Append(f, c), n)
<1> DEFINE g == Append(f, c)
<1>1. /\ g \in Seq(Chunk) /\ Len(g) = Len(f) + 1 /\ g[Len(f) + 1] = c /\ Len(f) \in Nat
      /\ \A i \in 1..Len(f) : g[i] = f[i]
  BY AppendProperties
<1>2. LoadMessages(g) = NextKept(LoadMessages(f), c, Kinds)
  BY RecordsAppend DEF LoadMessages, Kinds
<1> HIDE DEF g
<1>3. c.st = "torn" => ~Readable(g)
  BY <1>1 DEF Readable
<1>4. f # <<>> /\ Readable(g) => Readable(f)
  BY <1>1 DEF Readable
<1>5. ASSUME NEW n \in Nat, Holds(f, n) PROVE Holds(g, n)
  <2>1. PICK i \in 1..Len(f) : /\ f[i].st # "torn"
                               /\ \/ f[i].rec = Rec("message", n)
                                  \/ f[i].rec.kind = "summary" /\ n <= f[i].rec.id
    BY <1>5 DEF Holds
  <2>2. i \in 1..Len(g) /\ g[i] = f[i]
    BY <1>1
  <2> QED
    BY <2>1, <2>2 DEF Holds
<1>6. g # <<>>
  BY <1>1
<1> QED
  BY <1>1, <1>2, <1>3, <1>4, <1>5, <1>6 DEF g
-----------------------------------------------------------------------------
\* What a file holds after the step.
HeldNext(n) ==
    \/ Holds(path', n)
    \/ path' = <<>> /\ rotated' # <<>> /\ Holds(rotated'[Len(rotated')], n)

LEMMA ConversationMore ==
  ASSUME NEW s, Conversation(s)
  PROVE  /\ LastId(s) \in Nat /\ Rec("message", LastId(s) + 1) \in Record
         /\ Conversation(Append(s, Rec("message", LastId(s) + 1)))
         /\ LastId(Append(s, Rec("message", LastId(s) + 1))) = LastId(s) + 1
<1> DEFINE r == Rec("message", LastId(s) + 1)
           t == Append(s, r)
<1>1. s \in Seq(Record) /\ Len(s) \in Nat /\ (s # <<>> => Len(s) \in 1..Len(s))
  BY DEF Conversation
<1>2. LastId(s) \in Nat
  <2>1. s # <<>> => s[Len(s)] \in Record
    BY <1>1, ElementOfSeq
  <2> QED
    BY <2>1 DEF LastId, Record
<1>3. r \in Record /\ r.kind = "message" /\ r.id = LastId(s) + 1
  BY <1>2 DEF Rec, Record
<1> HIDE DEF r
<1>4. /\ t \in Seq(Record) /\ Len(t) = Len(s) + 1 /\ t[Len(s) + 1] = r /\ t # <<>>
      /\ \A i \in 1..Len(s) : t[i] = s[i]
  BY <1>1, <1>3, AppendProperties
<1> HIDE DEF t
<1>5. \A i \in 1..Len(t) : t[i].kind \in Kinds
  <2> TAKE i \in 1..Len(t)
  <2>1. CASE i \in 1..Len(s)
    BY <1>4, <2>1 DEF Conversation
  <2>2. CASE i = Len(s) + 1
    BY <1>3, <1>4, <2>2 DEF Kinds
  <2> QED
    BY <1>1, <1>4, <2>1, <2>2
<1>6. \A i \in 1..(Len(t) - 1) : t[i + 1].id = t[i].id + 1
  <2> TAKE i \in 1..(Len(t) - 1)
  <2>1. CASE i \in 1..(Len(s) - 1)
    <3>1. i \in 1..Len(s) /\ i + 1 \in 1..Len(s)
      BY <1>1, <2>1
    <3> QED
      BY <1>4, <2>1, <3>1 DEF Conversation
  <2>2. CASE i = Len(s)
    <3>1. i \in 1..Len(s) /\ s # <<>>
      BY <1>1, <2>2
    <3> QED
      BY <1>3, <1>4, <2>2, <3>1 DEF LastId
  <2> QED
    BY <1>1, <1>4, <2>1, <2>2
<1>7. t[1].kind = "message" => t[1].id = 1
  <2>1. CASE s = <<>>
    <3>1. LastId(s) = 0 /\ Len(s) = 0
      BY <2>1 DEF LastId
    <3> QED
      BY <1>3, <1>4, <3>1
  <2>2. CASE s # <<>>
    <3>1. 1 \in 1..Len(s)
      BY <1>1, <2>2
    <3> QED
      BY <1>4, <2>2, <3>1 DEF Conversation
  <2> QED
    BY <2>1, <2>2
<1>8. LastId(t) = LastId(s) + 1
  BY <1>3, <1>4 DEF LastId
<1>9. Conversation(t)
  BY <1>4, <1>5, <1>6, <1>7 DEF Conversation
<1> QED
  BY <1>2, <1>3, <1>8, <1>9 DEF t, r

\* What a compaction leaves is a conversation that ends as the old one did.
LEMMA CompactedConversation ==
  ASSUME NEW s, Conversation(s), NEW k \in Nat, 1 <= k, k < Len(s)
  PROVE  LET t == <<Rec("summary", s[k].id)>> \o SubSeq(s, k + 1, Len(s))
         IN  Conversation(t) /\ LastId(t) = LastId(s)
<1> DEFINE r == Rec("summary", s[k].id)
           n == Len(s)
           u == SubSeq(s, k + 1, n)
           t == <<r>> \o u
<1>1. s \in Seq(Record) /\ n \in Nat /\ k \in 1..n /\ s # <<>>
  BY DEF Conversation
<1>2. r \in Record /\ r.kind = "summary" /\ r.id = s[k].id /\ s[k].id \in Nat
  <2>1. s[k] \in Record
    BY <1>1, ElementOfSeq
  <2> QED
    BY <2>1 DEF Record, Rec
<1> HIDE DEF r
<1>3. u \in Seq(Record) /\ Len(u) = n - k /\ \A i \in 1..(n - k) : u[i] = s[k + i]
  <2>1. k + 1 \in 1..(n + 1) /\ n \in (k + 1)-1..n /\ n - (k + 1) + 1 = n - k
    BY <1>1
  <2>2. \A i \in (k + 1)..n : s[i] \in Record
    <3> TAKE i \in (k + 1)..n
    <3>1. i \in 1..n
      BY <1>1
    <3> QED
      BY <1>1, <3>1, ElementOfSeq
  <2>3. u = [i \in 1..(n - k) |-> s[i + k]]
    BY <1>1
  <2>4. \A i \in 1..(n - k) : s[i + k] = s[k + i] /\ s[i + k] \in Record
    <3> TAKE i \in 1..(n - k)
    <3>1. i + k \in (k + 1)..n /\ i + k = k + i
      BY <1>1
    <3> QED
      BY <2>2, <3>1
  <2>5. n - k \in Nat
    BY <1>1
  <2> HIDE DEF u
  <2> QED
    BY <2>3, <2>4, <2>5
<1> HIDE DEF u
<1>4. <<r>> \in Seq(Record) /\ Len(<<r>>) = 1 /\ <<r>>[1] = r
  BY <1>2
<1>5. t \in Seq(Record) /\ Len(t) = 1 + (n - k) /\ \A i \in 1..(1 + (n - k)) : t[i] = IF i <= 1 THEN r ELSE u[i - 1]
  <2>1. t \in Seq(Record) /\ Len(t) = Len(<<r>>) + Len(u)
        /\ \A i \in 1..(Len(<<r>>) + Len(u)) : t[i] = IF i <= Len(<<r>>) THEN <<r>>[i] ELSE u[i - Len(<<r>>)]
    BY <1>3, <1>4, ConcatProperties
  <2>2. \A i \in 1..(1 + (n - k)) : i <= 1 => i = 1
    OBVIOUS
  <2> QED
    BY <1>3, <1>4, <2>1, <2>2
<1> HIDE DEF t
<1>6. t[1] = r /\ t # <<>> /\ \A i \in 2..(1 + (n - k)) : t[i] = s[k + (i - 1)] /\ k + (i - 1) \in 1..n
  <2>1. t[1] = r /\ t # <<>>
    BY <1>1, <1>5
  <2>2. ASSUME NEW i \in 2..(1 + (n - k)) PROVE t[i] = s[k + (i - 1)] /\ k + (i - 1) \in 1..n
    <3>1. i - 1 \in 1..(n - k) /\ ~(i <= 1) /\ i \in 1..(1 + (n - k)) /\ k + (i - 1) \in 1..n
      BY <1>1
    <3> QED
      BY <1>3, <1>5, <3>1
  <2> QED
    BY <2>1, <2>2
<1>7. \A i \in 1..Len(t) : t[i].kind \in Kinds
  <2> TAKE i \in 1..Len(t)
  <2>1. CASE i = 1
    BY <1>2, <1>6, <2>1 DEF Kinds
  <2>2. CASE i \in 2..(1 + (n - k))
    BY <1>6, <2>2 DEF Conversation
  <2> QED
    BY <1>5, <2>1, <2>2
<1>8. \A i \in 1..(Len(t) - 1) : t[i + 1].id = t[i].id + 1
  <2> TAKE i \in 1..(Len(t) - 1)
  <2>1. i + 1 \in 2..(1 + (n - k)) /\ (i + 1) - 1 = i /\ k + i \in 1..n
    BY <1>1, <1>5
  <2>2. t[i + 1] = s[k + i]
    BY <1>6, <2>1
  <2>3. CASE i = 1
    <3>1. k \in 1..(n - 1)
      BY <1>1
    <3>2. s[k + 1].id = s[k].id + 1
      BY <3>1 DEF Conversation
    <3> QED
      BY <1>2, <1>6, <2>2, <2>3, <3>2
  <2>4. CASE i # 1
    <3>1. i \in 2..(1 + (n - k)) /\ k + (i - 1) \in 1..(n - 1) /\ (k + (i - 1)) + 1 = k + i
      BY <1>1, <1>5, <2>4
    <3>2. t[i] = s[k + (i - 1)]
      BY <1>6, <3>1
    <3>3. s[k + i].id = s[k + (i - 1)].id + 1
      BY <3>1 DEF Conversation
    <3> QED
      BY <2>2, <3>2, <3>3
  <2> QED
    BY <2>3, <2>4
<1>9. Conversation(t)
  BY <1>2, <1>5, <1>6, <1>7, <1>8 DEF Conversation
<1>10. LastId(t) = LastId(s)
  <2>1. Len(t) \in 2..(1 + (n - k)) /\ k + (Len(t) - 1) = n
    BY <1>1, <1>5
  <2>2. t[Len(t)] = s[n]
    BY <1>6, <2>1
  <2> QED
    BY <1>1, <1>6, <2>2 DEF LastId
<1> QED
  BY <1>9, <1>10 DEF t, u, r

LEMMA FileInit == Init => FileInv
<1> SUFFICES ASSUME Init PROVE FileInv
  OBVIOUS
<1>1. TypeOK
  BY DEF Init, TypeOK, PC, Op
<1>2. InMemory
  BY DEF Init, InMemory, Conversation, LastId
<1>3. UnderWay
  BY SizesAssumption DEF Init, UnderWay
<1>4. Restorable
  BY DEF Init, Restorable, Readable
<1>5. AckedOnDisk
  BY DEF Init, AckedOnDisk
<1> QED
  BY <1>1, <1>2, <1>3, <1>4, <1>5 DEF FileInv

\* The process is gone; only the file counts.
LEMMA ExitKeeps ==
  ASSUME FileInv, Exit, path' \in Seq(Chunk), rotated' \in Seq(Seq(Chunk)),
         Readable(path') => /\ Conversation(LoadMessages(path'))
                            /\ LastId(LoadMessages(path')) \in {acked, acked + 1},
         \A n \in 1..acked : HeldNext(n)
  PROVE  FileInv'
<1>1. TypeOK'
  BY DEF FileInv, TypeOK, Exit, PC, Op
<1>2. InMemory'
  BY DEF Exit, InMemory, Conversation
<1>3. UnderWay'
  BY DEF Exit, UnderWay
<1>4. Restorable'
  BY DEF Exit, Restorable
<1>5. AckedOnDisk'
  BY DEF Exit, AckedOnDisk, HeldNext
<1> QED
  BY <1>1, <1>2, <1>3, <1>4, <1>5 DEF FileInv

\* The session goes on, and the file restores it or cannot be read.
LEMMA IdleKeeps ==
  ASSUME FileInv, pc' = "idle", op' = "none", messages' = messages, prompts' = prompts, lives' = lives,
         acked' = LastId(messages), pc # "exited",
         path' \in Seq(Chunk), rotated' \in Seq(Seq(Chunk)), Len(rotated') <= MaxRotated,
         Readable(path') => LoadMessages(path') = messages,
         \A n \in 1..acked' : HeldNext(n)
  PROVE  FileInv'
<1>0. LastId(messages) \in Nat
  BY DEF FileInv, InMemory, TypeOK
<1>1. TypeOK'
  BY <1>0 DEF FileInv, TypeOK, PC, Op
<1>2. InMemory'
  BY <1>0 DEF FileInv, InMemory
<1>3. UnderWay'
  BY DEF UnderWay
<1>4. Restorable'
  BY <1>0 DEF FileInv, InMemory, Restorable
<1>5. AckedOnDisk'
  BY DEF AckedOnDisk, HeldNext
<1> QED
  BY <1>1, <1>2, <1>3, <1>4, <1>5 DEF FileInv

LEMMA ReturnsAck ==
  ASSUME FileInv, pc \notin {"idle", "exited"}, CallReturns
  PROVE  /\ pc' = "idle" /\ op' = "none" /\ messages' = messages /\ prompts' = prompts /\ lives' = lives
         /\ acked' = LastId(messages)
  BY DEF FileInv, InMemory, CallReturns

\* A call failed: a prompt entry leaves the session going, anything else ends it.
LEMMA FailKeeps ==
  ASSUME FileInv, pc \notin {"idle", "exited"}, CallFails,
         path' \in Seq(Chunk), rotated' \in Seq(Seq(Chunk)),
         Readable(path') => Readable(path) /\ LoadMessages(path') = LoadMessages(path),
         op = "prompt" => /\ Readable(path') => LoadMessages(path') = messages
                          /\ Len(rotated') <= MaxRotated,
         \A n \in 1..acked : HeldNext(n)
  PROVE  FileInv'
<1>1. CASE op = "prompt"
  <2>1. /\ pc' = "idle" /\ op' = "none" /\ messages' = messages /\ prompts' = prompts /\ lives' = lives
        /\ acked' = acked
    BY <1>1 DEF CallFails
  <2>2. acked' = LastId(messages)
    BY <1>1, <2>1 DEF FileInv, InMemory
  <2> QED
    BY <1>1, <2>1, <2>2, IdleKeeps
<1>2. CASE op # "prompt"
  <2>1. Exit
    BY <1>2 DEF CallFails
  <2>2. Readable(path') => /\ Conversation(LoadMessages(path'))
                           /\ LastId(LoadMessages(path')) \in {acked, acked + 1}
    BY DEF FileInv, Restorable
  <2> QED
    BY <2>1, <2>2, ExitKeeps
<1> QED
  BY <1>1, <1>2
-----------------------------------------------------------------------------
LEMMA PushMessageKeeps == FileInv /\ PushMessage => FileInv'
<1> SUFFICES ASSUME FileInv, PushMessage PROVE FileInv'
  OBVIOUS
<1> DEFINE r == Rec("message", LastId(messages) + 1)
<1>1. /\ Conversation(messages) /\ pc = "idle" /\ op = "none" /\ LastId(messages) = acked
      /\ op' = "message" /\ messages' = Append(messages, r) /\ pc' = (IF path = <<>> THEN "rotate" ELSE "append")
      /\ prompts' = prompts /\ path' = path /\ rotated' = rotated /\ lives' = lives /\ acked' = acked
  BY DEF FileInv, InMemory, UnderWay, PushMessage, StartAppend
<1>2. /\ r \in Record /\ Conversation(messages') /\ LastId(messages') = acked + 1
      /\ messages \in Seq(Record) /\ r.kind = "message"
  <2>1. r.kind = "message"
    BY DEF Rec
  <2> QED
    BY <1>1, <2>1, ConversationMore DEF Conversation
<1> HIDE DEF r
<1>3. messages' \in Seq(Record) /\ messages' # <<>> /\ messages'[Len(messages')] = r
  BY <1>1, <1>2, AppendProperties
<1>4. TypeOK'
  BY <1>1, <1>3 DEF FileInv, TypeOK, PC, Op
<1>5. InMemory'
  BY <1>1, <1>2, <1>3 DEF FileInv, InMemory
<1>6. UnderWay'
  BY <1>1 DEF FileInv, UnderWay
<1>7. Restorable'
  BY <1>1, <1>2, <1>3 DEF FileInv, Restorable
<1>8. AckedOnDisk'
  BY <1>1 DEF FileInv, AckedOnDisk
<1> QED
  BY <1>4, <1>5, <1>6, <1>7, <1>8 DEF FileInv

LEMMA PushPromptEntryKeeps == FileInv /\ PushPromptEntry => FileInv'
<1> SUFFICES ASSUME FileInv, PushPromptEntry PROVE FileInv'
  OBVIOUS
<1> DEFINE r == Rec("prompt", Len(prompts) + 1)
<1>1. /\ pc = "idle" /\ op = "none" /\ op' = "prompt" /\ prompts' = Append(prompts, r)
      /\ pc' = (IF path = <<>> THEN "rotate" ELSE "append")
      /\ messages' = messages /\ path' = path /\ rotated' = rotated /\ lives' = lives /\ acked' = acked
  BY DEF FileInv, UnderWay, PushPromptEntry, StartAppend
<1>2. prompts \in Seq(Record) /\ Len(prompts) \in Nat /\ r \in Record /\ r.kind = "prompt"
  <2>1. prompts \in Seq(Record) /\ Len(prompts) \in Nat
    BY DEF FileInv, TypeOK
  <2> QED
    BY <2>1 DEF Rec, Record
<1> HIDE DEF r
<1>3. /\ prompts' \in Seq(Record) /\ Len(prompts') = Len(prompts) + 1 /\ prompts' # <<>>
      /\ prompts'[Len(prompts) + 1] = r /\ \A i \in 1..Len(prompts) : prompts'[i] = prompts[i]
  BY <1>1, <1>2, AppendProperties
<1>4. \A i \in 1..Len(prompts') : prompts'[i].kind = "prompt"
  <2> TAKE i \in 1..Len(prompts')
  <2>1. CASE i \in 1..Len(prompts)
    BY <1>3, <2>1 DEF FileInv, InMemory
  <2>2. CASE i = Len(prompts) + 1
    BY <1>2, <1>3, <2>2
  <2> QED
    BY <1>2, <1>3, <2>1, <2>2
<1>5. TypeOK'
  BY <1>1, <1>3 DEF FileInv, TypeOK, PC, Op
<1>6. InMemory'
  BY <1>1, <1>3, <1>4 DEF FileInv, InMemory
<1>7. UnderWay'
  BY <1>1 DEF FileInv, UnderWay
<1>8. Restorable'
  BY <1>1 DEF FileInv, Restorable
<1>9. AckedOnDisk'
  BY <1>1 DEF FileInv, AckedOnDisk
<1> QED
  BY <1>5, <1>6, <1>7, <1>8, <1>9 DEF FileInv

\* A save of the session as it is, or compacted, begins.
LEMMA SaveStarts ==
  ASSUME FileInv, pc = "idle", op' = "persist", pc' = "rotate",
         messages' \in Seq(Record), Conversation(messages'), LastId(messages') = LastId(messages),
         UNCHANGED <<prompts, path, rotated, lives, acked>>
  PROVE  FileInv'
<1>1. op = "none" /\ LastId(messages) = acked
  BY DEF FileInv, InMemory, UnderWay
<1>2. TypeOK'
  BY DEF FileInv, TypeOK, PC, Op
<1>3. InMemory'
  BY <1>1 DEF FileInv, InMemory
<1>4. UnderWay'
  BY DEF UnderWay
<1>5. Restorable'
  BY DEF FileInv, Restorable
<1>6. AckedOnDisk'
  BY DEF FileInv, AckedOnDisk
<1> QED
  BY <1>2, <1>3, <1>4, <1>5, <1>6 DEF FileInv

LEMMA PersistKeeps == FileInv /\ (Persist \/ CompactAndPersist) => FileInv'
<1> SUFFICES ASSUME FileInv, Persist \/ CompactAndPersist PROVE FileInv'
  OBVIOUS
<1>0. messages \in Seq(Record) /\ Conversation(messages) /\ Len(messages) \in Nat
  BY DEF FileInv, TypeOK, InMemory
<1>1. CASE Persist
  BY <1>0, <1>1, SaveStarts DEF Persist
<1>2. CASE CompactAndPersist
  <2> DEFINE k == Len(messages) - Preserve
  <2>1. k \in Nat /\ 1 <= k /\ k < Len(messages)
    <3>1. PrefixLen(messages) \in {0, 1} /\ Len(messages) - PrefixLen(messages) > Preserve
      BY <1>2 DEF PrefixLen, CompactAndPersist
    <3> QED
      BY <1>0, <3>1, SizesAssumption
  <2>2. messages' = <<Rec("summary", messages[k].id)>> \o SubSeq(messages, k + 1, Len(messages))
    BY <1>2 DEF CompactAndPersist
  <2> HIDE DEF k
  <2>3. Conversation(messages') /\ LastId(messages') = LastId(messages)
    BY <1>0, <2>1, <2>2, CompactedConversation
  <2>4. messages' \in Seq(Record)
    BY <2>3 DEF Conversation
  <2>5. /\ pc = "idle" /\ op' = "persist" /\ pc' = "rotate"
        /\ UNCHANGED <<prompts, path, rotated, lives, acked>>
    BY <1>2 DEF CompactAndPersist
  <2> QED
    BY <2>3, <2>4, <2>5, SaveStarts
<1> QED
  BY <1>1, <1>2

\* The record a call appends.
LEMMA AppendedIs ==
  ASSUME FileInv, op \in {"message", "prompt"}
  PROVE  /\ Appended \in Record
         /\ op = "message" => Appended = messages[Len(messages)] /\ Appended.kind = "message"
         /\ op = "prompt" => Appended = prompts[Len(prompts)] /\ Appended.kind = "prompt"
<1>1. /\ messages \in Seq(Record) /\ prompts \in Seq(Record)
      /\ op = "message" => messages # <<>> /\ messages[Len(messages)].kind = "message"
      /\ op = "prompt" => prompts # <<>>
      /\ \A i \in 1..Len(prompts) : prompts[i].kind = "prompt"
  BY DEF FileInv, TypeOK, InMemory
<1>2. CASE op = "message"
  <2>1. Len(messages) \in 1..Len(messages)
    BY <1>1, <1>2
  <2>2. messages[Len(messages)] \in Record
    BY <1>1, <2>1, ElementOfSeq
  <2> QED
    BY <1>1, <1>2, <2>2 DEF Appended
<1>3. CASE op = "prompt"
  <2>1. Len(prompts) \in 1..Len(prompts)
    BY <1>1, <1>3
  <2>2. prompts[Len(prompts)] \in Record /\ prompts[Len(prompts)].kind = "prompt"
    BY <1>1, <2>1, ElementOfSeq
  <2> QED
    BY <1>3, <2>2 DEF Appended
<1> QED
  BY <1>2, <1>3

\* A call that fails after writing nothing, or part of a record.
LEMMA WrittenInPart ==
  ASSUME FileInv, op \in {"message", "prompt"}, path # <<>>,
         path' \in {path, Append(path, [rec |-> Appended, st |-> "torn"])}
  PROVE  /\ path' \in Seq(Chunk)
         /\ Readable(path') => Readable(path) /\ LoadMessages(path') = LoadMessages(path)
         /\ \A n \in 1..acked : HeldNext(n)
<1> DEFINE c == [rec |-> Appended, st |-> "torn"]
<1>1. c \in Chunk /\ c.st = "torn"
  BY AppendedIs DEF Chunk
<1>2. path \in Seq(Chunk) /\ \A n \in 1..acked : n \in Nat /\ Holds(path, n)
  BY DEF FileInv, TypeOK, AckedOnDisk
<1> HIDE DEF c
<1>3. CASE path' = path
  BY <1>2, <1>3 DEF HeldNext
<1>4. CASE path' = Append(path, c)
  <2>1. path' \in Seq(Chunk) /\ ~Readable(path') /\ \A n \in Nat : Holds(path, n) => Holds(path', n)
    BY <1>1, <1>2, <1>4, ChunkMore
  <2> QED
    BY <1>2, <2>1 DEF HeldNext
<1> QED
  BY <1>3, <1>4 DEF c

LEMMA AppendContentKeeps == FileInv /\ AppendContent => FileInv'
<1> SUFFICES ASSUME FileInv, AppendContent PROVE FileInv'
  OBVIOUS
<1> DEFINE c == [rec |-> Appended, st |-> "bare"]
<1>1. /\ pc = "append" /\ op \in {"message", "prompt"} /\ path # <<>> /\ path \in Seq(Chunk)
      /\ rotated' = rotated /\ rotated \in Seq(Seq(Chunk))
      /\ Len(rotated) <= MaxRotated
  BY DEF FileInv, TypeOK, Op, UnderWay, AppendContent
<1>2. /\ Appended \in Record /\ c \in Chunk /\ c.rec = Appended
      /\ op = "message" => Appended = messages[Len(messages)] /\ Appended.kind = "message"
      /\ op = "prompt" => Appended.kind = "prompt"
  BY <1>1, AppendedIs DEF Chunk
<1> HIDE DEF c
<1>3. CASE path' = Append(path, c) /\ pc' = "newline" /\ UNCHANGED <<op, messages, prompts, lives, acked>>
  <2>1. /\ path' \in Seq(Chunk) /\ path' # <<>> /\ path'[Len(path')] = c
        /\ LoadMessages(path') = NextKept(LoadMessages(path), c, Kinds)
        /\ Readable(path') => Readable(path)
        /\ \A n \in Nat : Holds(path, n) => Holds(path', n)
    BY <1>1, <1>2, <1>3, ChunkMore
  <2>2. Readable(path') => /\ LoadMessages(path') = messages
                           /\ Conversation(messages) /\ LastId(messages) \in {acked, acked + 1}
    <3> SUFFICES ASSUME Readable(path')
                 PROVE  /\ LoadMessages(path') = messages
                        /\ Conversation(messages) /\ LastId(messages) \in {acked, acked + 1}
      OBVIOUS
    <3>1. Conversation(messages) /\ LastId(messages) \in {acked, acked + 1}
      BY <1>1 DEF FileInv, InMemory
    <3>2. CASE op = "message"
      <4>1. messages = Append(LoadMessages(path), messages[Len(messages)])
        BY <1>1, <2>1, <3>2 DEF FileInv, Restorable
      <4> QED
        BY <1>2, <2>1, <3>1, <3>2, <4>1 DEF NextKept, Kinds
    <3>3. CASE op = "prompt"
      <4>1. LoadMessages(path) = messages
        BY <1>1, <2>1, <3>3 DEF FileInv, Restorable
      <4> QED
        BY <1>2, <2>1, <3>1, <3>3, <4>1 DEF NextKept, Kinds
    <3> QED
      BY <1>1, <3>2, <3>3
  <2>3. TypeOK'
    BY <1>1, <1>3, <2>1 DEF FileInv, TypeOK, PC, Op
  <2>4. InMemory'
    BY <1>1, <1>3 DEF FileInv, InMemory
  <2>5. UnderWay'
    <3>1. path'[Len(path')] = [rec |-> Appended', st |-> "bare"]
      BY <1>3, <2>1 DEF Appended, c
    <3> QED
      BY <1>1, <1>3, <2>1, <3>1 DEF UnderWay
  <2>6. Restorable'
    BY <1>3, <2>2 DEF Restorable
  <2>7. AckedOnDisk'
    <3>1. \A n \in 1..acked : n \in Nat /\ Holds(path, n)
      BY <1>1 DEF FileInv, TypeOK, AckedOnDisk
    <3> QED
      BY <1>3, <2>1, <3>1 DEF AckedOnDisk
  <2> QED
    BY <2>3, <2>4, <2>5, <2>6, <2>7 DEF FileInv
<1>4. CASE path' \in {path, Append(path, [rec |-> Appended, st |-> "torn"])} /\ CallFails
  <2>1. /\ path' \in Seq(Chunk)
        /\ Readable(path') => Readable(path) /\ LoadMessages(path') = LoadMessages(path)
        /\ \A n \in 1..acked : HeldNext(n)
    BY <1>1, <1>4, WrittenInPart
  <2>2. op = "prompt" => (Readable(path') => LoadMessages(path') = messages)
    BY <1>1, <2>1 DEF FileInv, Restorable
  <2> QED
    BY <1>1, <1>4, <2>1, <2>2, FailKeeps
<1> QED
  BY <1>3, <1>4 DEF AppendContent, c

\* The last line is closed: what the file holds and restores does not change.
LEMMA LineClosed ==
  ASSUME NEW f \in Seq(Chunk), f # <<>>, f[Len(f)].st = "bare",
         NEW g, g = [f EXCEPT ![Len(f)].st = "line"]
  PROVE  /\ g \in Seq(Chunk)
         /\ Readable(g) => Readable(f)
         /\ LoadMessages(g) = LoadMessages(f)
         /\ \A n \in Nat : Holds(f, n) => Holds(g, n)
<1> DEFINE k == Len(f)
           c == [f[k] EXCEPT !.st = "line"]
<1>1. k \in 1..Len(f) /\ k \in Nat
  BY LenProperties
<1>2. f[k] \in Chunk
  BY <1>1, ElementOfSeq
<1>3. c \in Chunk /\ c.rec = f[k].rec /\ c.st = "line"
  BY <1>2 DEF Chunk
<1>4. g = [f EXCEPT ![k] = c]
  OBVIOUS
<1> HIDE DEF c
<1>5. /\ g \in Seq(Chunk) /\ Len(g) = Len(f) /\ g[k] = c
      /\ \A i \in 1..Len(f) : i # k => g[i] = f[i]
  BY <1>1, <1>3, <1>4, ExceptSeq
<1>6. \A i \in 1..Len(f) : g[i].rec = f[i].rec /\ (f[i].st # "torn" => g[i].st # "torn")
  BY <1>3, <1>5
<1>7. LoadMessages(g) = LoadMessages(f)
  BY <1>5, <1>6, RecordsSame, ZenonT(60) DEF LoadMessages
<1>8. Readable(g) => Readable(f)
  BY <1>5 DEF Readable
<1>9. ASSUME NEW n \in Nat, Holds(f, n) PROVE Holds(g, n)
  <2>1. PICK i \in 1..Len(f) : /\ f[i].st # "torn"
                               /\ \/ f[i].rec = Rec("message", n)
                                  \/ f[i].rec.kind = "summary" /\ n <= f[i].rec.id
    BY <1>9 DEF Holds
  <2>2. i \in 1..Len(g) /\ g[i].rec = f[i].rec /\ g[i].st # "torn"
    BY <1>5, <1>6, <2>1
  <2> QED
    BY <2>1, <2>2 DEF Holds
<1> QED
  BY <1>5, <1>7, <1>8, <1>9

LEMMA AppendNewlineKeeps == FileInv /\ AppendNewline => FileInv'
<1> SUFFICES ASSUME FileInv, AppendNewline PROVE FileInv'
  OBVIOUS
<1>1. /\ pc = "newline" /\ op \in {"message", "prompt"} /\ path # <<>> /\ path \in Seq(Chunk)
      /\ path[Len(path)] = [rec |-> Appended, st |-> "bare"]
      /\ rotated' = rotated /\ rotated \in Seq(Seq(Chunk)) /\ Len(rotated) <= MaxRotated
      /\ Readable(path) => LoadMessages(path) = messages
      /\ \A n \in 1..acked : n \in Nat /\ Holds(path, n)
  BY DEF FileInv, TypeOK, Op, UnderWay, Restorable, AckedOnDisk, AppendNewline
<1>2. CASE path' = [path EXCEPT ![Len(path)].st = "line"] /\ CallReturns
  <2>1. /\ pc' = "idle" /\ op' = "none" /\ messages' = messages /\ prompts' = prompts /\ lives' = lives
        /\ acked' = LastId(messages)
    BY <1>1, <1>2, ReturnsAck
  <2>2. path[Len(path)].st = "bare"
    BY <1>1
  <2>3. /\ path' \in Seq(Chunk)
        /\ Readable(path') => Readable(path)
        /\ LoadMessages(path') = LoadMessages(path)
        /\ \A n \in Nat : Holds(path, n) => Holds(path', n)
    BY <1>1, <1>2, <2>2, LineClosed
  <2>4. ASSUME NEW n \in 1..acked' PROVE HeldNext(n)
    <3>0. Holds(path', acked + 1) \/ ~(op = "message")
      <4> SUFFICES ASSUME op = "message" PROVE Holds(path', acked + 1)
        OBVIOUS
      <4>1. Appended = messages[Len(messages)] /\ Appended.kind = "message" /\ Appended \in Record
        BY <1>1, AppendedIs
      <4>2. messages # <<>> /\ LastId(messages) = acked + 1 /\ acked \in Nat
        BY <1>1 DEF FileInv, TypeOK, InMemory
      <4>3. Appended = Rec("message", acked + 1)
        BY <4>1, <4>2 DEF LastId, Record, Rec
      <4>4. Len(path) \in 1..Len(path) /\ path[Len(path)].st # "torn" /\ path[Len(path)].rec = Appended
        BY <1>1
      <4>5. Holds(path, acked + 1)
        BY <4>3, <4>4 DEF Holds
      <4> QED
        BY <2>3, <4>2, <4>5
    <3>1. acked' = IF op = "message" THEN acked + 1 ELSE acked
      BY <1>1, <2>1 DEF FileInv, InMemory
    <3>2. acked \in Nat
      BY DEF FileInv, TypeOK
    <3>3. CASE n \in 1..acked
      BY <1>1, <2>3, <3>3 DEF HeldNext
    <3>4. CASE n = acked + 1 /\ op = "message"
      BY <3>0, <3>4 DEF HeldNext
    <3> QED
      BY <3>1, <3>2, <3>3, <3>4
  <2>5. pc # "exited" /\ rotated' \in Seq(Seq(Chunk)) /\ Len(rotated') <= MaxRotated
    BY <1>1
  <2>6. Readable(path') => LoadMessages(path') = messages
    BY <1>1, <2>3
  <2>7. path' \in Seq(Chunk)
    BY <2>3
  <2> QED
    BY <2>1, <2>4, <2>5, <2>6, <2>7, IdleKeeps
<1>3. CASE UNCHANGED path /\ CallFails
  <2>1. \A n \in 1..acked : HeldNext(n)
    BY <1>1, <1>3 DEF HeldNext
  <2> QED
    BY <1>1, <1>3, <2>1, FailKeeps
<1> QED
  BY <1>2, <1>3 DEF AppendNewline
-----------------------------------------------------------------------------
LEMMA RotateKeeps == FileInv /\ Rotate => FileInv'
<1> SUFFICES ASSUME FileInv, Rotate PROVE FileInv'
  OBVIOUS
<1>1. /\ pc = "rotate" /\ path \in Seq(Chunk) /\ rotated \in Seq(Seq(Chunk)) /\ Len(rotated) \in Nat
      /\ op # "persist" => path = <<>>
      /\ acked \in Nat
  BY DEF FileInv, TypeOK, UnderWay, Rotate
<1>2. CASE pc' = "write" /\ UNCHANGED <<op, messages, prompts, path, rotated, lives, acked>>
  <2>1. TypeOK'
    BY <1>2 DEF FileInv, TypeOK, PC, Op
  <2>2. InMemory'
    BY <1>1, <1>2 DEF FileInv, InMemory
  <2>3. UnderWay'
    BY <1>1, <1>2 DEF FileInv, UnderWay
  <2>4. Restorable'
    BY <1>2 DEF FileInv, Restorable
  <2>5. AckedOnDisk'
    BY <1>2 DEF FileInv, AckedOnDisk
  <2> QED
    BY <2>1, <2>2, <2>3, <2>4, <2>5 DEF FileInv
<1>3. CASE /\ Len(path) >= RotateAt
           /\ path' = <<>>
           /\ \/ rotated' = Append(rotated, path)
              \/ rotated # <<>> /\ rotated' = [rotated EXCEPT ![Len(rotated)] = path]
           /\ pc' = "write"
           /\ UNCHANGED <<op, messages, prompts, lives, acked>>
  <2>1. path # <<>> /\ op = "persist"
    BY <1>1, <1>3, SizesAssumption
  <2>2. rotated' \in Seq(Seq(Chunk)) /\ rotated' # <<>> /\ rotated'[Len(rotated')] = path
    <3>1. CASE rotated' = Append(rotated, path)
      BY <1>1, <3>1, AppendProperties
    <3>2. CASE rotated # <<>> /\ rotated' = [rotated EXCEPT ![Len(rotated)] = path]
      <4>1. Len(rotated) \in 1..Len(rotated)
        BY <1>1, <3>2
      <4>2. /\ rotated' \in Seq(Seq(Chunk)) /\ Len(rotated') = Len(rotated)
            /\ rotated'[Len(rotated)] = path
        BY <1>1, <3>2, <4>1, ExceptSeq
      <4> QED
        BY <4>1, <4>2
    <3> QED
      BY <1>3, <3>1, <3>2
  <2>3. ~Readable(path') /\ path' \in Seq(Chunk)
    BY <1>3 DEF Readable
  <2>4. TypeOK'
    BY <1>3, <2>2, <2>3 DEF FileInv, TypeOK, PC, Op
  <2>5. InMemory'
    BY <1>1, <1>3 DEF FileInv, InMemory
  <2>6. UnderWay'
    BY <1>3, <2>1 DEF UnderWay
  <2>7. Restorable'
    BY <2>3 DEF Restorable
  <2>8. AckedOnDisk'
    BY <1>3, <2>1, <2>2 DEF FileInv, AckedOnDisk
  <2> QED
    BY <2>4, <2>5, <2>6, <2>7, <2>8 DEF FileInv
<1>4. CASE Len(path) >= RotateAt /\ CallFails /\ UNCHANGED <<path, rotated>>
  <2>1. op # "prompt"
    <3>1. path # <<>>
      BY <1>1, <1>4, SizesAssumption
    <3> QED
      BY <1>1, <3>1
  <2>2. \A n \in 1..acked : HeldNext(n)
    BY <1>4 DEF FileInv, AckedOnDisk, HeldNext
  <2> QED
    BY <1>1, <1>4, <2>1, <2>2, FailKeeps
<1> QED
  BY <1>2, <1>3, <1>4 DEF Rotate

\* What a save writes, when it is written.
LEMMA SnapshotHolds ==
  ASSUME FileInv
  PROVE  /\ Snapshot \in Seq(Chunk) /\ Snapshot # <<>> /\ Readable(Snapshot)
         /\ LoadMessages(Snapshot) = messages /\ LoadPrompts(Snapshot) = prompts
         /\ \A n \in 1..LastId(messages) : Holds(Snapshot, n)
<1>1. /\ messages \in Seq(Record) /\ prompts \in Seq(Record) /\ Conversation(messages)
      /\ \A i \in 1..Len(messages) : messages[i].kind \in Kinds
      /\ \A i \in 1..Len(prompts) : prompts[i].kind = "prompt"
  BY DEF FileInv, TypeOK, InMemory, Conversation
<1>2. /\ Snapshot \in Seq(Chunk) /\ Snapshot # <<>> /\ Readable(Snapshot)
      /\ LoadMessages(Snapshot) = messages /\ LoadPrompts(Snapshot) = prompts
  BY <1>1, SnapshotRestores
<1>3. \A n \in 1..LastId(messages) : Holds(Snapshot, n)
  BY <1>1, <1>2, RestoredIsHeld
<1> QED
  BY <1>2, <1>3

LEMMA WriteAtomicKeeps == FileInv /\ WriteAtomic => FileInv'
<1> SUFFICES ASSUME FileInv, WriteAtomic PROVE FileInv'
  OBVIOUS
<1>1. /\ pc = "write" /\ path \in Seq(Chunk) /\ rotated' = rotated /\ rotated \in Seq(Seq(Chunk))
      /\ acked \in Nat /\ LastId(messages) \in {acked, acked + 1} /\ Conversation(messages)
      /\ op # "persist" => path = <<>> /\ Len(rotated) <= MaxRotated
      /\ op # "none"
  BY DEF FileInv, TypeOK, InMemory, UnderWay, WriteAtomic
<1>2. CASE path' = Snapshot /\ pc' = "cleanup" /\ UNCHANGED <<op, messages, prompts, lives, acked>>
  <2>1. /\ path' \in Seq(Chunk) /\ path' # <<>> /\ LoadMessages(path') = messages
        /\ \A n \in 1..LastId(messages) : Holds(path', n)
    BY <1>2, SnapshotHolds
  <2>2. TypeOK'
    BY <1>1, <1>2, <2>1 DEF FileInv, TypeOK, PC, Op
  <2>3. InMemory'
    BY <1>1, <1>2 DEF FileInv, InMemory
  <2>4. UnderWay'
    <3>1. Snapshot' = Snapshot
      BY <1>2 DEF Snapshot
    <3> QED
      BY <1>1, <1>2, <3>1 DEF UnderWay
  <2>5. Restorable'
    BY <1>1, <1>2, <2>1 DEF Restorable
  <2>6. AckedOnDisk'
    <3>1. \A n \in 1..acked : n \in 1..LastId(messages)
      BY <1>1
    <3> QED
      BY <1>2, <2>1, <3>1 DEF AckedOnDisk
  <2> QED
    BY <2>2, <2>3, <2>4, <2>5, <2>6 DEF FileInv
<1>3. CASE UNCHANGED path /\ CallFails
  <2>1. op = "prompt" => ~Readable(path')
    BY <1>1, <1>3 DEF Readable
  <2>2. \A n \in 1..acked : HeldNext(n)
    BY <1>1, <1>3 DEF FileInv, AckedOnDisk, HeldNext
  <2> QED
    BY <1>1, <1>3, <2>1, <2>2, FailKeeps
<1> QED
  BY <1>2, <1>3 DEF WriteAtomic

LEMMA DropOldestIs ==
  ASSUME FileInv, NEW n \in 0..Surplus(MaxRotated)
  PROVE  /\ DropOldest(n) \in Seq(Seq(Chunk))
         /\ Len(DropOldest(n)) <= Len(rotated)
         /\ n = Surplus(MaxRotated) => Len(DropOldest(n)) <= MaxRotated
<1>1. rotated \in Seq(Seq(Chunk)) /\ Len(rotated) \in Nat /\ MaxRotated \in Nat
  BY SizesAssumption DEF FileInv, TypeOK
<1>2. n \in Nat /\ n <= Len(rotated) /\ (n = Surplus(MaxRotated) => Len(rotated) - n <= MaxRotated)
  BY <1>1 DEF Surplus
<1>3. \A i \in (n + 1)..Len(rotated) : rotated[i] \in Seq(Chunk)
  <2> TAKE i \in (n + 1)..Len(rotated)
  <2>1. i \in 1..Len(rotated)
    BY <1>1, <1>2
  <2> QED
    BY <1>1, <2>1, ElementOfSeq
<1>4. DropOldest(n) = [i \in 1..(Len(rotated) - n) |-> rotated[i + n]]
  BY <1>1, <1>2 DEF DropOldest
<1>5. \A i \in 1..(Len(rotated) - n) : rotated[i + n] \in Seq(Chunk)
  <2> TAKE i \in 1..(Len(rotated) - n)
  <2>1. i + n \in (n + 1)..Len(rotated)
    BY <1>1, <1>2
  <2> QED
    BY <1>3, <2>1
<1>6. Len(rotated) - n \in Nat
  BY <1>1, <1>2
<1>7. DropOldest(n) \in Seq(Seq(Chunk)) /\ Len(DropOldest(n)) = Len(rotated) - n
  BY <1>4, <1>5, <1>6
<1> QED
  BY <1>1, <1>2, <1>7

LEMMA CleanupKeeps == FileInv /\ Cleanup => FileInv'
<1> SUFFICES ASSUME FileInv, Cleanup PROVE FileInv'
  OBVIOUS
<1>1. /\ pc = "cleanup" /\ path = Snapshot /\ path' = path /\ acked \in Nat
      /\ op # "persist" => Len(rotated) <= MaxRotated
      /\ acked <= LastId(messages) /\ rotated \in Seq(Seq(Chunk))
  BY DEF FileInv, TypeOK, InMemory, UnderWay, Cleanup
<1>2. /\ path' \in Seq(Chunk) /\ LoadMessages(path') = messages
      /\ \A n \in 1..LastId(messages) : HeldNext(n)
  BY <1>1, SnapshotHolds DEF HeldNext
<1>3. Surplus(MaxRotated) \in Nat
  <2>1. Len(rotated) \in Nat
    BY <1>1
  <2> QED
    BY <2>1, SizesAssumption DEF Surplus
<1>4. CASE rotated' = DropOldest(Surplus(MaxRotated)) /\ CallReturns
  <2>1. rotated' \in Seq(Seq(Chunk)) /\ Len(rotated') <= MaxRotated
    BY <1>3, <1>4, DropOldestIs
  <2>2. /\ pc' = "idle" /\ op' = "none" /\ messages' = messages /\ prompts' = prompts /\ lives' = lives
        /\ acked' = LastId(messages)
    BY <1>1, <1>4, ReturnsAck
  <2>3. \A n \in 1..acked' : HeldNext(n)
    BY <1>2, <2>2
  <2> QED
    BY <1>1, <1>2, <2>1, <2>2, <2>3, IdleKeeps
<1>5. CASE (\E n \in 0..Surplus(MaxRotated) : rotated' = DropOldest(n)) /\ CallFails
  <2>1. PICK k \in 0..Surplus(MaxRotated) : rotated' = DropOldest(k)
    BY <1>5
  <2>2. rotated' \in Seq(Seq(Chunk)) /\ Len(rotated') <= Len(rotated) /\ Len(rotated') \in Nat
    <3>1. rotated' \in Seq(Seq(Chunk)) /\ Len(rotated') <= Len(rotated)
      BY <2>1, DropOldestIs
    <3> QED
      BY <3>1
  <2>3. op = "prompt" => Len(rotated') <= MaxRotated
    <3>1. Len(rotated) \in Nat /\ MaxRotated \in Nat
      BY <1>1, SizesAssumption
    <3> QED
      BY <1>1, <2>2, <3>1
  <2>4. \A n \in 1..acked : HeldNext(n)
    <3>1. LastId(messages) \in Nat
      BY <1>1 DEF FileInv, TypeOK, InMemory
    <3>2. \A n \in 1..acked : n \in 1..LastId(messages)
      BY <1>1, <3>1
    <3> QED
      BY <1>2, <3>2
  <2>5. Readable(path') => Readable(path) /\ LoadMessages(path') = LoadMessages(path)
    BY <1>1
  <2> QED
    BY <1>1, <1>2, <1>5, <2>2, <2>3, <2>4, <2>5, FailKeeps
<1> QED
  BY <1>4, <1>5 DEF Cleanup

LEMMA KillKeeps == FileInv /\ Kill => FileInv'
<1> SUFFICES ASSUME FileInv, Kill PROVE FileInv'
  OBVIOUS
<1>1. Exit /\ rotated' = rotated /\ rotated \in Seq(Seq(Chunk)) /\ path \in Seq(Chunk)
  BY DEF FileInv, TypeOK, Kill
<1>2. /\ path' \in Seq(Chunk)
      /\ Readable(path') => Readable(path) /\ LoadMessages(path') = LoadMessages(path)
      /\ \A n \in 1..acked : HeldNext(n)
  <2>1. CASE path' = path
    BY <1>1, <2>1 DEF FileInv, AckedOnDisk, HeldNext
  <2>2. CASE pc = "append" /\ path' = Append(path, [rec |-> Appended, st |-> "torn"])
    <3>1. op \in {"message", "prompt"} /\ path # <<>>
      BY <2>2 DEF FileInv, TypeOK, Op, UnderWay
    <3> QED
      BY <2>2, <3>1, WrittenInPart
  <2> QED
    BY <2>1, <2>2 DEF Kill
<1>3. Readable(path') => /\ Conversation(LoadMessages(path'))
                         /\ LastId(LoadMessages(path')) \in {acked, acked + 1}
  BY <1>2 DEF FileInv, Restorable
<1> QED
  BY <1>1, <1>2, <1>3, ExitKeeps

LEMMA ResumeKeeps == FileInv /\ Resume => FileInv'
<1> SUFFICES ASSUME FileInv, Resume PROVE FileInv'
  OBVIOUS
<1>1. /\ pc = "exited" /\ Readable(path) /\ path \in Seq(Chunk) /\ path # <<>>
      /\ messages' = LoadMessages(path) /\ prompts' = LoadPrompts(path)
      /\ acked' = LastId(messages') /\ op' = "persist" /\ pc' = "rotate" /\ lives' = lives + 1
      /\ path' = path /\ rotated' = rotated
  BY DEF FileInv, TypeOK, Resume, Readable
<1>2. messages' \in Seq(Record) /\ Conversation(messages') /\ acked' \in Nat
  <2>1. Conversation(messages')
    BY <1>1 DEF FileInv, Restorable
  <2>2. acked' \in Nat
    BY <1>1, <2>1, ConversationMore
  <2> QED
    BY <2>1, <2>2 DEF Conversation
<1>3. prompts' \in Seq(Record) /\ \A i \in 1..Len(prompts') : prompts'[i].kind = "prompt"
  <2>1. /\ prompts' \in Seq(Record)
        /\ \A j \in 1..Len(prompts') : \E i \in 1..Len(path) :
              prompts'[j] = path[i].rec /\ path[i].rec.kind \in {"prompt"}
    BY <1>1, RecordsType DEF LoadPrompts
  <2> QED
    BY <2>1
<1>4. TypeOK'
  BY <1>1, <1>2, <1>3 DEF FileInv, TypeOK, PC, Op
<1>5. InMemory'
  BY <1>1, <1>2, <1>3 DEF InMemory
<1>6. UnderWay'
  BY <1>1 DEF UnderWay
<1>7. Restorable'
  BY <1>1, <1>2 DEF Restorable
<1>8. AckedOnDisk'
  <2>1. \A n \in 1..acked' : Holds(path, n)
    BY <1>1, <1>2, RestoredIsHeld
  <2> QED
    BY <1>1, <2>1 DEF AckedOnDisk
<1> QED
  BY <1>4, <1>5, <1>6, <1>7, <1>8 DEF FileInv

LEMMA FileStep == FileInv /\ [Next]_vars => FileInv'
<1> SUFFICES ASSUME FileInv, [Next]_vars PROVE FileInv'
  OBVIOUS
<1>1. CASE PushMessage
  BY <1>1, PushMessageKeeps
<1>2. CASE PushPromptEntry
  BY <1>2, PushPromptEntryKeeps
<1>3. CASE Persist \/ CompactAndPersist
  BY <1>3, PersistKeeps
<1>4. CASE AppendContent
  BY <1>4, AppendContentKeeps
<1>5. CASE AppendNewline
  BY <1>5, AppendNewlineKeeps
<1>6. CASE Rotate
  BY <1>6, RotateKeeps
<1>7. CASE WriteAtomic
  BY <1>7, WriteAtomicKeeps
<1>8. CASE Cleanup
  BY <1>8, CleanupKeeps
<1>9. CASE Kill
  BY <1>9, KillKeeps
<1>10. CASE Resume
  BY <1>10, ResumeKeeps
<1>11. CASE UNCHANGED vars
  <2>1. TypeOK'
    BY <1>11 DEF FileInv, TypeOK, vars
  <2>2. InMemory'
    BY <1>11 DEF FileInv, InMemory, vars
  <2>3. UnderWay'
    <3>1. Appended' = Appended /\ Snapshot' = Snapshot
      BY <1>11 DEF Appended, Snapshot, vars
    <3> QED
      BY <1>11, <3>1 DEF FileInv, UnderWay, vars
  <2>4. Restorable'
    BY <1>11 DEF FileInv, Restorable, vars
  <2>5. AckedOnDisk'
    BY <1>11 DEF FileInv, AckedOnDisk, vars
  <2> QED
    BY <2>1, <2>2, <2>3, <2>4, <2>5 DEF FileInv
<1> QED
  BY <1>1, <1>2, <1>3, <1>4, <1>5, <1>6, <1>7, <1>8, <1>9, <1>10, <1>11 DEF Next

\* The invariant of the session file: whatever call fails and wherever the process dies,
\* the file, if it can be read, restores a conversation in order, the one in memory once
\* the call under way is through, and what was acknowledged is on disk.
THEOREM FileInvariant == Spec => []FileInv
<1> QED
  BY FileInit, FileStep, PTL DEF Spec

\* What push_message and a save acknowledged is on disk, in order; a file that can be read
\* restores the messages in memory; and rotations do not pile up (session.rs).
THEOREM SessionIsKept == Spec => []SessionKept
<1>1. FileInv => SessionKept
  <2> SUFFICES ASSUME FileInv PROVE SessionKept
    OBVIOUS
  <2>1. TypeOK /\ AckedOnDisk
    BY DEF FileInv
  <2>2. ReadableIsCurrent
    BY DEF FileInv, Restorable, ReadableIsCurrent
  <2>3. LoadsAcked
    BY DEF FileInv, Restorable, Conversation, LoadsAcked
  <2>4. RotatedBounded
    BY DEF FileInv, UnderWay, RotatedBounded
  <2> QED
    BY <2>1, <2>2, <2>3, <2>4 DEF SessionKept
<1> QED
  BY <1>1, FileInvariant, PTL

\* A save that returns leaves a file that restores messages and prompt history as they are
\* in memory, whatever earlier failures left in it (Session::save_to_path).
THEOREM SavesRepair == Spec => SaveRepairs
<1>1. FileInv /\ [Next]_vars => [op = "persist" /\ pc' = "idle" =>
          /\ Readable(path')
          /\ LoadMessages(path') = messages' /\ LoadPrompts(path') = prompts']_vars
  <2> SUFFICES ASSUME FileInv, Next, op = "persist", pc' = "idle"
               PROVE  /\ Readable(path')
                      /\ LoadMessages(path') = messages' /\ LoadPrompts(path') = prompts'
    OBVIOUS
  <2>1. Cleanup /\ CallReturns
    <3>1. ~CallFails
      BY DEF CallFails, Exit
    <3>2. ~(PushMessage \/ PushPromptEntry \/ Persist \/ CompactAndPersist \/ Kill \/ Resume)
      BY DEF PushMessage, PushPromptEntry, StartAppend, Persist, CompactAndPersist, Kill, Exit, Resume
    <3>3. ~(AppendContent \/ AppendNewline)
      BY DEF FileInv, UnderWay, AppendContent, AppendNewline
    <3>4. ~(Rotate \/ WriteAtomic)
      BY <3>1 DEF Rotate, WriteAtomic
    <3>5. Cleanup
      BY <3>2, <3>3, <3>4 DEF Next
    <3> QED
      BY <3>1, <3>5 DEF Cleanup
  <2>2. path' = Snapshot /\ messages' = messages /\ prompts' = prompts
    BY <2>1 DEF FileInv, UnderWay, Cleanup, CallReturns
  <2> QED
    BY <2>2, SnapshotHolds
<1> QED
  BY <1>1, FileInvariant, PTL DEF Spec, SaveRepairs
-----------------------------------------------------------------------------
(***************************************************************************)
(* The worker registry, for any workers and prompts.  A record is coherent *)
(* when what it says of the last prompt fits what was seen of the worker:  *)
(* a prompt in flight was not seen to arrive, and neither was one that is  *)
(* armed for replay.  No worker with a prompt in flight takes another.     *)
(***************************************************************************)
Coherent(k, w, seen) ==
    /\ k.replay_prompt # NoPrompt => w \notin seen
    /\ k.prompt_in_flight => /\ w \notin seen /\ k.replay_prompt = NoPrompt
                             /\ k.status # "ReadyForPrompt"
    /\ k.status = "TrustRequired" => k.last_error = "TrustGate"
    /\ k.status = "Failed" => k.last_error \in {"PromptDelivery", "Provider"}

WorkersInv ==
    /\ WorkersTypeOK /\ FileTellsReadiness
    /\ \A w \in DOMAIN workers : Coherent(workers[w], w, confirmed)

\* One record changes to k; the file says what readiness it had at the last event, e, or
\* readiness did not change.
LEMMA RecordChanges ==
    ASSUME WorkersInv, NEW w \in DOMAIN workers, NEW k \in WorkerRecord, NEW e \in WorkerRecord,
           WorkerBecomes(w, k), k.status = "ReadyForPrompt" <=> e.status = "ReadyForPrompt",
           \/ EmitStateFile(w, e)
           \/ /\ UNCHANGED state_file
              /\ k.status = "ReadyForPrompt" <=> workers[w].status = "ReadyForPrompt",
           confirmed' \subseteq DOMAIN workers,
           \A v \in Worker \ {w} : v \in confirmed' <=> v \in confirmed,
           Coherent(k, w, confirmed')
    PROVE  WorkersInv'
<1>1. /\ DOMAIN workers' = DOMAIN workers /\ workers'[w] = k
      /\ \A v \in DOMAIN workers \ {w} : workers'[v] = workers[v]
      /\ DOMAIN workers \subseteq Worker /\ w \in Worker
      /\ \A v \in DOMAIN workers : workers[v] \in WorkerRecord
  BY DEF WorkersInv, WorkersTypeOK, WorkerBecomes
<1>2. workers' \in [DOMAIN workers' -> WorkerRecord]
  BY <1>1 DEF WorkersInv, WorkersTypeOK, WorkerBecomes
<1>3. e.status \in Status /\ e.trust_gate_cleared \in BOOLEAN /\ e.prompt_in_flight \in BOOLEAN
  BY DEF WorkerRecord
<1>4. WorkersTypeOK'
  BY <1>1, <1>2, <1>3
     DEF WorkersInv, WorkersTypeOK, EmitStateFile, WorkerSnapshot, Outdated
<1>5. FileTellsReadiness'
  <2> SUFFICES ASSUME NEW v \in DOMAIN workers, state_file'.worker = v
               PROVE  state_file'.status = "ReadyForPrompt"
                         <=> workers'[v].status = "ReadyForPrompt"
    BY <1>1 DEF FileTellsReadiness
  <2>1. CASE /\ UNCHANGED state_file
             /\ k.status = "ReadyForPrompt" <=> workers[w].status = "ReadyForPrompt"
    BY <1>1, <2>1 DEF WorkersInv, FileTellsReadiness
  <2>2. CASE state_file' = WorkerSnapshot(w, e)
    BY <1>1, <2>2 DEF WorkerSnapshot
  <2>3. CASE state_file' = Outdated
    BY <1>1, <2>3, NoPromptAssumption DEF Outdated
  <2> QED
    BY <2>1, <2>2, <2>3 DEF EmitStateFile
<1>6. \A v \in DOMAIN workers' : Coherent(workers'[v], v, confirmed')
  <2> TAKE v \in DOMAIN workers'
  <2>1. CASE v = w
    BY <1>1, <2>1
  <2>2. CASE v # w
    BY <1>1, <2>2 DEF WorkersInv, Coherent
  <2> QED
    BY <2>1, <2>2
<1> QED
  BY <1>4, <1>5, <1>6 DEF WorkersInv, Coherent

\* Passing the gate keeps a record coherent and leaves readiness to an event.
LEMMA GatePassed ==
    ASSUME NEW k \in WorkerRecord, NEW w, NEW seen, Coherent(k, w, seen), NEW trust \in BOOLEAN
    PROVE  /\ PassGate(k, trust) \in WorkerRecord /\ Coherent(PassGate(k, trust), w, seen)
           /\ PassGate(k, trust).prompt_in_flight = k.prompt_in_flight
           /\ ~Gated(k, trust) => PassGate(k, trust) = k
BY ZenonT(60) DEF PassGate, Gated, WorkerRecord, Coherent, Status, FailureKind

LEMMA ProgressKeeps ==
    ASSUME WorkersInv, NEW w \in DOMAIN workers, ObserveProgress(w)
    PROVE  WorkersInv'
<1>1. PICK trust \in TrustCue(workers[w]), running \in BOOLEAN, ready \in BOOLEAN :
       LET k == PassGate(workers[w], trust)
           shown == ShowWork(k, running)
           becomesReady == ready /\ shown.status # "ReadyForPrompt"
       IN  /\ WorkerBecomes(w, IF becomesReady THEN BecomeReady(shown) ELSE shown)
           /\ CASE becomesReady -> EmitStateFile(w, BecomeReady(shown))
                [] ~becomesReady /\ Gated(workers[w], trust) -> EmitStateFile(w, k)
                [] OTHER -> UNCHANGED state_file
           /\ confirmed' = IF running /\ k.prompt_in_flight
                           THEN confirmed \cup {w} ELSE confirmed
  BY DEF ObserveProgress
<1> DEFINE k == PassGate(workers[w], trust)
           shown == ShowWork(k, running)
<1>2. /\ workers[w] \in WorkerRecord /\ Coherent(workers[w], w, confirmed)
      /\ w \in Worker /\ confirmed \subseteq DOMAIN workers /\ trust \in BOOLEAN
  BY DEF WorkersInv, WorkersTypeOK, TrustCue
<1>3. /\ k \in WorkerRecord /\ Coherent(k, w, confirmed)
      /\ ~Gated(workers[w], trust) => k = workers[w]
  BY <1>2, GatePassed
<1> HIDE DEF k
<1>4. /\ confirmed' \subseteq DOMAIN workers
      /\ \A v \in Worker \ {w} : v \in confirmed' <=> v \in confirmed
      /\ w \in confirmed' <=> w \in confirmed \/ (running /\ k.prompt_in_flight)
  BY <1>1, <1>2 DEF k
<1>5. /\ shown \in WorkerRecord /\ Coherent(shown, w, confirmed')
      /\ shown.status = "ReadyForPrompt" <=> k.status = "ReadyForPrompt"
  BY <1>3, <1>4, ZenonT(60) DEF ShowWork, WorkerRecord, Coherent, Status, FailureKind
<1> HIDE DEF shown
<1>6. BecomeReady(shown) \in WorkerRecord /\ Coherent(BecomeReady(shown), w, confirmed')
  BY <1>5 DEF BecomeReady, WorkerRecord, Coherent, Status, FailureKind
<1>7. CASE ready /\ shown.status # "ReadyForPrompt"
  <2>1. WorkerBecomes(w, BecomeReady(shown)) /\ EmitStateFile(w, BecomeReady(shown))
    BY <1>1, <1>7 DEF shown, k
  <2> QED
    BY <1>4, <1>6, <2>1, RecordChanges
<1>8. CASE ~(ready /\ shown.status # "ReadyForPrompt") /\ Gated(workers[w], trust)
  <2>1. WorkerBecomes(w, shown) /\ EmitStateFile(w, k)
    BY <1>1, <1>8 DEF shown, k
  <2> QED
    BY <1>2, <1>3, <1>4, <1>5, <2>1, RecordChanges
<1>9. CASE ~(ready /\ shown.status # "ReadyForPrompt") /\ ~Gated(workers[w], trust)
  <2>1. WorkerBecomes(w, shown) /\ UNCHANGED state_file
    BY <1>1, <1>9 DEF shown, k
  <2> QED
    BY <1>3, <1>4, <1>5, <1>9, <2>1, RecordChanges
<1> QED
  BY <1>7, <1>8, <1>9

LEMMA WorkerStep ==
    ASSUME WorkersInv, NEW w \in DOMAIN workers,
           ObserveScreen(w) \/ ResolveTrust(w) \/ SendPrompt(w) \/ Restart(w) \/ Terminate(w)
              \/ ObserveCompletion(w)
    PROVE  WorkersInv'
<1> DEFINE k == workers[w]
<1>1. /\ k \in WorkerRecord /\ Coherent(k, w, confirmed)
      /\ w \in Worker /\ confirmed \subseteq DOMAIN workers
  BY DEF WorkersInv, WorkersTypeOK
<1> HIDE DEF k
<1>2. ASSUME NEW e \in WorkerRecord, BecomesWithEvent(w, e), Coherent(e, w, confirmed'),
             confirmed' \subseteq confirmed, confirmed \ {w} \subseteq confirmed'
      PROVE  WorkersInv'
  BY <1>1, <1>2, RecordChanges DEF BecomesWithEvent
<1>3. CASE ObserveTrustGate(w)
  <2> DEFINE e == [k EXCEPT !.status = "TrustRequired", !.last_error = "TrustGate"]
  <2>1. BecomesWithEvent(w, e) /\ UNCHANGED confirmed
    BY <1>3 DEF ObserveTrustGate, k
  <2>2. e \in WorkerRecord /\ Coherent(e, w, confirmed)
    BY <1>1 DEF WorkerRecord, Coherent, Status, FailureKind
  <2> HIDE DEF e
  <2> QED
    BY <1>2, <2>1, <2>2
<1>4. CASE ObserveMisdelivery(w)
  <2>1. PICK trust \in TrustCue(workers[w]) :
       LET p == PassGate(workers[w], trust)
           lost == [p EXCEPT !.last_error = "PromptDelivery", !.prompt_in_flight = FALSE]
       IN  /\ p.prompt_in_flight /\ p.last_prompt # NoPrompt
           /\ BecomesWithEvent(w,
                IF p.auto_recover
                THEN [lost EXCEPT !.status = "ReadyForPrompt", !.replay_prompt = p.last_prompt]
                ELSE [lost EXCEPT !.status = "Failed"])
           /\ UNCHANGED confirmed
    BY <1>4 DEF ObserveMisdelivery
  <2> DEFINE p == PassGate(k, trust)
             lost == [p EXCEPT !.last_error = "PromptDelivery", !.prompt_in_flight = FALSE]
             e == IF p.auto_recover
                  THEN [lost EXCEPT !.status = "ReadyForPrompt", !.replay_prompt = p.last_prompt]
                  ELSE [lost EXCEPT !.status = "Failed"]
  <2>2. p.prompt_in_flight /\ BecomesWithEvent(w, e) /\ UNCHANGED confirmed
    BY <2>1 DEF k
  <2>3. p \in WorkerRecord /\ Coherent(p, w, confirmed)
    <3>1. trust \in BOOLEAN
      BY DEF TrustCue
    <3> QED
      BY <1>1, <3>1, GatePassed
  <2> HIDE DEF p
  <2>4. e \in WorkerRecord /\ Coherent(e, w, confirmed)
    BY <2>2, <2>3 DEF WorkerRecord, Coherent, Status, FailureKind
  <2> HIDE DEF e
  <2> QED
    BY <1>2, <2>2, <2>4
<1>5. CASE ObserveProgress(w)
  BY <1>5, ProgressKeeps
<1>6. CASE ResolveTrust(w)
  <2> DEFINE e == [k EXCEPT !.status = "Spawning", !.trust_gate_cleared = TRUE,
                            !.last_error = "None"]
  <2>1. BecomesWithEvent(w, e) /\ UNCHANGED confirmed
    BY <1>6 DEF ResolveTrust, k
  <2>2. e \in WorkerRecord /\ Coherent(e, w, confirmed)
    BY <1>1 DEF WorkerRecord, Coherent, Status, FailureKind
  <2> HIDE DEF e
  <2> QED
    BY <1>2, <2>1, <2>2
<1>7. CASE SendPrompt(w)
  <2>1. PICK p \in Prompt \cup ({workers[w].replay_prompt} \ {NoPrompt}) :
         BecomesWithEvent(w,
            [workers[w] EXCEPT !.attempts = @ + 1, !.prompt_in_flight = TRUE, !.last_prompt = p,
                      !.replay_prompt = NoPrompt, !.last_error = "None", !.status = "Running"])
    BY <1>7 DEF SendPrompt
  <2> DEFINE e == [k EXCEPT !.attempts = @ + 1, !.prompt_in_flight = TRUE, !.last_prompt = p,
                      !.replay_prompt = NoPrompt, !.last_error = "None", !.status = "Running"]
  <2>2. BecomesWithEvent(w, e) /\ confirmed' = confirmed \ {w}
    BY <1>7, <2>1 DEF SendPrompt, k
  <2>3. p \in Prompt
    BY <1>1 DEF WorkerRecord, k
  <2>4. e \in WorkerRecord
    <3>1. k.attempts + 1 \in Nat
      BY <1>1 DEF WorkerRecord
    <3> QED
      BY <1>1, <2>3, <3>1 DEF WorkerRecord, Status, FailureKind
  <2>5. Coherent(e, w, confirmed')
    BY <1>1, <2>2 DEF WorkerRecord, Coherent
  <2> HIDE DEF e
  <2> QED
    BY <1>2, <2>2, <2>4, <2>5
<1>8. CASE Restart(w)
  <2> DEFINE e == [k EXCEPT !.status = "Spawning", !.trust_gate_cleared = FALSE,
                             !.last_prompt = NoPrompt, !.replay_prompt = NoPrompt,
                             !.last_error = "None", !.attempts = 0,
                             !.prompt_in_flight = FALSE]
  <2>1. BecomesWithEvent(w, e) /\ confirmed' = confirmed \ {w}
    BY <1>8 DEF Restart, k
  <2>2. e \in WorkerRecord /\ Coherent(e, w, confirmed')
    BY <1>1 DEF WorkerRecord, Coherent, Status, FailureKind
  <2> HIDE DEF e
  <2> QED
    BY <1>2, <2>1, <2>2
<1>9. CASE Terminate(w)
  <2> DEFINE e == [k EXCEPT !.status = "Finished", !.prompt_in_flight = FALSE]
  <2>1. BecomesWithEvent(w, e) /\ UNCHANGED confirmed
    BY <1>9 DEF Terminate, k
  <2>2. e \in WorkerRecord /\ Coherent(e, w, confirmed)
    BY <1>1 DEF WorkerRecord, Coherent, Status, FailureKind
  <2> HIDE DEF e
  <2> QED
    BY <1>2, <2>1, <2>2
<1>10. CASE ObserveCompletion(w)
  <2>1. PICK failure \in BOOLEAN :
         BecomesWithEvent(w,
            [workers[w] EXCEPT !.status = IF failure THEN "Failed" ELSE "Finished",
                               !.last_error = IF failure THEN "Provider" ELSE "None",
                               !.prompt_in_flight = FALSE])
    BY <1>10 DEF ObserveCompletion
  <2> DEFINE e == [k EXCEPT !.status = IF failure THEN "Failed" ELSE "Finished",
                               !.last_error = IF failure THEN "Provider" ELSE "None",
                               !.prompt_in_flight = FALSE]
  <2>2. BecomesWithEvent(w, e) /\ UNCHANGED confirmed
    BY <1>10, <2>1 DEF ObserveCompletion, k
  <2>3. e \in WorkerRecord /\ Coherent(e, w, confirmed)
    BY <1>1 DEF WorkerRecord, Coherent, Status, FailureKind
  <2> HIDE DEF e
  <2> QED
    BY <1>2, <2>2, <2>3
<1> QED
  BY <1>3, <1>4, <1>5, <1>6, <1>7, <1>8, <1>9, <1>10 DEF ObserveScreen

LEMMA CreateStep ==
    ASSUME WorkersInv, NEW w \in Worker, Create(w)
    PROVE  WorkersInv'
<1>1. PICK trust \in BOOLEAN, recover \in BOOLEAN :
         LET k == [status |-> "Spawning", auto_trust |-> trust,
                   trust_gate_cleared |-> FALSE, auto_recover |-> recover,
                   attempts |-> 0, prompt_in_flight |-> FALSE,
                   last_prompt |-> NoPrompt, replay_prompt |-> NoPrompt,
                   last_error |-> "None"]
         IN  /\ workers' = [x \in DOMAIN workers \cup {w} |-> IF x = w THEN k ELSE workers[x]]
             /\ EmitStateFile(w, k)
  BY DEF Create
<1> DEFINE k == [status |-> "Spawning", auto_trust |-> trust,
                 trust_gate_cleared |-> FALSE, auto_recover |-> recover,
                 attempts |-> 0, prompt_in_flight |-> FALSE,
                 last_prompt |-> NoPrompt, replay_prompt |-> NoPrompt,
                 last_error |-> "None"]
<1>2. k \in WorkerRecord /\ Coherent(k, w, {}) /\ k.status # "ReadyForPrompt"
  BY DEF WorkerRecord, Status, FailureKind, Coherent
<1>3. /\ workers' = [x \in DOMAIN workers \cup {w} |-> IF x = w THEN k ELSE workers[x]]
      /\ EmitStateFile(w, k) /\ w \notin DOMAIN workers /\ confirmed' = confirmed
  BY <1>1 DEF Create
<1> HIDE DEF k
<1>4. /\ DOMAIN workers \subseteq Worker /\ confirmed \subseteq DOMAIN workers
      /\ \A v \in DOMAIN workers : workers[v] \in WorkerRecord
  BY DEF WorkersInv, WorkersTypeOK
<1>5. /\ DOMAIN workers' = DOMAIN workers \cup {w} /\ workers'[w] = k
      /\ \A v \in DOMAIN workers : workers'[v] = workers[v]
  BY <1>3
<1>6. k.status \in Status /\ k.trust_gate_cleared \in BOOLEAN /\ k.prompt_in_flight \in BOOLEAN
  BY <1>2 DEF WorkerRecord
<1>7. WorkersTypeOK'
  <2>1. workers' \in [DOMAIN workers' -> WorkerRecord]
    BY <1>2, <1>3, <1>4
  <2> QED
    BY <1>3, <1>4, <1>5, <1>6, <2>1 DEF WorkersTypeOK, EmitStateFile, WorkerSnapshot, Outdated
<1>8. FileTellsReadiness'
  <2> SUFFICES ASSUME NEW v \in DOMAIN workers', state_file'.worker = v
               PROVE  state_file'.status = "ReadyForPrompt"
                         <=> workers'[v].status = "ReadyForPrompt"
    BY DEF FileTellsReadiness
  <2>1. CASE state_file' = WorkerSnapshot(w, k)
    BY <1>5, <2>1 DEF WorkerSnapshot
  <2>2. CASE state_file' = Outdated
    BY <1>4, <1>5, <2>2, NoPromptAssumption DEF Outdated
  <2> QED
    BY <1>3, <2>1, <2>2 DEF EmitStateFile
<1>9. \A v \in DOMAIN workers' : Coherent(workers'[v], v, confirmed')
  <2>1. w \notin confirmed
    BY <1>3, <1>4
  <2>2. Coherent(workers'[w], w, confirmed')
    BY <1>2, <1>3, <1>5, <2>1 DEF Coherent
  <2> QED
    BY <1>3, <1>5, <2>2 DEF WorkersInv
<1> QED
  BY <1>7, <1>8, <1>9 DEF WorkersInv, Coherent

\* Records of workers are coherent, and so is what the state file says of one.
THEOREM WorkersInvariant == WorkersSpec => []WorkersInv
<1>1. WorkersInit => WorkersInv
  BY DEF WorkersInit, WorkersInv, WorkersTypeOK, FileTellsReadiness
<1>2. WorkersInv /\ [WorkersNext]_workerVars => WorkersInv'
  <2> SUFFICES ASSUME WorkersInv, [WorkersNext]_workerVars
               PROVE  WorkersInv'
    OBVIOUS
  <2>1. CASE UNCHANGED workerVars
    BY <2>1 DEF workerVars, WorkersInv, WorkersTypeOK, FileTellsReadiness, Coherent
  <2>2. CASE WorkersNext
    BY <2>2, CreateStep, WorkerStep DEF WorkersNext
  <2> QED
    BY <2>1, <2>2
<1> QED
  BY <1>1, <1>2, PTL DEF WorkersSpec

\* What the registry and the state file tell of a worker is so, whatever is seen on its
\* screen, sent to it, or lost on the way to the file.
THEOREM RegistryTellsTruth == WorkersSpec => []WorkersTold
<1>1. WorkersInv => WorkersTold
  BY DEF WorkersInv, WorkersTold, Coherent, ReplayUnconfirmed, BlockedHasReason
<1> QED
  BY <1>1, WorkersInvariant, PTL

-----------------------------------------------------------------------------
(* The plugins.  Versions are published only while no command runs, so     *)
(* that within an operation the sources stand still: a copy of a directory *)
(* becomes the version of the source or is no version at all, and a record *)
(* that has the source's version is about such a copy.                     *)

PlainKind == {"install", "update", "uninstall"}
OpKind == PlainKind \cup {"none", "enable", "disable", "build"}
AtDir == {"remove", "removing", "copy", "copying"}
OpPC == AtDir \cup {"none", "load", "store", "storing", "enable", "enabling", "sync", "syncing",
                    "flushing", "scan", "pruning", "done"}
Versions == 0..MaxVersion
Copy == {None, Partial, Broken}
Dirs == Broken..(MaxVersion + MaxVersion)
Registry == [Plugin -> Versions]
Choices == [Plugin -> {"unset", "on", "off"}]
Operation == [kind : OpKind, p : Plugin \cup {"none"}, pc : OpPC, t : Plugin \cup {"none"}, v : Versions,
              reg : Registry, set : Choices, todo : SUBSET Bundled,
              changed : BOOLEAN, clash : BOOLEAN, ok : BOOLEAN, rival : BOOLEAN]
Runtime == [on : BOOLEAN, set : SUBSET Plugin, ver : [Plugin -> Int], active : BOOLEAN]

PluginTypes ==
    /\ dir \in [Plugin -> Dirs] /\ record \in Registry /\ setting \in Choices
    /\ source \in Registry /\ doing \in [Proc -> Operation]
    /\ promised \in Registry
RuntimeTypes ==
    /\ phase \in {"off", "build", "built", "idle", "command", "reload", "leaving"}
    /\ live \in Runtime /\ next \in Runtime /\ up \in [Plugin -> Int]
    /\ alone \in BOOLEAN /\ excused \in BOOLEAN

\* A record of the source's version is about a copy of it, whole or not, or of nothing.
CopyAt(p) == Copy \cup {source[p], Half(source[p])}
SoundAt(reg, p) == source[p] # 0 => /\ reg[p] <= source[p]
                                    /\ reg[p] = source[p] => dir[p] \in CopyAt(p)
Sound(reg) == \A p \in Plugin : SoundAt(reg, p)

\* What an operation is at.
Working(o) ==
    /\ o.kind \in PlainKind => o.p \in External \cup {"none"}
    /\ o.pc = "load" => o.kind \in PlainKind /\ o.p \in External /\ ~o.clash
    /\ o.pc \in AtDir => o.t \in Plugin /\ o.v = source[o.t]
    /\ o.pc \in AtDir /\ o.t \in Bundled => o.kind # "uninstall"
    /\ o.pc \in {"store", "storing"} => o.t \in External
    /\ o.t \in External => /\ o.kind \in PlainKind /\ o.p = o.t /\ o.pc \in AtDir \cup {"store", "storing"}
                           /\ o.kind # "uninstall" => o.v # 0 /\ o.v = source[o.t]
    /\ o.pc = "store" /\ o.kind # "uninstall" => o.reg[o.t] = o.v
    /\ o.pc \in {"sync", "syncing"} => o.kind # "uninstall"
    /\ o.kind = "build" => o.pc \notin {"load", "store", "storing", "enable", "enabling"} /\ o.t \notin External

\* Past its load, a command may have changed the directory of the plugin it names.
Past(o, p) == o.kind \in PlainKind /\ o.p = p /\ o.pc # "load"
RivalsKnown ==
    \A c, e \in Proc : \A p \in External :
        c # e /\ Past(doing[c], p) /\ Past(doing[e], p) => doing[c].rival /\ doing[e].rival
\* Alone with its plugin, a command has it copied once it is past its directory.
CopiedBy(o) ==
    o.kind \in {"install", "update"} /\ o.p \in External /\ ~o.rival =>
        /\ o.t = o.p => ~o.clash
        /\ (/\ o.pc # "load" /\ (o.pc = "done" => o.ok)
            /\ o.t = o.p => o.pc \in {"store", "storing"}) => dir[o.p] = source[o.p]
PromisesKept ==
    \A p \in External : promised[p] # 0 =>
        dir[p] = promised[p] /\ \A c \in Proc : ~Past(doing[c], p)

PluginInv ==
    /\ PluginTypes
    /\ Sound(record) /\ \A c \in Proc : Sound(doing[c].reg) /\ Working(doing[c]) /\ CopiedBy(doing[c])
    /\ RivalsKnown /\ PromisesKept
-----------------------------------------------------------------------------
(* What a record of a bundled plugin is worth.  Where it has the version   *)
(* that is shipped, the copy is whole, or somebody is at work in it, or a  *)
(* process left a part of it while another one was at work.  A process     *)
(* that dies alone leaves a part, too, but no record of that version.      *)

Inside == {"removing", "copy", "copying"}
Settled(b) == dir[b] = source[b] \/ b \in hurt \/ \E c \in Proc : doing[c].t = b /\ doing[c].pc \in Inside
Trusted(reg) == \A b \in Bundled : source[b] # 0 /\ reg[b] = source[b] => Settled(b)
SharedInv ==
    \A c \in Proc : /\ doing[c] # NoOp /\ c \notin shared => \A e \in Proc \ {c} : doing[e] = NoOp
                    /\ doing[c].clash => c \in shared
Visits(o) == o.pc \in AtDir /\ o.t \in Bundled
Lone(c) ==
    LET o == doing[c]
    IN  /\ Visits(o) => o.t \notin o.todo
        /\ c \notin shared =>
              /\ o.pc = "syncing" \/ Visits(o) => \A b \in o.todo : record[b] \in {0, o.reg[b]}
              /\ Visits(o) /\ source[o.t] # 0 => o.t \in hurt \/ record[o.t] # source[o.t]
TrustInv == SharedInv /\ Trusted(record) /\ \A c \in Proc : Trusted(doing[c].reg) /\ Lone(c)
-----------------------------------------------------------------------------
(* The REPL's runtime.  Alone on the disk, its build leaves every bundled  *)
(* plugin as it is shipped, or in half where it was hurt; its plugins are  *)
(* up for the runtimes it holds.                                           *)

Shipped(b) == source[b] # 0 => dir[b] = source[b] \/ (b \in hurt /\ dir[b] = Half(source[b]))
Synced(o) ==
    /\ ~(o.pc = "done" /\ ~o.ok) => o.set = setting
    /\ o.pc \in AtDir => o.t \in Bundled /\ ~o.clash
    /\ o.pc \in AtDir \cup {"syncing"} =>
         \A b \in Bundled \ o.todo : (o.pc \in AtDir /\ o.t = b) \/ (Shipped(b) /\ (source[b] # 0 => o.reg[b] = source[b]))
    /\ o.pc \in {"flushing", "scan", "pruning"} \/ (o.pc = "done" /\ o.ok) => \A b \in Bundled : Shipped(b)
Current(r) == /\ \A b \in Bundled : Shipped(b)
              /\ r.set = Enabled(setting) /\ \A p \in r.set : r.ver[p] = dir[p]

Acting ==
    /\ phase \notin {"build", "command"} => doing[Repl] = NoOp
    /\ phase = "build" <=> doing[Repl].kind = "build"
    /\ \A c \in Proc : doing[c].kind = "build" => c = Repl
AloneInv ==
    alone => /\ \A c \in Proc : c # Repl => doing[c] = NoOp
             /\ phase = "build" => Synced(doing[Repl])
             /\ phase = "built" => Current(next)
             /\ phase = "idle" => Current(live)

Runs(r, p) == IF r.active /\ p \in r.set THEN 1 ELSE 0
HeldInv ==
    /\ ~live.on => live = NoRuntime
    /\ ~next.on => next = NoRuntime
    /\ phase = "off" => ~live.on
    /\ phase \notin {"built", "leaving"} => ~next.on
    /\ phase = "built" => next.active
    /\ phase = "idle" => live.active
    /\ ~excused => \A p \in Plugin : up[p] = Runs(live, p) + Runs(next, p)

RuntimeInv == RuntimeTypes /\ Acting /\ AloneInv /\ HeldInv
PluginsInv == PluginInv /\ TrustInv /\ RuntimeInv
-----------------------------------------------------------------------------
\* What c's step does: only c's operation changes, but for whom it disturbs in a
\* directory, and only the directory it works on.
MovesTo(c, n) ==
    /\ n \in Operation /\ doing' \in [Proc -> Operation] /\ doing'[c] = n
    /\ \A e \in Proc \ {c} : \/ doing'[e] = doing[e]
                             \/ /\ doing'[e] = [doing[e] EXCEPT !.clash = TRUE]
                                /\ doing[e].pc \in {"removing", "copying"} /\ doing[e].t = doing[c].t
    /\ dir' \in [Plugin -> Dirs]
    /\ \A p \in Plugin : dir'[p] # dir[p] =>
          p = doing[c].t /\ doing[c].pc \in AtDir /\ (source[p] # 0 /\ dir[p] \in CopyAt(p) => dir'[p] \in CopyAt(p))
    /\ setting' \in Choices /\ record' \in Registry /\ source' = source

LEMMA SoundStays ==
    ASSUME NEW c \in Proc, NEW n, MovesTo(c, n), NEW reg \in Registry, Sound(reg)
    PROVE  Sound(reg)'
<1> SUFFICES ASSUME NEW p \in Plugin
             PROVE  SoundAt(reg, p)'
  BY DEF Sound
<1>1. SoundAt(reg, p)
  BY DEF Sound
<1>2. source' = source /\ (source[p] # 0 /\ dir[p] \in CopyAt(p) => dir'[p] \in CopyAt(p))
  BY DEF MovesTo
<1>3. CopyAt(p)' = CopyAt(p)
  BY <1>2 DEF CopyAt
<1> QED
  BY <1>1, <1>2, <1>3 DEF SoundAt

\* What a removal or a copy leaves is a directory, and of the version copied.
LEMMA PartTypes ==
    /\ \A d \in Dirs : Remains(d) \subseteq Dirs
    /\ \A v \in Versions : Unfinished(v) \cup {None, v} \subseteq Dirs
BY PluginBounds DEF Remains, Shows, Unfinished, Half, Dirs, Versions, None, Partial, Broken

LEMMA PartKept ==
    ASSUME NEW p \in Plugin, source \in Registry, source[p] # 0
    PROVE  /\ \A d \in CopyAt(p) : Remains(d) \subseteq CopyAt(p)
           /\ Unfinished(source[p]) \cup {None, source[p]} \subseteq CopyAt(p)
BY PluginBounds DEF Remains, Shows, Unfinished, Half, CopyAt, Copy, Registry, Versions, None, Partial, Broken

LEMMA MoveKeeps ==
    ASSUME PluginInv, NEW c \in Proc, NEW n, MovesTo(c, n), promised' = promised,
           Sound(record)', Sound(n.reg)', Working(n)', CopiedBy(n)',
           \A p \in External : Past(n, p) => Past(doing[c], p) /\ n.rival = doing[c].rival
    PROVE  PluginInv'
<1>t. PluginTypes'
  BY DEF MovesTo, PluginInv, PluginTypes
<1>o. /\ doing \in [Proc -> Operation] /\ doing' \in [Proc -> Operation] /\ doing'[c] = n
      /\ source' = source /\ promised' = promised
  BY DEF MovesTo, PluginInv, PluginTypes
<1>w. \A e \in Proc : Working(doing[e])
  BY DEF PluginInv
<1>s. \A e \in Proc \ {c} : /\ doing'[e].kind = doing[e].kind /\ doing'[e].p = doing[e].p
                            /\ doing'[e].pc = doing[e].pc /\ doing'[e].t = doing[e].t
                            /\ doing'[e].v = doing[e].v /\ doing'[e].reg = doing[e].reg
                            /\ doing'[e].ok = doing[e].ok /\ doing'[e].rival = doing[e].rival
                            /\ doing'[e].clash # doing[e].clash =>
                                  doing[e].t = doing[c].t /\ doing[e].pc \in {"removing", "copying"}
  <2> TAKE e \in Proc \ {c}
  <2>1. doing[e] \in Operation
    BY <1>o
  <2>2. CASE doing'[e] = doing[e]
    BY <2>2
  <2>3. CASE doing'[e] = [doing[e] EXCEPT !.clash = TRUE] /\ doing[e].t = doing[c].t /\ doing[e].pc \in {"removing", "copying"}
    BY <2>1, <2>3 DEF Operation
  <2> QED
    BY <2>2, <2>3 DEF MovesTo
<1>d. \A p \in External : dir'[p] # dir[p] => p = doing[c].t /\ Past(doing[c], p)
  BY <1>w DEF MovesTo, Working, Past, Plugin, AtDir, PlainKind
<1>1. \A e \in Proc : Sound(doing[e].reg)'
  <2> TAKE e \in Proc
  <2>1. CASE e = c
    BY <2>1, <1>o DEF Sound, SoundAt, CopyAt
  <2>2. CASE e # c
    <3>1. doing[e].reg \in Registry
      BY <1>o DEF Operation
    <3>2. Sound(doing[e].reg)
      BY DEF PluginInv
    <3>3. PICK r \in Registry : r = doing[e].reg
      BY <3>1
    <3>4. Sound(r)'
      BY <3>2, <3>3, SoundStays
    <3>5. doing'[e].reg = r
      BY <2>2, <3>3, <1>s
    <3> QED
      BY <3>4, <3>5 DEF Sound, SoundAt, CopyAt
  <2> QED
    BY <2>1, <2>2
<1>2. \A e \in Proc : Working(doing[e])'
  <2> TAKE e \in Proc
  <2>1. CASE e = c
    BY <2>1, <1>o DEF Working
  <2>2. CASE e # c
    BY <2>2, <1>s, <1>w, <1>o DEF Working
  <2> QED
    BY <2>1, <2>2
<1>3. \A e \in Proc : CopiedBy(doing[e])'
  <2> TAKE e \in Proc
  <2>1. CASE e = c
    BY <2>1, <1>o DEF CopiedBy
  <2>2. CASE e # c
    <3>1. CopiedBy(doing[e]) /\ Working(doing[e])
      BY DEF PluginInv
    <3>2. SUFFICES ASSUME doing[e].kind \in {"install", "update"}, doing[e].p \in External, ~doing[e].rival
                   PROVE  CopiedBy(doing[e])'
      BY <2>2, <1>s DEF CopiedBy
    <3>3. CASE doing[e].pc = "load"
      BY <3>1, <3>2, <3>3, <2>2, <1>s DEF CopiedBy, Working, AtDir
    <3>4. CASE doing[e].pc # "load"
      <4>1. Past(doing[e], doing[e].p)
        BY <3>2, <3>4 DEF Past, PlainKind
      <4>2. ~Past(doing[c], doing[e].p)
        BY <4>1, <3>2, <2>2 DEF PluginInv, RivalsKnown
      <4>3. dir'[doing[e].p] = dir[doing[e].p]
        BY <4>2, <1>d, <3>2
      <4>4. doing[e].t = doing[e].p => doing[c].t # doing[e].t
        BY <4>2, <3>2, <1>w DEF Working, Past, PlainKind, AtDir
      <4> QED
        BY <3>1, <3>2, <4>3, <4>4, <2>2, <1>s, <1>o DEF CopiedBy
    <3> QED
      BY <3>3, <3>4
  <2> QED
    BY <2>1, <2>2
<1>4. RivalsKnown'
  <2> SUFFICES ASSUME NEW e \in Proc, NEW f \in Proc, NEW p \in External, e # f,
                      Past(doing'[e], p), Past(doing'[f], p)
               PROVE  doing'[e].rival /\ doing'[f].rival
    BY DEF RivalsKnown, Past
  <2>1. \A g \in Proc : Past(doing'[g], p) => Past(doing[g], p) /\ doing'[g].rival = doing[g].rival
    <3> TAKE g \in Proc
    <3>1. CASE g = c
      BY <3>1, <1>o
    <3>2. CASE g # c
      BY <3>2, <1>s DEF Past
    <3> QED
      BY <3>1, <3>2
  <2> QED
    BY <2>1 DEF PluginInv, RivalsKnown
<1>5. PromisesKept'
  <2> SUFFICES ASSUME NEW p \in External, promised[p] # 0
               PROVE  dir'[p] = promised[p] /\ \A e \in Proc : ~Past(doing'[e], p)
    BY <1>o, Zenon DEF PromisesKept, Past
  <2>1. dir[p] = promised[p] /\ \A e \in Proc : ~Past(doing[e], p)
    BY DEF PluginInv, PromisesKept
  <2>2. \A e \in Proc : ~Past(doing'[e], p)
    <3> TAKE e \in Proc
    <3>1. CASE e = c
      BY <3>1, <1>o, <2>1
    <3>2. CASE e # c
      BY <3>2, <1>s, <2>1 DEF Past
    <3> QED
      BY <3>1, <3>2
  <2> QED
    BY <2>1, <2>2, <1>d
<1> QED
  BY <1>t, <1>1, <1>2, <1>3, <1>4, <1>5 DEF PluginInv

KindsStay == \A e \in Proc : /\ doing'[e].kind = doing[e].kind
                             /\ doing[e] = NoOp => doing'[e] = NoOp

LEMMA MoveFrames ==
    ASSUME PluginInv, NEW c \in Proc, NEW n, MovesTo(c, n), n.kind = doing[c].kind, doing[c].pc # "none"
    PROVE  KindsStay
<1> SUFFICES ASSUME NEW e \in Proc
             PROVE  /\ doing'[e].kind = doing[e].kind
                    /\ doing[e] = NoOp => doing'[e] = NoOp
  BY DEF KindsStay
<1>1. doing[e] \in Operation /\ NoOp.pc = "none"
  BY DEF PluginInv, PluginTypes, NoOp
<1>2. CASE e = c
  BY <1>2, <1>1 DEF MovesTo
<1>3. CASE doing'[e] = doing[e]
  BY <1>3
<1>4. CASE doing[e].pc \in {"removing", "copying"} /\ doing'[e] = [doing[e] EXCEPT !.clash = TRUE]
  BY <1>4, <1>1 DEF Operation
<1> QED
  BY <1>2, <1>3, <1>4 DEF MovesTo

LEMMA NoneTypes ==
    NoRecord \in Registry /\ NoSetting \in Choices /\ NoOp \in Operation
<1>1. NoRecord \in Registry /\ NoSetting \in Choices
  BY PluginBounds DEF NoRecord, NoSetting, Registry, Choices, Versions
<1> QED
  BY <1>1, PluginBounds DEF NoOp, Operation, OpKind, OpPC, Versions


\* A step that leaves the directories alone.
LEMMA Becoming ==
    ASSUME PluginInv, NEW c \in Proc, NEW n \in Operation, Becomes(c, n), UNCHANGED <<dir, source>>,
           setting' \in Choices, record' \in Registry
    PROVE  MovesTo(c, n)
<1>1. doing \in [Proc -> Operation] /\ dir \in [Plugin -> Dirs]
  BY DEF PluginInv, PluginTypes
<1> QED
  BY <1>1 DEF MovesTo, Becomes

\* The registries a step may pass on as they are.
LEMMA EasyMove ==
    ASSUME PluginInv, NEW c \in Proc, NEW n, MovesTo(c, n), promised' = promised,
           record' \in {record, NoRecord, doing[c].reg},
           n.reg \in {record, NoRecord, doing[c].reg} \/ Sound(n.reg), Working(n)', CopiedBy(n)',
           \A p \in External : Past(n, p) => Past(doing[c], p) /\ n.rival = doing[c].rival
    PROVE  PluginInv'
<1>1. record \in Registry /\ doing[c].reg \in Registry /\ source \in Registry /\ source' = source
  BY DEF PluginInv, PluginTypes, Operation, MovesTo
<1>2. Sound(record) /\ Sound(doing[c].reg)
  BY DEF PluginInv
<1>3. Sound(NoRecord)
  BY <1>1, PluginBounds DEF Sound, SoundAt, CopyAt, NoRecord, Registry, Versions
<1>4. PICK r \in Registry : r = record' /\ Sound(r)
  BY <1>1, <1>2, <1>3, NoneTypes DEF Sound, SoundAt, CopyAt
<1>5. PICK s \in Registry : s = n.reg /\ Sound(s)
  <2>1. n.reg \in Registry
    BY DEF MovesTo, Operation
  <2> QED
    BY <1>1, <1>2, <1>3, <2>1, NoneTypes DEF Sound, SoundAt, CopyAt
<1>6. Sound(r)' /\ Sound(s)'
  BY <1>4, <1>5, SoundStays
<1>7. Sound(record)' /\ Sound(n.reg)'
  BY <1>4, <1>5, <1>6 DEF Sound, SoundAt, CopyAt
<1> QED
  BY <1>7, MoveKeeps

LEMMA OverIs ==
    ASSUME NEW o \in Operation, NEW ok \in BOOLEAN
    PROVE  /\ Over(o, ok) \in Operation
           /\ LET n == Over(o, ok)
              IN  /\ n.kind = o.kind /\ n.p = o.p /\ n.pc = "done" /\ n.ok = ok /\ n.t = "none"
                  /\ n.reg = NoRecord /\ n.clash = FALSE /\ n.rival = o.rival
                  /\ n.set = IF o.kind = "build" /\ ok THEN o.set ELSE NoSetting
<1>1. NoOp \in Operation /\ NoSetting \in Choices /\ NoOp.reg = NoRecord /\ NoOp.t = "none" /\ NoOp.clash = FALSE
  BY NoneTypes DEF NoOp
<1>2. o.set \in Choices /\ o.kind \in OpKind /\ o.p \in Plugin \cup {"none"} /\ o.rival \in BOOLEAN
  BY DEF Operation
<1>3. "done" \in OpPC
  BY DEF OpPC
<1>4. (IF o.kind = "build" /\ ok THEN o.set ELSE NoSetting) \in Choices
  BY <1>1, <1>2
<1> QED
  BY <1>1, <1>2, <1>3, <1>4 DEF Over, Operation

\* A step that ends the operation or goes on in it without touching a directory.
LEMMA OverKeeps ==
    ASSUME PluginInv, NEW c \in Proc, doing[c].pc \notin {"none", "load", "done"},
           NEW ok \in BOOLEAN, Becomes(c, Over(doing[c], ok)), UNCHANGED <<dir, source, promised>>,
           setting' \in Choices, record' \in {record, doing[c].reg},
           ok => doing[c].pc \notin AtDir \cup {"store", "storing"}
    PROVE  PluginInv' /\ KindsStay
<1>1. doing[c] \in Operation /\ record \in Registry /\ Working(doing[c]) /\ CopiedBy(doing[c]) /\ source' = source
  BY DEF PluginInv, PluginTypes
<1>2. PICK n \in Operation : n = Over(doing[c], ok)
  BY <1>1, OverIs
<1>3. /\ n.kind = doing[c].kind /\ n.p = doing[c].p /\ n.pc = "done" /\ n.ok = ok /\ n.t = "none"
      /\ n.reg = NoRecord /\ n.clash = FALSE /\ n.rival = doing[c].rival
  BY <1>1, <1>2, OverIs
<1>4. record' \in Registry
  BY <1>1 DEF Operation
<1>5. MovesTo(c, n)
  BY <1>2, <1>4, Becoming
<1>6. Working(n)'
  BY <1>1, <1>3, PluginAssumption DEF Working, PlainKind, AtDir, Plugin
<1>7. CopiedBy(n)'
  BY <1>1, <1>3, PluginAssumption DEF CopiedBy, Working, Plugin, AtDir
<1>8. \A p \in External : Past(n, p) => Past(doing[c], p) /\ n.rival = doing[c].rival
  BY <1>3 DEF Past
<1> QED
  BY <1>3, <1>5, <1>6, <1>7, <1>8, EasyMove, MoveFrames

\* A step that goes on in the operation, without touching a directory.
GoesOn(o, n) ==
    /\ n \in Operation /\ n.kind = o.kind /\ n.p = o.p /\ n.rival = o.rival
    /\ o.pc \notin {"none", "load", "done"} /\ n.pc \notin {"none", "load", "done"} \cup AtDir \cup {"store", "storing"}
    /\ o.pc \notin AtDir \cup {"store"} /\ n.t \notin External
    /\ o.kind = "build" => n.pc \notin {"enable", "enabling"}
    /\ n.pc \in {"sync", "syncing"} => o.kind # "uninstall"
LEMMA GoingOn ==
    ASSUME PluginInv, NEW c \in Proc, NEW n, GoesOn(doing[c], n), Becomes(c, n),
           UNCHANGED <<dir, source, promised>>,
           setting' \in Choices, record' \in {record, NoRecord, doing[c].reg},
           n.reg \in {record, NoRecord, doing[c].reg} \/ Sound(n.reg)
    PROVE  PluginInv' /\ KindsStay
<1>1. doing[c] \in Operation /\ record \in Registry /\ Working(doing[c]) /\ CopiedBy(doing[c]) /\ source' = source
  BY DEF PluginInv, PluginTypes
<1>2. record' \in Registry
  BY <1>1, NoneTypes DEF Operation
<1>3. MovesTo(c, n)
  BY <1>2, Becoming DEF GoesOn
<1>4. Working(n)'
  BY <1>1, PluginAssumption DEF Working, PlainKind, AtDir, Plugin, GoesOn
<1>5. CopiedBy(n)'
  BY <1>1, PluginAssumption DEF CopiedBy, Working, Plugin, AtDir, GoesOn
<1>6. \A p \in External : Past(n, p) => Past(doing[c], p) /\ n.rival = doing[c].rival
  BY DEF Past, GoesOn
<1> QED
  BY <1>3, <1>4, <1>5, <1>6, EasyMove, MoveFrames DEF GoesOn

LEMMA EnableKeeps ==
    ASSUME PluginInv, NEW c \in Proc, EnableBegin(c) \/ EnableEnd(c), promised' = promised
    PROVE  PluginInv' /\ KindsStay
<1>1. doing[c] \in Operation /\ doing \in [Proc -> Operation] /\ setting \in Choices /\ Working(doing[c])
  BY DEF PluginInv, PluginTypes
<1>2. CASE EnableBegin(c)
  <2>1. CASE "settings" \in torn
    BY <1>1, <1>2, <2>1, OverKeeps DEF EnableBegin, Fail
  <2>2. CASE "settings" \notin torn
    <3>1. PICK s : s = [setting EXCEPT ![doing[c].p] =
                       CASE doing[c].kind = "disable" -> "off" [] doing[c].kind = "uninstall" -> "unset"
                         [] OTHER -> "on"]
      OBVIOUS
    <3>2. s \in Choices
      BY <1>1, <3>1 DEF Choices
    <3>3. PICK n : n = [doing[c] EXCEPT !.pc = "enabling", !.set = s]
      OBVIOUS
    <3>4. "enabling" \in OpPC
      BY DEF OpPC
    <3>5. /\ n \in Operation /\ n.kind = doing[c].kind /\ n.p = doing[c].p /\ n.rival = doing[c].rival /\ n.t = doing[c].t
          /\ n.pc = "enabling" /\ n.reg = doing[c].reg
      BY <1>1, <3>2, <3>3, <3>4 DEF Operation
    <3>6. GoesOn(doing[c], n) /\ doing[c].pc = "enable"
      BY <1>1, <1>2, <3>5 DEF GoesOn, EnableBegin, Working, AtDir
    <3>7. Becomes(c, n) /\ setting' = NoSetting /\ record' = record /\ UNCHANGED <<dir, source, promised>>
      BY <1>2, <2>2, <3>1, <3>3 DEF EnableBegin
    <3> QED
      BY <3>5, <3>6, <3>7, NoneTypes, GoingOn
  <2> QED
    BY <2>1, <2>2
<1>3. CASE EnableEnd(c)
  <2>1. doing[c].pc = "enabling" /\ setting' = doing[c].set /\ setting' \in Choices /\ UNCHANGED <<dir, record, source>>
    BY <1>1, <1>3 DEF EnableEnd, Operation
  <2>2. CASE doing[c].kind # "install"
    <3>1. Becomes(c, Over(doing[c], TRUE))
      BY <1>3, <2>2 DEF EnableEnd
    <3> QED
      BY <2>1, <3>1, OverKeeps DEF AtDir
  <2>3. CASE doing[c].kind = "install"
    <3>1. PICK n : n = [doing[c] EXCEPT !.pc = "sync", !.set = NoSetting]
      OBVIOUS
    <3>2. "sync" \in OpPC
      BY DEF OpPC
    <3>3. /\ n \in Operation /\ n.kind = doing[c].kind /\ n.p = doing[c].p /\ n.rival = doing[c].rival /\ n.t = doing[c].t
          /\ n.pc = "sync" /\ n.reg = doing[c].reg
      BY <1>1, <3>1, <3>2, NoneTypes DEF Operation
    <3>4. GoesOn(doing[c], n)
      BY <1>1, <2>1, <2>3, <3>3 DEF GoesOn, Working, AtDir
    <3>5. Becomes(c, n)
      BY <1>3, <2>3, <3>1 DEF EnableEnd
    <3> QED
      BY <2>1, <3>3, <3>4, <3>5, GoingOn
  <2> QED
    BY <2>2, <2>3
<1> QED
  BY <1>2, <1>3

LEMMA StoreEndKeeps ==
    ASSUME PluginInv, NEW c \in Proc, StoreEnd(c), promised' = promised
    PROVE  PluginInv' /\ KindsStay
<1>1. doing[c] \in Operation /\ doing \in [Proc -> Operation] /\ setting \in Choices /\ Working(doing[c])
  BY DEF PluginInv, PluginTypes
<1>2. PICK n : n = [doing[c] EXCEPT !.pc = AfterStore(doing[c].kind), !.t = "none", !.v = 0,
                                    !.clash = FALSE, !.reg = NoRecord]
  OBVIOUS
<1>3. doing[c].pc = "storing" /\ doing[c].kind \in PlainKind
  BY <1>1, PluginAssumption DEF StoreEnd, Working
<1>4. AfterStore(doing[c].kind) \in {"enable", "sync"}
  BY <1>3 DEF AfterStore, PlainKind
<1>5. AfterStore(doing[c].kind) \in OpPC /\ 0 \in Versions
  BY <1>4, PluginBounds DEF OpPC, Versions
<1>6. /\ n \in Operation /\ n.kind = doing[c].kind /\ n.p = doing[c].p /\ n.rival = doing[c].rival /\ n.t = "none"
      /\ n.pc \in {"enable", "sync"} /\ n.reg = NoRecord /\ (n.pc = "sync" => doing[c].kind = "update")
  BY <1>1, <1>2, <1>3, <1>4, <1>5, NoneTypes DEF Operation, AfterStore, PlainKind
<1>7. GoesOn(doing[c], n)
  BY <1>1, <1>3, <1>6, PluginAssumption DEF GoesOn, AtDir, PlainKind
<1>8. Becomes(c, n) /\ record' = doing[c].reg /\ UNCHANGED <<dir, source, setting>>
  BY <1>2 DEF StoreEnd
<1> QED
  BY <1>1, <1>6, <1>7, <1>8, GoingOn

LEMMA SyncStartKeeps ==
    ASSUME PluginInv, NEW c \in Proc, SyncStart(c), promised' = promised
    PROVE  PluginInv' /\ KindsStay
<1>1. /\ doing[c] \in Operation /\ doing \in [Proc -> Operation] /\ setting \in Choices /\ record \in Registry
      /\ Working(doing[c]) /\ doing[c].pc = "sync"
  BY DEF PluginInv, PluginTypes, SyncStart
<1>0. UNCHANGED <<dir, record, setting, source>>
  BY DEF SyncStart, disk
<1>2. CASE "registry" \in torn
  BY <1>0, <1>1, <1>2, OverKeeps DEF SyncStart, Fail
<1>3. CASE "registry" \notin torn
  <2>1. PICK n : n = [doing[c] EXCEPT !.pc = "syncing", !.reg = record, !.todo = Bundled]
    OBVIOUS
  <2>2. "syncing" \in OpPC
    BY DEF OpPC
  <2>3. /\ n \in Operation /\ n.kind = doing[c].kind /\ n.p = doing[c].p /\ n.rival = doing[c].rival
        /\ n.t = doing[c].t /\ n.pc = "syncing" /\ n.reg = record
    BY <1>1, <2>1, <2>2 DEF Operation
  <2>4. GoesOn(doing[c], n)
    BY <1>1, <2>3 DEF GoesOn, Working, AtDir
  <2>5. Becomes(c, n)
    BY <1>3, <2>1 DEF SyncStart
  <2> QED
    BY <1>0, <1>1, <2>3, <2>4, <2>5, GoingOn
<1> QED
  BY <1>2, <1>3

LEMMA SyncFlushKeeps ==
    ASSUME PluginInv, NEW c \in Proc, SyncFlush(c) \/ SyncEnd(c), promised' = promised
    PROVE  PluginInv' /\ KindsStay
<1>1. /\ doing[c] \in Operation /\ doing \in [Proc -> Operation] /\ setting \in Choices /\ record \in Registry
      /\ Working(doing[c])
  BY DEF PluginInv, PluginTypes
<1>0. UNCHANGED <<dir, setting, source>> /\ record' \in {record, NoRecord, doing[c].reg}
  BY DEF SyncFlush, SyncEnd
<1>p. {"flushing", "scan"} \subseteq OpPC /\ 0 \in Versions
  BY PluginBounds DEF OpPC, Versions
<1>2. CASE SyncFlush(c)
  <2>1. PICK o : o = Resting(doing[c])
    OBVIOUS
  <2>2. /\ o \in Operation /\ o.kind = doing[c].kind /\ o.p = doing[c].p /\ o.rival = doing[c].rival
        /\ o.t = "none"
    BY <1>1, <1>p, <2>1 DEF Operation, Resting
  <2>3. PICK n : n = [o EXCEPT !.pc = IF doing[c].changed THEN "flushing" ELSE "scan",
                               !.reg = IF doing[c].changed THEN doing[c].reg ELSE NoRecord]
    OBVIOUS
  <2>4. doing[c].reg \in Registry /\ NoRecord \in Registry
    BY <1>1, NoneTypes DEF Operation
  <2>5. /\ n \in Operation /\ n.kind = doing[c].kind /\ n.p = doing[c].p /\ n.rival = doing[c].rival
        /\ n.t = "none" /\ n.pc \in {"flushing", "scan"} /\ n.reg \in {NoRecord, doing[c].reg}
    BY <1>p, <2>2, <2>3, <2>4 DEF Operation
  <2>6. GoesOn(doing[c], n)
    BY <1>1, <1>2, <2>5, PluginAssumption DEF GoesOn, AtDir, SyncFlush
  <2>7. Becomes(c, n)
    BY <1>2, <2>1, <2>3 DEF SyncFlush
  <2> QED
    BY <1>0, <1>1, <2>5, <2>6, <2>7, GoingOn
<1>3. CASE SyncEnd(c)
  <2>1. PICK n : n = [doing[c] EXCEPT !.pc = "scan", !.reg = NoRecord]
    OBVIOUS
  <2>2. /\ n \in Operation /\ n.kind = doing[c].kind /\ n.p = doing[c].p /\ n.rival = doing[c].rival
        /\ n.t = doing[c].t /\ n.pc = "scan" /\ n.reg = NoRecord
    BY <1>1, <1>p, <2>1, NoneTypes DEF Operation
  <2>3. GoesOn(doing[c], n)
    BY <1>1, <1>3, <2>2 DEF GoesOn, Working, AtDir, SyncEnd
  <2>4. Becomes(c, n)
    BY <1>3, <2>1 DEF SyncEnd
  <2> QED
    BY <1>0, <1>1, <2>2, <2>3, <2>4, GoingOn
<1> QED
  BY <1>2, <1>3

\* What a discovery makes of the operation.
LEMMA DiscoveredKeeps ==
    ASSUME PluginInv, NEW c \in Proc, doing[c].pc \in {"scan", "pruning"},
           NEW ok \in BOOLEAN, Becomes(c, Discovered(doing[c], ok)), UNCHANGED <<dir, setting, source, promised>>,
           record' \in {record, doing[c].reg}
    PROVE  PluginInv' /\ KindsStay
<1>1. doing[c] \in Operation /\ setting \in Choices /\ Working(doing[c])
  BY DEF PluginInv, PluginTypes
<1>2. CASE ok /\ doing[c].kind \in {"enable", "disable"}
  <2>1. PICK n : n = [NoOp EXCEPT !.kind = doing[c].kind, !.p = doing[c].p, !.pc = "enable"]
    OBVIOUS
  <2>2. "enable" \in OpPC /\ NoOp.t = "none" /\ NoOp.reg = NoRecord /\ NoOp.clash = FALSE
    BY DEF OpPC, NoOp
  <2>3. /\ n \in Operation /\ n.kind = doing[c].kind /\ n.p = doing[c].p
        /\ n.t = "none" /\ n.pc = "enable" /\ n.reg = NoRecord
    BY <1>1, <2>1, <2>2, NoneTypes DEF Operation
  <2>4. Becomes(c, n)
    BY <1>2, <2>1 DEF Discovered
  <2>5. MovesTo(c, n)
    <3>1. record' \in Registry
      BY <1>1 DEF PluginInv, PluginTypes, Operation
    <3> QED
      BY <1>1, <2>3, <2>4, <3>1, Becoming
  <2>6. Working(n)' /\ CopiedBy(n)' /\ \A p \in External : ~Past(n, p)
    BY <1>1, <1>2, <2>3, PluginAssumption DEF Working, CopiedBy, Past, PlainKind, AtDir
  <2> QED
    BY <2>3, <2>5, <2>6, EasyMove, MoveFrames
<1>3. CASE ~(ok /\ doing[c].kind \in {"enable", "disable"})
  <2>1. Becomes(c, Over(doing[c], ok))
    BY <1>3 DEF Discovered
  <2> QED
    BY <1>1, <2>1, OverKeeps DEF AtDir
<1> QED
  BY <1>2, <1>3

LEMMA ScanKeeps ==
    ASSUME PluginInv, NEW c \in Proc, Scan(c) \/ PruneEnd(c), promised' = promised
    PROVE  PluginInv' /\ KindsStay
<1>1. /\ doing[c] \in Operation /\ doing \in [Proc -> Operation] /\ setting \in Choices /\ record \in Registry
      /\ Working(doing[c]) /\ Sound(record)
  BY DEF PluginInv, PluginTypes
<1>0. UNCHANGED <<dir, setting, source>>
  BY DEF Scan, PruneEnd
<1>2. CASE Scan(c) /\ "registry" \in torn
  BY <1>0, <1>1, <1>2, OverKeeps DEF Scan, Fail
<1>3. CASE Scan(c) /\ "registry" \notin torn /\ Pruned(record) = record
  <2>1. Becomes(c, Discovered(doing[c], Usable(doing[c]))) /\ record' = record /\ doing[c].pc = "scan"
    BY <1>3 DEF Scan
  <2>2. Usable(doing[c]) \in BOOLEAN
    BY DEF Usable
  <2> QED
    BY <1>0, <2>1, <2>2, DiscoveredKeeps
<1>4. CASE Scan(c) /\ "registry" \notin torn /\ Pruned(record) # record
  <2>1. PICK n : n = [doing[c] EXCEPT !.pc = "pruning", !.reg = Pruned(record), !.ok = Usable(doing[c])]
    OBVIOUS
  <2>2. "pruning" \in OpPC /\ Usable(doing[c]) \in BOOLEAN
    BY DEF OpPC, Usable
  <2>3. Pruned(record) \in Registry /\ \A p \in Plugin : Pruned(record)[p] \in {0, record[p]}
    BY <1>1, PluginBounds DEF Pruned, Registry, Versions
  <2>4. /\ n \in Operation /\ n.kind = doing[c].kind /\ n.p = doing[c].p /\ n.rival = doing[c].rival
        /\ n.t = doing[c].t /\ n.pc = "pruning" /\ n.reg = Pruned(record)
    BY <1>1, <2>1, <2>2, <2>3 DEF Operation
  <2>5. GoesOn(doing[c], n)
    BY <1>1, <1>4, <2>4 DEF GoesOn, Working, AtDir, Scan
  <2>6. Becomes(c, n) /\ record' = NoRecord
    BY <1>4, <2>1 DEF Scan
  <2>7. Sound(n.reg)
    <3>1. \A p \in Plugin : source[p] \in Nat
      BY PluginBounds DEF PluginInv, PluginTypes, Registry, Versions
    <3> QED
      BY <1>1, <2>3, <2>4, <3>1 DEF Sound, SoundAt, CopyAt
  <2> QED
    BY <1>0, <1>1, <2>4, <2>5, <2>6, <2>7, GoingOn
<1>5. CASE PruneEnd(c)
  <2>1. Becomes(c, Discovered(doing[c], doing[c].ok)) /\ record' = doing[c].reg /\ doing[c].pc = "pruning"
    BY <1>5 DEF PruneEnd
  <2>2. doing[c].ok \in BOOLEAN
    BY <1>1 DEF Operation
  <2> QED
    BY <1>0, <2>1, <2>2, DiscoveredKeeps
<1> QED
  BY <1>2, <1>3, <1>4, <1>5

LEMMA SyncVisitKeeps ==
    ASSUME PluginInv, NEW c \in Proc, SyncVisit(c), promised' = promised
    PROVE  PluginInv' /\ KindsStay
<1>1. /\ doing[c] \in Operation /\ setting \in Choices /\ record \in Registry /\ source \in Registry
      /\ Working(doing[c]) /\ CopiedBy(doing[c]) /\ Sound(doing[c].reg) /\ doing[c].pc = "syncing"
  BY DEF PluginInv, PluginTypes, SyncVisit
<1>0. UNCHANGED <<dir, record, setting, source>>
  BY DEF SyncVisit, disk
<1>2. PICK b \in doing[c].todo :
          Becomes(c, [doing[c] EXCEPT !.todo = doing[c].todo \ {b}, !.t = b, !.v = source[b], !.clash = FALSE,
                          !.reg = IF source[b] = 0 THEN [doing[c].reg EXCEPT ![b] = 0] ELSE doing[c].reg,
                          !.changed = TRUE, !.pc = "remove"])
  BY DEF SyncVisit
<1>3. doing[c].reg \in Registry /\ doing[c].todo \subseteq Bundled /\ b \in Bundled /\ b \in Plugin
  BY <1>1, <1>2 DEF Operation, Plugin
<1>4. PICK r : r = IF source[b] = 0 THEN [doing[c].reg EXCEPT ![b] = 0] ELSE doing[c].reg
  OBVIOUS
<1>5. r \in Registry /\ \A p \in Plugin : r[p] = doing[c].reg[p] \/ source[p] = 0
  BY <1>3, <1>4, PluginBounds DEF Registry, Versions
<1>6. Sound(r)
  BY <1>1, <1>5 DEF Sound, SoundAt, CopyAt
<1>7. PICK n : n = [doing[c] EXCEPT !.todo = doing[c].todo \ {b}, !.t = b, !.v = source[b], !.clash = FALSE,
                        !.reg = r, !.changed = TRUE, !.pc = "remove"]
  OBVIOUS
<1>8. "remove" \in OpPC /\ source[b] \in Versions /\ doing[c].todo \ {b} \subseteq Bundled
  BY <1>1, <1>3 DEF OpPC, AtDir, Registry
<1>9. /\ n \in Operation /\ n.kind = doing[c].kind /\ n.p = doing[c].p /\ n.rival = doing[c].rival
      /\ n.t = b /\ n.v = source[b] /\ n.pc = "remove" /\ n.reg = r /\ n.clash = FALSE
  BY <1>1, <1>3, <1>5, <1>7, <1>8 DEF Operation
<1>10. Becomes(c, n)
  BY <1>2, <1>4, <1>7
<1>11. MovesTo(c, n)
  BY <1>0, <1>1, <1>9, <1>10, Becoming
<1>12. Working(n)'
  BY <1>0, <1>1, <1>3, <1>9, PluginAssumption DEF Working, AtDir
<1>13. CopiedBy(n)'
  BY <1>0, <1>1, <1>3, <1>9, PluginAssumption DEF CopiedBy, Working, AtDir
<1>14. \A p \in External : Past(n, p) => Past(doing[c], p) /\ n.rival = doing[c].rival
  BY <1>1, <1>9 DEF Past
<1> QED
  BY <1>0, <1>1, <1>6, <1>9, <1>11, <1>12, <1>13, <1>14, EasyMove, MoveFrames

\* install writes the registry it reads now; what a copy left is about a copy.
LEMMA StoreBeginKeeps ==
    ASSUME PluginInv, NEW c \in Proc, StoreBegin(c), promised' = promised
    PROVE  PluginInv' /\ KindsStay
<1>1. /\ doing[c] \in Operation /\ setting \in Choices /\ record \in Registry /\ source \in Registry
      /\ Working(doing[c]) /\ CopiedBy(doing[c]) /\ Sound(doing[c].reg) /\ Sound(record)
      /\ doing[c].pc = "store" /\ doing[c].reg \in Registry /\ doing[c].v \in Versions
  BY DEF PluginInv, PluginTypes, StoreBegin, Operation
<1>0. UNCHANGED <<dir, setting, source>>
  BY DEF StoreBegin
<1>2. CASE doing[c].kind = "install" /\ "registry" \in torn
  BY <1>0, <1>1, <1>2, OverKeeps DEF StoreBegin, Fail
<1>3. CASE ~(doing[c].kind = "install" /\ "registry" \in torn)
  <2>1. doing[c].t \in External /\ doing[c].p = doing[c].t /\ doing[c].kind \in PlainKind /\ doing[c].p \in Plugin
    BY <1>1 DEF Working, Plugin
  <2>2. PICK b : b = IF doing[c].kind = "install" THEN record ELSE doing[c].reg
    OBVIOUS
  <2>3. PICK v : v = IF doing[c].kind = "uninstall" THEN 0 ELSE doing[c].v
    OBVIOUS
  <2>4. b \in Registry /\ v \in Versions /\ Sound(b)
    BY <1>1, <2>2, <2>3, PluginBounds DEF Versions
  <2>5. PICK r : r = [b EXCEPT ![doing[c].p] = v]
    OBVIOUS
  <2>6. r \in Registry /\ r[doing[c].p] = v /\ \A p \in Plugin : p # doing[c].p => r[p] = b[p]
    BY <2>1, <2>4, <2>5 DEF Registry
  <2>7. SoundAt(r, doing[c].p)
    <3>1. source[doing[c].p] \in Nat
      BY <1>1, <2>1, PluginBounds DEF Registry, Versions
    <3>2. doing[c].kind # "uninstall" => v = source[doing[c].p] /\ doing[c].reg[doing[c].p] = v
      BY <1>1, <2>1, <2>3 DEF Working
    <3>3. SoundAt(doing[c].reg, doing[c].p)
      BY <1>1, <2>1 DEF Sound
    <3>4. doing[c].kind = "uninstall" => v = 0
      BY <2>3
    <3> QED
      BY <2>6, <3>1, <3>2, <3>3, <3>4 DEF SoundAt, CopyAt
  <2>8. Sound(r)
    BY <2>4, <2>6, <2>7 DEF Sound, SoundAt, CopyAt
  <2>9. PICK n : n = [doing[c] EXCEPT !.pc = "storing", !.reg = r]
    OBVIOUS
  <2>10. "storing" \in OpPC
    BY DEF OpPC
  <2>11. /\ n \in Operation /\ n.kind = doing[c].kind /\ n.p = doing[c].p /\ n.rival = doing[c].rival
         /\ n.t = doing[c].t /\ n.v = doing[c].v /\ n.pc = "storing" /\ n.reg = r /\ n.clash = doing[c].clash
    BY <1>1, <2>6, <2>9, <2>10 DEF Operation
  <2>12. Becomes(c, n) /\ record' = NoRecord
    BY <1>3, <2>2, <2>3, <2>5, <2>9 DEF StoreBegin
  <2>13. MovesTo(c, n)
    BY <1>0, <1>1, <2>11, <2>12, NoneTypes, Becoming
  <2>14. Working(n)'
    BY <1>0, <1>1, <2>1, <2>11, PluginAssumption DEF Working, AtDir
  <2>15. CopiedBy(n)'
    BY <1>0, <1>1, <2>1, <2>11 DEF CopiedBy
  <2>16. \A p \in External : Past(n, p) => Past(doing[c], p) /\ n.rival = doing[c].rival
    BY <1>1, <2>11 DEF Past
  <2> QED
    BY <1>0, <1>1, <2>8, <2>11, <2>12, <2>13, <2>14, <2>15, <2>16, EasyMove, MoveFrames
<1> QED
  BY <1>2, <1>3

Others(c) == {e \in Proc \ {c} : doing[e].t = doing[c].t /\ doing[e].pc \in {"removing", "copying"}}

\* Entering a directory: others in it clash, but nobody does who is alone with it.
LEMMA EnterKeeps ==
    ASSUME PluginInv, NEW c \in Proc, NEW at \in {"removing", "copying"},
           doing[c].pc = IF at = "removing" THEN "remove" ELSE "copy", Enter(c, at),
           NEW d \in Remains(dir[doing[c].t]) \cup Unfinished(doing[c].v), dir' = [dir EXCEPT ![doing[c].t] = d],
           UNCHANGED <<record, setting, source, promised>>
    PROVE  PluginInv' /\ KindsStay
<1>1. /\ doing[c] \in Operation /\ doing \in [Proc -> Operation] /\ setting \in Choices /\ record \in Registry
      /\ dir \in [Plugin -> Dirs]
      /\ Working(doing[c]) /\ CopiedBy(doing[c]) /\ doing[c].pc \in {"remove", "copy"} /\ source \in Registry
  BY DEF PluginInv, PluginTypes
<1>2. PICK n : n = [doing[c] EXCEPT !.pc = at, !.clash = doing[c].clash \/ Others(c) # {}]
  OBVIOUS
<1>3. at \in OpPC /\ (doing[c].clash \/ Others(c) # {}) \in BOOLEAN
  BY DEF OpPC, AtDir
<1>4. /\ n \in Operation /\ n.kind = doing[c].kind /\ n.p = doing[c].p /\ n.rival = doing[c].rival
      /\ n.t = doing[c].t /\ n.v = doing[c].v /\ n.pc = at /\ n.reg = doing[c].reg
      /\ n.clash = (doing[c].clash \/ Others(c) # {})
  BY <1>1, <1>2, <1>3 DEF Operation
<1>5. doing' = [e \in Proc |-> IF e = c THEN n
                               ELSE IF e \in Others(c) THEN [doing[e] EXCEPT !.clash = TRUE] ELSE doing[e]]
  BY <1>2 DEF Enter, Others
<1>6. MovesTo(c, n)
  <2>1. \A e \in Proc : [doing[e] EXCEPT !.clash = TRUE] \in Operation
    BY <1>1 DEF Operation
  <2>2. doing' \in [Proc -> Operation] /\ doing'[c] = n
    BY <1>1, <1>4, <1>5, <2>1
  <2>3. \A e \in Proc \ {c} : \/ doing'[e] = doing[e]
                              \/ /\ doing'[e] = [doing[e] EXCEPT !.clash = TRUE]
                                 /\ doing[e].pc \in {"removing", "copying"} /\ doing[e].t = doing[c].t
    BY <1>5 DEF Others
  <2>4. /\ dir' \in [Plugin -> Dirs]
        /\ \A p \in Plugin : dir'[p] # dir[p] =>
              p = doing[c].t /\ doing[c].pc \in AtDir /\ (source[p] # 0 /\ dir[p] \in CopyAt(p) => dir'[p] \in CopyAt(p))
    <3>1. doing[c].pc \in AtDir /\ doing[c].t \in Plugin /\ doing[c].v = source[doing[c].t] /\ doing[c].v \in Versions
      BY <1>1 DEF Working, AtDir, Operation
    <3>2. d \in Dirs
      BY <1>1, <3>1, PartTypes
    <3>3. source[doing[c].t] # 0 /\ dir[doing[c].t] \in CopyAt(doing[c].t) => d \in CopyAt(doing[c].t)
      BY <1>1, <3>1, PartKept
    <3> QED
      BY <1>1, <3>1, <3>2, <3>3
  <2> QED
    BY <1>1, <1>4, <2>2, <2>3, <2>4 DEF MovesTo
<1>7. Working(n)'
  BY <1>1, <1>4 DEF Working, AtDir
<1>8. CopiedBy(n)'
  <2> SUFFICES ASSUME n.kind \in {"install", "update"}, n.p \in External, ~n.rival
               PROVE  /\ n.t = n.p => ~n.clash
                      /\ n.t # n.p => dir'[n.p] = source[n.p]
    BY <1>1, <1>4 DEF CopiedBy
  <2>1. n.t = n.p => Others(c) = {}
    <3> SUFFICES ASSUME n.t = n.p, NEW e \in Others(c)
                 PROVE  FALSE
      OBVIOUS
    <3>1. e \in Proc /\ e # c /\ doing[e].t = n.p /\ doing[e].pc \in {"removing", "copying"} /\ Working(doing[e])
      BY <1>4 DEF Others, PluginInv
    <3>2. Past(doing[e], n.p) /\ Past(doing[c], n.p)
      BY <1>1, <1>4, <3>1 DEF Past, Working, PlainKind
    <3> QED
      BY <1>4, <3>1, <3>2 DEF PluginInv, RivalsKnown
  <2>2. n.t = n.p => ~doing[c].clash
    BY <1>1, <1>4 DEF CopiedBy
  <2>3. n.t # n.p => dir[n.p] = source[n.p] /\ dir'[n.p] = dir[n.p]
    BY <1>1, <1>4 DEF CopiedBy, Plugin
  <2> QED
    BY <1>4, <2>1, <2>2, <2>3
<1>9. \A p \in External : Past(n, p) => Past(doing[c], p) /\ n.rival = doing[c].rival
  BY <1>1, <1>4 DEF Past
<1> QED
  BY <1>1, <1>4, <1>6, <1>7, <1>8, <1>9, EasyMove, MoveFrames

LEMMA BeginWorkKeeps ==
    ASSUME PluginInv, NEW c \in Proc, RemoveBegin(c) \/ CopyBegin(c), promised' = promised
    PROVE  PluginInv' /\ KindsStay
<1>1. UNCHANGED <<record, setting, source>>
  BY DEF RemoveBegin, CopyBegin
<1>2. CASE RemoveBegin(c)
  <2>1. PICK d \in Remains(dir[doing[c].t]) : dir' = [dir EXCEPT ![doing[c].t] = d]
    BY <1>2 DEF RemoveBegin
  <2>2. Enter(c, "removing") /\ doing[c].pc = "remove"
    BY <1>2 DEF RemoveBegin
  <2> QED
    BY <1>1, <2>1, <2>2, EnterKeeps
<1>3. CASE CopyBegin(c)
  <2>1. PICK d \in Unfinished(doing[c].v) : dir' = [dir EXCEPT ![doing[c].t] = d]
    BY <1>3 DEF CopyBegin
  <2>2. Enter(c, "copying") /\ doing[c].pc = "copy"
    BY <1>3 DEF CopyBegin
  <2> QED
    BY <1>1, <2>1, <2>2, EnterKeeps
<1> QED
  BY <1>2, <1>3

\* The end of a removal, or of a copy that was not disturbed.
LEMMA RemoveEndKeeps ==
    ASSUME PluginInv, NEW c \in Proc, RemoveEnd(c), promised' = promised
    PROVE  PluginInv' /\ KindsStay
<1>1. /\ doing[c] \in Operation /\ doing \in [Proc -> Operation] /\ setting \in Choices /\ record \in Registry
      /\ dir \in [Plugin -> Dirs] /\ source \in Registry
      /\ Working(doing[c]) /\ CopiedBy(doing[c]) /\ doing[c].pc = "removing"
  BY DEF PluginInv, PluginTypes, RemoveEnd
<1>0. UNCHANGED <<record, setting, source>>
  BY DEF RemoveEnd
<1>2. CASE Fail(c) /\ UNCHANGED dir
  BY <1>0, <1>1, <1>2, OverKeeps DEF Fail
<1>3. CASE dir' = [dir EXCEPT ![doing[c].t] = None] /\ Goto(c, Removed(doing[c]))
  <2>1. doing[c].t \in Plugin /\ doing[c].v = source[doing[c].t]
    BY <1>1 DEF Working, AtDir
  <2>2. PICK at : at = Removed(doing[c])
    OBVIOUS
  <2>3. /\ at \in {"store", "syncing", "copy"}
        /\ at = "store" <=> doing[c].kind = "uninstall"
        /\ at = "syncing" => doing[c].v = 0
    BY <2>2 DEF Removed
  <2>4. PICK n : n = [doing[c] EXCEPT !.pc = at]
    OBVIOUS
  <2>5. at \in OpPC
    BY <2>3 DEF OpPC, AtDir
  <2>6. /\ n \in Operation /\ n.kind = doing[c].kind /\ n.p = doing[c].p /\ n.rival = doing[c].rival
        /\ n.t = doing[c].t /\ n.v = doing[c].v /\ n.pc = at /\ n.reg = doing[c].reg /\ n.clash = doing[c].clash
    BY <1>1, <2>4, <2>5 DEF Operation
  <2>7. Becomes(c, n)
    BY <1>3, <2>2, <2>4 DEF Goto
  <2>8. MovesTo(c, n)
    <3>1. None \in Dirs /\ \A p \in Plugin : None \in CopyAt(p)
      BY PluginBounds DEF CopyAt, Copy, Dirs, None, Broken
    <3>2. doing' \in [Proc -> Operation] /\ doing'[c] = n /\ \A e \in Proc \ {c} : doing'[e] = doing[e]
      BY <1>1, <2>6, <2>7 DEF Becomes
    <3>3. /\ dir' \in [Plugin -> Dirs]
          /\ \A p \in Plugin : dir'[p] # dir[p] =>
                p = doing[c].t /\ doing[c].pc \in AtDir /\ (source[p] # 0 /\ dir[p] \in CopyAt(p) => dir'[p] \in CopyAt(p))
      BY <1>1, <1>3, <3>1 DEF AtDir
    <3> QED
      BY <1>0, <1>1, <2>6, <3>2, <3>3 DEF MovesTo
  <2>9. Working(n)'
    BY <1>0, <1>1, <2>1, <2>3, <2>6, PluginAssumption DEF Working, AtDir, Plugin
  <2>10. CopiedBy(n)'
    <3> SUFFICES ASSUME n.kind \in {"install", "update"}, n.p \in External, ~n.rival
                 PROVE  /\ n.t = n.p => ~n.clash
                        /\ n.t = n.p => n.pc \notin {"store", "storing"}
                        /\ n.t # n.p => dir'[n.p] = source'[n.p]
      BY <2>3, <2>6 DEF CopiedBy
    <3>1. n.t = n.p => ~n.clash
      BY <1>1, <2>6 DEF CopiedBy
    <3>2. n.t # n.p => dir[n.p] = source[n.p]
      BY <1>1, <2>6 DEF CopiedBy
    <3>3. n.t # n.p => dir'[n.p] = dir[n.p]
      BY <1>1, <1>3, <2>6 DEF Plugin
    <3> QED
      BY <1>0, <2>3, <2>6, <3>1, <3>2, <3>3
  <2>11. \A p \in External : Past(n, p) => Past(doing[c], p) /\ n.rival = doing[c].rival
    BY <1>1, <2>6 DEF Past
  <2> QED
    BY <1>0, <1>1, <2>6, <2>8, <2>9, <2>10, <2>11, EasyMove, MoveFrames
<1> QED
  BY <1>2, <1>3 DEF RemoveEnd

LEMMA CopyEndKeeps ==
    ASSUME PluginInv, NEW c \in Proc, CopyEnd(c), promised' = promised
    PROVE  PluginInv' /\ KindsStay
<1>1. /\ doing[c] \in Operation /\ doing \in [Proc -> Operation] /\ setting \in Choices /\ record \in Registry
      /\ dir \in [Plugin -> Dirs] /\ source \in Registry /\ Sound(record) /\ Sound(doing[c].reg)
      /\ Working(doing[c]) /\ CopiedBy(doing[c]) /\ doing[c].pc = "copying" /\ doing[c].reg \in Registry
  BY DEF PluginInv, PluginTypes, CopyEnd, Operation
<1>0. UNCHANGED <<record, setting, source>>
  BY DEF CopyEnd
<1>2. CASE Fail(c) /\ UNCHANGED dir
  BY <1>0, <1>1, <1>2, OverKeeps DEF Fail
<1>3. CASE ~(Fail(c) /\ UNCHANGED dir)
  <2>1. doing[c].t \in Plugin /\ doing[c].v = source[doing[c].t] /\ doing[c].v \in Versions
    BY <1>1 DEF Working, AtDir, Operation
  <2>2. PICK d \in Unfinished(doing[c].v) \cup {None, doing[c].v} : dir' = [dir EXCEPT ![doing[c].t] = d] /\ (~doing[c].clash => d = doing[c].v)
    BY <1>3 DEF CopyEnd
  <2>3. d \in Dirs /\ (source[doing[c].t] # 0 => d \in CopyAt(doing[c].t))
    BY <1>1, <2>1, <2>2, PartTypes, PartKept
  <2>4. PICK r : r = [doing[c].reg EXCEPT ![doing[c].t] = doing[c].v]
    OBVIOUS
  <2>5. r \in Registry /\ r[doing[c].t] = doing[c].v /\ \A p \in Plugin : p # doing[c].t => r[p] = doing[c].reg[p]
    BY <1>1, <2>1, <2>4 DEF Registry
  <2>6. PICK n : n = [doing[c] EXCEPT !.pc = IF doing[c].t \in Bundled THEN "syncing" ELSE "store", !.reg = r]
    OBVIOUS
  <2>7. {"syncing", "store"} \subseteq OpPC
    BY DEF OpPC
  <2>8. /\ n \in Operation /\ n.kind = doing[c].kind /\ n.p = doing[c].p /\ n.rival = doing[c].rival
        /\ n.t = doing[c].t /\ n.v = doing[c].v /\ n.reg = r /\ n.clash = doing[c].clash
        /\ n.pc = IF n.t \in Bundled THEN "syncing" ELSE "store"
    BY <1>1, <2>5, <2>6, <2>7 DEF Operation
  <2>9. Becomes(c, n)
    BY <1>3, <2>4, <2>6 DEF CopyEnd
  <2>10. MovesTo(c, n)
    <3>1. doing' \in [Proc -> Operation] /\ doing'[c] = n /\ \A e \in Proc \ {c} : doing'[e] = doing[e]
      BY <1>1, <2>8, <2>9 DEF Becomes
    <3>2. /\ dir' \in [Plugin -> Dirs]
          /\ \A p \in Plugin : dir'[p] # dir[p] =>
                p = doing[c].t /\ doing[c].pc \in AtDir /\ (source[p] # 0 /\ dir[p] \in CopyAt(p) => dir'[p] \in CopyAt(p))
      BY <1>1, <2>1, <2>2, <2>3 DEF AtDir
    <3> QED
      BY <1>0, <1>1, <2>8, <3>1, <3>2 DEF MovesTo
  <2>11. Working(n)'
    BY <1>0, <1>1, <2>1, <2>5, <2>8, PluginAssumption DEF Working, AtDir, Plugin
  <2>12. CopiedBy(n)'
    <3> SUFFICES ASSUME n.kind \in {"install", "update"}, n.p \in External, ~n.rival
                 PROVE  /\ n.t = n.p => ~n.clash
                        /\ dir'[n.p] = source'[n.p]
      BY <2>8 DEF CopiedBy
    <3>1. n.t = n.p => ~n.clash
      BY <1>1, <2>8 DEF CopiedBy
    <3>2. n.t # n.p => dir[n.p] = source[n.p]
      BY <1>1, <2>8 DEF CopiedBy
    <3>3. n.t # n.p => dir'[n.p] = dir[n.p]
      BY <1>1, <2>2, <2>8 DEF Plugin
    <3>4. n.t = n.p => dir'[n.p] = source[n.p]
      BY <1>1, <2>1, <2>2, <2>8, <3>1
    <3> QED
      BY <1>0, <3>1, <3>2, <3>3, <3>4
  <2>13. Sound(n.reg)'
    <3> SUFFICES ASSUME NEW p \in Plugin
                 PROVE  SoundAt(r, p)'
      BY <2>8 DEF Sound, SoundAt, CopyAt
    <3>1. CASE p = doing[c].t
      <4>1. (source[p] # 0 => dir'[p] \in CopyAt(p)) /\ r[p] = source[p] /\ source[p] \in Nat
        BY <1>1, <2>1, <2>2, <2>3, <2>5, <3>1, PluginBounds DEF Registry, Versions
      <4> QED
        BY <1>0, <4>1 DEF SoundAt, CopyAt
    <3>2. CASE p # doing[c].t
      <4>1. SoundAt(doing[c].reg, p) /\ dir'[p] = dir[p]
        BY <1>1, <2>2, <3>2 DEF Sound
      <4> QED
        BY <1>0, <2>5, <3>2, <4>1 DEF SoundAt, CopyAt
    <3> QED
      BY <3>1, <3>2
  <2>14. Sound(record)'
    <3>1. PICK s \in Registry : s = record /\ Sound(s)
      BY <1>1
    <3>2. Sound(s)'
      BY <2>10, <3>1, SoundStays
    <3> QED
      BY <1>0, <3>1, <3>2 DEF Sound, SoundAt, CopyAt
  <2>15. \A p \in External : Past(n, p) => Past(doing[c], p) /\ n.rival = doing[c].rival
    BY <1>1, <2>8 DEF Past
  <2> QED
    BY <1>1, <2>8, <2>10, <2>11, <2>12, <2>13, <2>14, <2>15, MoveKeeps, MoveFrames
<1> QED
  BY <1>2, <1>3

\* Loading: the command meets every other that names its plugin, or it leaves
\* that plugin's promise behind.
LEMMA LoadKeeps ==
    ASSUME PluginInv, NEW c \in Proc, Load(c), Forget(c)
    PROVE  PluginInv' /\ KindsStay
<1>1. /\ doing[c] \in Operation /\ doing \in [Proc -> Operation] /\ record \in Registry /\ source \in Registry
      /\ dir \in [Plugin -> Dirs] /\ setting \in Choices /\ promised \in Registry
      /\ Working(doing[c]) /\ CopiedBy(doing[c]) /\ Sound(record) /\ Sound(doing[c].reg) /\ doing[c].pc = "load"
  BY DEF PluginInv, PluginTypes, Load
<1>0. UNCHANGED <<dir, record, setting, source>>
  BY DEF Load, disk
<1>2. doing[c].kind \in PlainKind /\ doing[c].p \in External /\ doing[c].p \in Plugin /\ ~doing[c].clash
  BY <1>1 DEF Working, Plugin
<1> DEFINE rivals == {e \in Proc \ {c} : Names(e, doing[c].p)}
<1>3. PICK r : r = IF doing[c].kind = "install" THEN doing[c].reg ELSE record
  OBVIOUS
<1>4. r \in Registry /\ Sound(r)
  BY <1>1, <1>3 DEF Operation
<1>5. PICK b : b = IF \/ doing[c].kind # "install" /\ ~("registry" \notin torn /\ record[doing[c].p] # 0)
                      \/ doing[c].kind # "uninstall" /\ source[doing[c].p] = 0
                   THEN Over(doing[c], FALSE)
                   ELSE [doing[c] EXCEPT !.pc = "remove", !.t = doing[c].p, !.v = source[doing[c].p], !.reg = r]
  OBVIOUS
<1>6. /\ b \in Operation /\ b.kind = doing[c].kind /\ b.p = doing[c].p
      /\ \/ b.pc = "done" /\ ~b.ok /\ b.t = "none" /\ b.reg = NoRecord
         \/ /\ b.pc = "remove" /\ b.t = doing[c].p /\ b.v = source[doing[c].p] /\ b.reg = r
            /\ ~b.clash /\ (doing[c].kind # "uninstall" => source[doing[c].p] # 0)
  <2>1. CASE b = Over(doing[c], FALSE)
    BY <1>1, <2>1, OverIs
  <2>2. CASE /\ b = [doing[c] EXCEPT !.pc = "remove", !.t = doing[c].p, !.v = source[doing[c].p], !.reg = r]
             /\ doing[c].kind # "uninstall" => source[doing[c].p] # 0
    <3>1. "remove" \in OpPC /\ source[doing[c].p] \in Versions
      BY <1>1, <1>2 DEF OpPC, AtDir, Registry
    <3> QED
      BY <1>1, <1>2, <1>4, <2>2, <3>1 DEF Operation
  <2> QED
    BY <1>5, <2>1, <2>2
<1>7. PICK n : n = [b EXCEPT !.rival = rivals # {}]
  OBVIOUS
<1>8. /\ n \in Operation /\ n.kind = doing[c].kind /\ n.p = doing[c].p /\ n.rival = (rivals # {})
      /\ \/ n.pc = "done" /\ ~n.ok /\ n.t = "none" /\ n.reg = NoRecord
         \/ /\ n.pc = "remove" /\ n.t = doing[c].p /\ n.v = source[doing[c].p] /\ n.reg = r
            /\ ~n.clash /\ (doing[c].kind # "uninstall" => source[doing[c].p] # 0)
  BY <1>6, <1>7 DEF Operation
<1>9. doing' = [e \in Proc |-> IF e = c THEN n
                               ELSE IF e \in rivals THEN [doing[e] EXCEPT !.rival = TRUE] ELSE doing[e]]
  BY <1>3, <1>5, <1>7 DEF Load
<1>10. \A e \in Proc \ {c} : /\ doing'[e] \in Operation
                             /\ doing'[e].kind = doing[e].kind /\ doing'[e].p = doing[e].p
                             /\ doing'[e].pc = doing[e].pc /\ doing'[e].t = doing[e].t
                             /\ doing'[e].v = doing[e].v /\ doing'[e].reg = doing[e].reg
                             /\ doing'[e].ok = doing[e].ok /\ doing'[e].clash = doing[e].clash
                             /\ doing[e].rival => doing'[e].rival
                             /\ Names(e, doing[c].p) => doing'[e].rival
                             /\ ~Names(e, doing[c].p) => doing'[e] = doing[e]
  <2> TAKE e \in Proc \ {c}
  <2>1. doing[e] \in Operation
    BY <1>1
  <2>2. CASE e \in rivals
    <3>1. doing'[e] = [doing[e] EXCEPT !.rival = TRUE]
      BY <1>9, <2>2
    <3> QED
      BY <2>1, <2>2, <3>1 DEF Operation
  <2>3. CASE e \notin rivals
    <3>1. doing'[e] = doing[e]
      BY <1>9, <2>3
    <3> QED
      BY <2>1, <2>3, <3>1
  <2> QED
    BY <2>2, <2>3
<1>11. doing'[c] = n
  BY <1>9
<1>12. PluginTypes'
  <2>1. doing' \in [Proc -> Operation]
    BY <1>8, <1>9, <1>10, <1>11
  <2>2. promised' \in Registry
    BY <1>1, PluginBounds DEF Forget, Registry, Versions
  <2> QED
    BY <1>0, <1>1, <2>1, <2>2 DEF PluginTypes
<1>13. Sound(record)'
  BY <1>0, <1>1 DEF Sound, SoundAt, CopyAt
<1>14. \A e \in Proc : Sound(doing[e].reg)'
  <2> TAKE e \in Proc
  <2>1. PICK s \in Registry : s = doing'[e].reg /\ Sound(s)
    <3>1. CASE e = c
      <4>1. Sound(NoRecord)
        BY <1>1, PluginBounds DEF Sound, SoundAt, CopyAt, NoRecord, Registry, Versions
      <4> QED
        BY <1>4, <1>8, <1>11, <3>1, <4>1, NoneTypes
    <3>2. CASE e # c
      BY <1>1, <1>10, <3>2 DEF PluginInv, Operation
    <3> QED
      BY <3>1, <3>2
  <2> QED
    BY <1>0, <2>1 DEF Sound, SoundAt, CopyAt
<1>15. \A e \in Proc : Working(doing[e])'
  <2> TAKE e \in Proc
  <2>1. CASE e = c
    BY <1>0, <1>1, <1>2, <1>8, <1>11, <2>1, PluginAssumption DEF Working, AtDir, PlainKind
  <2>2. CASE e # c
    BY <1>0, <1>10, <2>2 DEF PluginInv, Working
  <2> QED
    BY <2>1, <2>2
<1>16. \A e \in Proc : CopiedBy(doing[e])'
  <2> TAKE e \in Proc
  <2>1. CASE e = c
    BY <1>0, <1>1, <1>2, <1>8, <1>11, <2>1, PluginAssumption DEF CopiedBy
  <2>2. CASE e # c
    BY <1>0, <1>10, <2>2 DEF PluginInv, CopiedBy
  <2> QED
    BY <2>1, <2>2
<1>17. RivalsKnown'
  <2> SUFFICES ASSUME NEW e \in Proc, NEW f \in Proc, NEW p \in External, e # f,
                      Past(doing'[e], p), Past(doing'[f], p)
               PROVE  doing'[e].rival
    BY Zenon DEF RivalsKnown, Past
  <2>1. CASE e # c /\ f # c
    BY <1>10, <2>1 DEF PluginInv, RivalsKnown, Past
  <2>2. CASE e = c
    <3>1. p = doing[c].p /\ f # c /\ Names(f, p)
      BY <1>8, <1>10, <1>11, <2>2 DEF Past, Names, PlainKind
    <3> QED
      BY <1>8, <1>11, <2>2, <3>1
  <2>3. CASE f = c
    <3>1. p = doing[c].p /\ e # c /\ Names(e, p)
      BY <1>8, <1>10, <1>11, <2>3 DEF Past, Names, PlainKind
    <3> QED
      BY <1>10, <3>1
  <2> QED
    BY <2>1, <2>2, <2>3
<1>18. PromisesKept'
  <2> SUFFICES ASSUME NEW p \in External, promised'[p] # 0
               PROVE  dir'[p] = promised'[p] /\ \A e \in Proc : ~Past(doing'[e], p)
    BY Zenon DEF PromisesKept, Past
  <2>1. ~Names(c, p) /\ promised'[p] = promised[p] /\ p \in Plugin
    BY DEF Forget, Plugin
  <2>2. dir[p] = promised[p] /\ \A e \in Proc : ~Past(doing[e], p)
    BY <2>1 DEF PluginInv, PromisesKept
  <2>3. \A e \in Proc : ~Past(doing'[e], p)
    <3> TAKE e \in Proc
    <3>1. CASE e = c
      BY <1>2, <1>8, <1>11, <2>1, <3>1 DEF Past, Names, PlainKind
    <3>2. CASE e # c
      BY <1>10, <2>2, <3>2 DEF Past
    <3> QED
      BY <3>1, <3>2
  <2> QED
    BY <1>0, <2>1, <2>2, <2>3
<1>19. KindsStay
  <2> SUFFICES ASSUME NEW e \in Proc
               PROVE  doing'[e].kind = doing[e].kind /\ (doing[e] = NoOp => doing'[e] = NoOp)
    BY DEF KindsStay
  <2>1. NoOp.kind = "none" /\ NoOp.pc = "none"
    BY DEF NoOp
  <2> QED
    BY <1>1, <1>8, <1>10, <1>11, <2>1 DEF Names
<1> QED
  BY <1>12, <1>13, <1>14, <1>15, <1>16, <1>17, <1>18, <1>19 DEF PluginInv

LEMMA OpStepKeeps ==
    ASSUME PluginInv, NEW c \in Proc, Step(c)
    PROVE  PluginInv' /\ KindsStay
<1>1. OpStep(c) /\ (doing[c].pc = "load" => Forget(c)) /\ (doing[c].pc # "load" => promised' = promised)
  BY DEF Step
<1>2. CASE Load(c)
  BY <1>1, <1>2, LoadKeeps DEF Load
<1>3. CASE RemoveBegin(c)
  <2>1. doing[c].pc # "load"
    BY <1>3 DEF RemoveBegin
  <2> QED
    BY <1>1, <1>3, <2>1, BeginWorkKeeps
<1>4. CASE CopyBegin(c)
  <2>1. doing[c].pc # "load"
    BY <1>4 DEF CopyBegin
  <2> QED
    BY <1>1, <1>4, <2>1, BeginWorkKeeps
<1>5. CASE RemoveEnd(c)
  <2>1. doing[c].pc # "load"
    BY <1>5 DEF RemoveEnd
  <2> QED
    BY <1>1, <1>5, <2>1, RemoveEndKeeps
<1>6. CASE CopyEnd(c)
  <2>1. doing[c].pc # "load"
    BY <1>6 DEF CopyEnd
  <2> QED
    BY <1>1, <1>6, <2>1, CopyEndKeeps
<1>7. CASE StoreBegin(c)
  <2>1. doing[c].pc # "load"
    BY <1>7 DEF StoreBegin
  <2> QED
    BY <1>1, <1>7, <2>1, StoreBeginKeeps
<1>8. CASE StoreEnd(c)
  <2>1. doing[c].pc # "load"
    BY <1>8 DEF StoreEnd
  <2> QED
    BY <1>1, <1>8, <2>1, StoreEndKeeps
<1>9. CASE EnableBegin(c) \/ EnableEnd(c)
  <2>1. doing[c].pc # "load"
    BY <1>9 DEF EnableBegin, EnableEnd
  <2> QED
    BY <1>1, <1>9, <2>1, EnableKeeps
<1>10. CASE SyncStart(c)
  <2>1. doing[c].pc # "load"
    BY <1>10 DEF SyncStart
  <2> QED
    BY <1>1, <1>10, <2>1, SyncStartKeeps
<1>11. CASE SyncVisit(c)
  <2>1. doing[c].pc # "load"
    BY <1>11 DEF SyncVisit
  <2> QED
    BY <1>1, <1>11, <2>1, SyncVisitKeeps
<1>12. CASE SyncFlush(c) \/ SyncEnd(c)
  <2>1. doing[c].pc # "load"
    BY <1>12 DEF SyncFlush, SyncEnd
  <2> QED
    BY <1>1, <1>12, <2>1, SyncFlushKeeps
<1>13. CASE Scan(c) \/ PruneEnd(c)
  <2>1. doing[c].pc # "load"
    BY <1>13 DEF Scan, PruneEnd
  <2> QED
    BY <1>1, <1>13, <2>1, ScanKeeps
<1> QED
  BY <1>1, <1>2, <1>3, <1>4, <1>5, <1>6, <1>7, <1>8, <1>9, <1>10, <1>11, <1>12, <1>13 DEF OpStep

\* A command is given, a build begun, or a process gone.
LEMMA FreshKeeps ==
    ASSUME PluginInv, NEW c \in Proc, NEW n \in Operation, Becomes(c, n),
           UNCHANGED <<dir, record, setting, source, promised>>,
           n.pc # "load" => n.p \notin External \/ n.kind \notin PlainKind,
           n.pc = "load" => n.kind \in PlainKind /\ n.p \in External,
           n.pc \in {"none", "load", "sync", "done"}, n.t = "none", ~n.clash, n.reg = NoRecord,
           n.kind \in PlainKind => n.pc # "sync" /\ n.p \in External \cup {"none"},
           n.kind = "build" => n.pc # "load"
    PROVE  PluginInv'
<1>1. setting \in Choices /\ record \in Registry
  BY DEF PluginInv, PluginTypes
<1>2. MovesTo(c, n)
  BY <1>1, Becoming
<1>3. Working(n)'
  BY PluginAssumption DEF Working, AtDir, PlainKind
<1>4. \A p \in External : ~Past(n, p)
  BY DEF Past
<1>5. CopiedBy(n)'
  BY <1>4, PluginAssumption DEF CopiedBy, Past, PlainKind
<1> QED
  BY <1>1, <1>2, <1>3, <1>4, <1>5, EasyMove

LEMMA BeginKeeps ==
    ASSUME PluginInv, NEW c \in Proc, NEW kind \in CommandKind,
           NEW p \in Plugin, Begin(c, kind, p), promised' = promised
    PROVE  PluginInv'
<1>1. PICK n : n = IF "settings" \in torn THEN [NoOp EXCEPT !.kind = kind, !.pc = "done", !.ok = FALSE]
                   ELSE [NoOp EXCEPT !.kind = kind, !.p = p,
                                     !.pc = IF kind \in {"enable", "disable"} THEN "sync" ELSE "load"]
  OBVIOUS
<1>2. kind \in OpKind /\ {"done", "sync", "load"} \subseteq OpPC
  BY DEF OpKind, OpPC, PlainKind, CommandKind
<1>3. NoOp.t = "none" /\ NoOp.clash = FALSE /\ NoOp.reg = NoRecord /\ NoOp.p = "none"
  BY DEF NoOp
<1>4. /\ n \in Operation /\ n.kind = kind /\ n.t = "none" /\ ~n.clash /\ n.reg = NoRecord
      /\ \/ n.pc = "done" /\ n.p = "none"
         \/ n.p = p /\ n.pc = IF kind \in {"enable", "disable"} THEN "sync" ELSE "load"
  BY <1>1, <1>2, <1>3, NoneTypes DEF Operation
<1>5. Becomes(c, n) /\ UNCHANGED <<dir, record, setting, source>> /\ (kind \in PlainKind => p \in External)
  BY <1>1 DEF Begin, disk, PlainKind
<1> QED
  BY <1>4, <1>5, FreshKeeps, PluginAssumption DEF PlainKind, CommandKind

LEMMA BeginBuildKeeps ==
    ASSUME PluginInv, NEW c \in Proc, BeginBuild(c), promised' = promised
    PROVE  PluginInv'
<1>0. setting \in Choices
  BY DEF PluginInv, PluginTypes
<1>1. PICK n : n = [NoOp EXCEPT !.kind = "build", !.set = setting,
                                !.pc = IF "settings" \in torn THEN "done" ELSE "sync",
                                !.ok = "settings" \notin torn]
  OBVIOUS
<1>2. "build" \in OpKind /\ {"done", "sync"} \subseteq OpPC /\ ("settings" \notin torn) \in BOOLEAN
  BY DEF OpKind, OpPC
<1>3. NoOp.t = "none" /\ NoOp.clash = FALSE /\ NoOp.reg = NoRecord
  BY DEF NoOp
<1>4. n \in Operation /\ n.kind = "build" /\ n.t = "none" /\ ~n.clash /\ n.reg = NoRecord /\ n.pc \in {"done", "sync"}
  BY <1>0, <1>1, <1>2, <1>3, NoneTypes DEF Operation
<1>5. Becomes(c, n) /\ UNCHANGED <<dir, record, setting, source>>
  BY <1>1 DEF BeginBuild, disk
<1> QED
  BY <1>4, <1>5, FreshKeeps DEF PlainKind

LEMMA LeavesKeeps ==
    ASSUME PluginInv, NEW c \in Proc, Becomes(c, NoOp), UNCHANGED <<dir, record, setting, source, promised>>
    PROVE  PluginInv'
<1>1. NoOp.t = "none" /\ NoOp.clash = FALSE /\ NoOp.reg = NoRecord /\ NoOp.kind = "none" /\ NoOp.pc = "none"
  BY DEF NoOp
<1> QED
  BY <1>1, FreshKeeps, NoneTypes DEF PlainKind

\* What a command promises when it has succeeded with no other at its plugin.
LEMMA PromiseKeeps ==
    ASSUME PluginInv, NEW c \in Proc, doing[c].pc = "done", Becomes(c, NoOp), Promise(c),
           UNCHANGED <<dir, record, setting, source>>
    PROVE  PluginInv'
<1>1. /\ doing[c] \in Operation /\ doing \in [Proc -> Operation] /\ record \in Registry /\ source \in Registry
      /\ dir \in [Plugin -> Dirs] /\ setting \in Choices /\ promised \in Registry
      /\ Working(doing[c]) /\ CopiedBy(doing[c]) /\ Sound(record)
  BY DEF PluginInv, PluginTypes
<1>2. NoOp.t = "none" /\ NoOp.clash = FALSE /\ NoOp.reg = NoRecord /\ NoOp.kind = "none" /\ NoOp.pc = "none"
  BY DEF NoOp
<1>3. doing'[c] = NoOp /\ \A e \in Proc \ {c} : doing'[e] = doing[e]
  BY <1>1 DEF Becomes
<1>4. PluginTypes'
  <2>1. doing' \in [Proc -> Operation]
    BY <1>1, NoneTypes DEF Becomes
  <2>2. promised' \in Registry
    BY <1>1, PluginBounds DEF Promise, Registry, Versions
  <2> QED
    BY <1>1, <2>1, <2>2 DEF PluginTypes
<1>5. Sound(record)' /\ \A e \in Proc : Sound(doing[e].reg)'
  <2>1. Sound(record)'
    BY <1>1 DEF Sound, SoundAt, CopyAt
  <2>2. ASSUME NEW e \in Proc
        PROVE  Sound(doing[e].reg)'
    <3>1. PICK s \in Registry : s = doing'[e].reg /\ Sound(s)
      <4>1. CASE e = c
        <5>1. Sound(NoRecord)
          BY <1>1, PluginBounds DEF Sound, SoundAt, CopyAt, NoRecord, Registry, Versions
        <5> QED
          BY <1>2, <1>3, <4>1, <5>1, NoneTypes
      <4>2. CASE e # c
        BY <1>1, <1>3, <4>2 DEF PluginInv, Operation
      <4> QED
        BY <4>1, <4>2
    <3> QED
      BY <3>1 DEF Sound, SoundAt, CopyAt
  <2> QED
    BY <2>1, <2>2
<1>6. \A e \in Proc : Working(doing[e])' /\ CopiedBy(doing[e])'
  <2> TAKE e \in Proc
  <2>1. CASE e = c
    BY <1>2, <1>3, <2>1, PluginAssumption DEF Working, CopiedBy, PlainKind, AtDir
  <2>2. CASE e # c
    BY <1>3, <2>2 DEF PluginInv, Working, CopiedBy
  <2> QED
    BY <2>1, <2>2
<1>7. \A p \in External : ~Past(NoOp, p)
  BY <1>2 DEF Past, PlainKind
<1>8. RivalsKnown'
  <2> SUFFICES ASSUME NEW e \in Proc, NEW f \in Proc, NEW p \in External, e # f,
                      Past(doing'[e], p), Past(doing'[f], p)
               PROVE  doing'[e].rival /\ doing'[f].rival
    BY Zenon DEF RivalsKnown, Past
  <2>1. e # c /\ f # c
    BY <1>3, <1>7
  <2> QED
    BY <1>3, <2>1 DEF PluginInv, RivalsKnown
<1>9. PromisesKept'
  <2> SUFFICES ASSUME NEW p \in External, promised'[p] # 0
               PROVE  dir[p] = promised'[p] /\ \A e \in Proc : ~Past(doing'[e], p)
    BY Zenon DEF PromisesKept, Past
  <2>1. p \in Plugin
    BY DEF Plugin
  <2>2. CASE p # doing[c].p \/ doing[c].kind \notin {"install", "update"}
    <3>1. promised'[p] = promised[p]
      BY <2>1, <2>2 DEF Promise
    <3>2. dir[p] = promised[p] /\ \A e \in Proc : ~Past(doing[e], p)
      BY <3>1 DEF PluginInv, PromisesKept
    <3> QED
      BY <1>3, <1>7, <3>1, <3>2
  <2>3. CASE p = doing[c].p /\ doing[c].kind \in {"install", "update"}
    <3>1. doing[c].ok /\ ~doing[c].rival /\ promised'[p] = source[p]
      BY <2>1, <2>3 DEF Promise
    <3>2. doing[c].t # p
      BY <1>1, <2>3 DEF Working, AtDir
    <3>3. dir[p] = source[p]
      BY <1>1, <2>3, <3>1, <3>2 DEF CopiedBy
    <3>4. \A e \in Proc \ {c} : ~Past(doing[e], p)
      <4>1. Past(doing[c], p)
        BY <2>3 DEF Past, PlainKind
      <4> QED
        BY <3>1, <4>1 DEF PluginInv, RivalsKnown
    <3> QED
      BY <1>3, <1>7, <3>1, <3>3, <3>4
  <2> QED
    BY <2>2, <2>3
<1> QED
  BY <1>4, <1>5, <1>6, <1>8, <1>9 DEF PluginInv

\* Versions are published only while no command runs.
LEMMA PublishKeeps ==
    ASSUME PluginInv, NEW q \in Plugin, Publish(q), promised' = promised
    PROVE  PluginInv'
<1>1. /\ doing \in [Proc -> Operation] /\ record \in Registry /\ source \in Registry
      /\ dir \in [Plugin -> Dirs] /\ setting \in Choices /\ promised \in Registry
      /\ Sound(record) /\ source[q] \in 1..(MaxVersion - 1) /\ \A c \in Proc : doing[c] = NoOp
  BY DEF PluginInv, PluginTypes, Publish
<1>0. UNCHANGED <<dir, record, setting, doing>>
  BY DEF Publish, disk
<1>2. PICK v \in {0, source[q] + 1} : source' = [source EXCEPT ![q] = v]
  BY DEF Publish
<1>3. v \in Versions /\ source' \in Registry
  BY <1>1, <1>2, PluginBounds DEF Versions, Registry
<1>4. \A p \in Plugin : p # q => source'[p] = source[p]
  BY <1>1, <1>2
<1>5. source'[q] = v
  BY <1>1, <1>2 DEF Registry
<1>6. NoOp.t = "none" /\ NoOp.clash = FALSE /\ NoOp.reg = NoRecord /\ NoOp.kind = "none" /\ NoOp.pc = "none"
  BY DEF NoOp
<1>7. Sound(record)' /\ Sound(NoRecord)'
  <2>1. ASSUME NEW p \in Plugin
        PROVE  SoundAt(record, p)' /\ SoundAt(NoRecord, p)'
    <3>1. record[p] \in Nat /\ source'[p] \in Nat /\ NoRecord[p] = 0
      BY <1>1, <1>3, PluginBounds DEF Registry, Versions, NoRecord
    <3>2. CASE p # q
      <4>1. SoundAt(record, p)
        BY <1>1 DEF Sound
      <4>2. source'[p] = source[p]
        BY <1>4, <3>2
      <4> QED
        BY <1>0, <3>1, <4>1, <4>2 DEF SoundAt, CopyAt
    <3>3. CASE p = q
      <4>1. record[p] <= source[p] /\ source[p] \in Nat
        BY <1>1, <3>3 DEF Sound, SoundAt, CopyAt
      <4> QED
        BY <1>0, <1>1, <1>2, <1>5, <3>1, <3>3, <4>1 DEF SoundAt, CopyAt
    <3> QED
      BY <3>2, <3>3
  <2> QED
    BY <2>1 DEF Sound
<1>8. \A c \in Proc : Sound(doing[c].reg)' /\ Working(doing[c])' /\ CopiedBy(doing[c])'
  <2> TAKE c \in Proc
  <2>1. doing'[c] = NoOp
    BY <1>0, <1>1
  <2>2. Working(doing[c])' /\ CopiedBy(doing[c])'
    BY <1>6, <2>1, PluginAssumption DEF Working, CopiedBy, PlainKind, AtDir
  <2>3. Sound(doing[c].reg)'
    BY <1>6, <1>7, <2>1 DEF Sound, SoundAt, CopyAt
  <2> QED
    BY <2>2, <2>3
<1>9. RivalsKnown' /\ PromisesKept'
  BY <1>0 DEF PluginInv, RivalsKnown, PromisesKept, Past
<1>10. PluginTypes'
  BY <1>0, <1>1, <1>3 DEF PluginTypes
<1> QED
  BY <1>7, <1>8, <1>9, <1>10 DEF PluginInv

LEMMA RemoveFileKeeps ==
    ASSUME PluginInv, NEW f \in File, RemoveFile(f), promised' = promised
    PROVE  PluginInv'
<1>1. UNCHANGED <<dir, source, doing, promised>>
  BY DEF RemoveFile
<1>2. record' \in {record, NoRecord} /\ setting' \in {setting, NoSetting}
  BY DEF RemoveFile
<1>3. source \in Registry
  BY DEF PluginInv, PluginTypes
<1>4. PluginTypes'
  BY <1>1, <1>2, NoneTypes DEF PluginInv, PluginTypes
<1>5. Sound(record)'
  <2>1. Sound(NoRecord)
    BY <1>3, PluginBounds DEF Sound, SoundAt, CopyAt, NoRecord, Registry, Versions
  <2>2. Sound(record)
    BY DEF PluginInv
  <2> QED
    BY <1>1, <1>2, <2>1, <2>2 DEF Sound, SoundAt, CopyAt
<1>6. \A c \in Proc : Sound(doing[c].reg)' /\ Working(doing[c])' /\ CopiedBy(doing[c])'
  BY <1>1 DEF PluginInv, Sound, SoundAt, CopyAt, Working, CopiedBy
<1>7. RivalsKnown' /\ PromisesKept'
  BY <1>1 DEF PluginInv, RivalsKnown, PromisesKept, Past
<1> QED
  BY <1>4, <1>5, <1>6, <1>7 DEF PluginInv

LEMMA PluginStart ==
    ASSUME PmInit, promised = NoRecord
    PROVE  PluginInv
<1>1. /\ dir = [p \in Plugin |-> None] /\ record = NoRecord /\ setting = NoSetting
      /\ source = [p \in Plugin |-> 1] /\ doing = [c \in Proc |-> NoOp]
  BY DEF PmInit
<1>2. NoOp.t = "none" /\ NoOp.clash = FALSE /\ NoOp.reg = NoRecord /\ NoOp.kind = "none" /\ NoOp.pc = "none"
  BY DEF NoOp
<1>3. PluginTypes
  <2>1. source \in Registry
    BY <1>1, PluginBounds DEF Registry, Versions
  <2>2. dir \in [Plugin -> Dirs]
    BY <1>1, PluginBounds DEF Dirs, None, Broken
  <2> QED
    BY <1>1, <2>1, <2>2, NoneTypes DEF PluginTypes
<1>4. Sound(NoRecord)
  BY <1>1, PluginBounds DEF Sound, SoundAt, CopyAt, NoRecord
<1>5. \A c \in Proc : doing[c] = NoOp
  BY <1>1
<1>6. Working(NoOp) /\ CopiedBy(NoOp) /\ \A p \in External : ~Past(NoOp, p)
  BY <1>2, PluginAssumption DEF Working, CopiedBy, PlainKind, AtDir, Past
<1>7. RivalsKnown
  BY <1>5, <1>6 DEF RivalsKnown
<1>8. PromisesKept
  BY PluginAssumption DEF PromisesKept, NoRecord, Plugin
<1> QED
  BY <1>1, <1>2, <1>3, <1>4, <1>5, <1>6, <1>7, <1>8 DEF PluginInv

-----------------------------------------------------------------------------
\* Alone, the others have nothing to do.
LEMMA NothingToDo ==
    ASSUME NEW c \in Proc, doing[c] = NoOp
    PROVE  ~OpStep(c) /\ doing[c].pc = "none" /\ doing[c].kind = "none"
<1>1. doing[c].pc = "none" /\ doing[c].kind = "none"
  BY DEF NoOp
<1> QED
  BY <1>1 DEF OpStep, Load, RemoveBegin, RemoveEnd, CopyBegin, CopyEnd, StoreBegin, StoreEnd, EnableBegin,
              EnableEnd, SyncStart, SyncVisit, SyncFlush, SyncEnd, Scan, PruneEnd

\* What a step of a build is at, to tell what it leaves synced.
BuildStep(o, n) ==
    /\ PluginInv /\ o \in Operation /\ o.kind = "build" /\ Working(o) /\ Synced(o) /\ Sound(o.reg)
    /\ n \in Operation /\ setting' = setting /\ source' = source
    /\ dir \in [Plugin -> Dirs] /\ source \in Registry
    /\ \A b \in Bundled : b # o.t \/ o.pc \notin Inside => (b \in hurt' <=> b \in hurt)

LEMMA SyncedStays ==
    ASSUME NEW o, NEW n, BuildStep(o, n), dir' = dir,
           o.pc \notin AtDir \cup {"syncing"}, n.pc \notin AtDir \cup {"syncing", "done"}, n.set = o.set,
           o.pc = "done" => o.ok,
           n.pc \in {"flushing", "scan", "pruning"} => o.pc \in {"flushing", "scan", "pruning"}
    PROVE  Synced(n)'
BY DEF BuildStep, Synced, Shipped, AtDir, Inside

LEMMA SyncedOver ==
    ASSUME NEW o, NEW ok \in BOOLEAN, NEW n, n = Over(o, ok), BuildStep(o, n), dir' = dir, o.pc # "done",
           ok => o.pc \in {"scan", "pruning"}
    PROVE  Synced(n)'
<1>1. n.pc = "done" /\ n.ok = ok /\ (ok => n.set = o.set)
  BY OverIs DEF BuildStep
<1> QED
  BY <1>1 DEF BuildStep, Synced, Shipped, AtDir, Inside

LEMMA SyncedAtDir ==
    ASSUME NEW o, NEW n, BuildStep(o, n), o.pc \in AtDir, n.pc \in AtDir, n.set = o.set, n.t = o.t,
           n.todo = o.todo, n.reg = o.reg, ~n.clash,
           NEW d, dir' = [dir EXCEPT ![o.t] = d]
    PROVE  Synced(n)'
<1>1. \A b \in Bundled : b # o.t => dir'[b] = dir[b]
  BY DEF BuildStep, Plugin
<1>2. o.pc # "done" /\ n.pc \notin {"done", "flushing", "scan", "pruning"}
  BY DEF AtDir
<1>3. o.set = setting /\ o.t \in Bundled
  BY <1>2 DEF BuildStep, Synced
<1>4. ASSUME NEW b \in Bundled \ n.todo, n.t # b
      PROVE  Shipped(b)' /\ (source'[b] # 0 => n.reg[b] = source'[b])
  <2>1. Shipped(b) /\ (source[b] # 0 => o.reg[b] = source[b])
    BY <1>4 DEF BuildStep, Synced
  <2> QED
    BY <1>1, <1>4, <2>1 DEF BuildStep, Shipped
<1> QED
  BY <1>2, <1>3, <1>4 DEF BuildStep, Synced

\* A visit is over: the copy is what is shipped, or nothing is shipped.
LEMMA SyncedVisited ==
    ASSUME NEW o, NEW n, BuildStep(o, n), o.pc \in AtDir, n.pc = "syncing", n.set = o.set, n.todo = o.todo,
           NEW d, dir' = [dir EXCEPT ![o.t] = d], n.reg \in Registry,
           \A p \in Plugin : p # o.t => n.reg[p] = o.reg[p],
           source[o.t] # 0 => d = source[o.t] /\ n.reg[o.t] = source[o.t]
    PROVE  Synced(n)'
<1>1. \A b \in Bundled : b # o.t => dir'[b] = dir[b] /\ n.reg[b] = o.reg[b]
  BY DEF BuildStep, Plugin
<1>2. o.pc # "done" /\ n.pc \notin AtDir \cup {"done", "flushing", "scan", "pruning"}
  BY DEF AtDir
<1>3. o.set = setting /\ o.t \in Bundled
  BY <1>2 DEF BuildStep, Synced
<1>4. dir'[o.t] = d
  BY <1>3 DEF BuildStep, Plugin
<1>5. ASSUME NEW b \in Bundled \ n.todo
      PROVE  Shipped(b)' /\ (source'[b] # 0 => n.reg[b] = source'[b])
  <2>1. CASE b = o.t
    BY <1>4, <2>1 DEF BuildStep, Shipped
  <2>2. CASE b # o.t
    <3>1. Shipped(b) /\ (source[b] # 0 => o.reg[b] = source[b])
      BY <1>5, <2>2 DEF BuildStep, Synced
    <3> QED
      BY <1>1, <2>2, <3>1 DEF BuildStep, Shipped
  <2> QED
    BY <2>1, <2>2
<1> QED
  BY <1>2, <1>3, <1>5 DEF BuildStep, Synced

\* No bundled plugin is due any more.
LEMMA SyncedThrough ==
    ASSUME NEW o, NEW n, BuildStep(o, n), dir' = dir, o.pc = "syncing", n.pc \in {"flushing", "scan"},
           n.set = o.set, ~\E b \in o.todo : Due(b, o.reg),
           Trusted(o.reg), \A c \in Proc : doing[c].pc \notin Inside
    PROVE  Synced(n)'
<1>1. o.set = setting
  BY DEF BuildStep, Synced, AtDir
<1>2. \A b \in Bundled : Shipped(b)
  <2> TAKE b \in Bundled
  <2>1. CASE b \notin o.todo
    BY <2>1 DEF BuildStep, Synced, AtDir
  <2>2. CASE b \in o.todo
    <3>1. SUFFICES ASSUME source[b] # 0, dir[b] # source[b]
                   PROVE  b \in hurt /\ dir[b] = Half(source[b])
      BY DEF Shipped
    <3>2. o.reg[b] = source[b] /\ Loads(b)
      BY <2>2, <3>1 DEF Due, NeedsSync
    <3>3. dir[b] \in CopyAt(b)
      BY <3>1, <3>2 DEF BuildStep, Sound, SoundAt, Plugin
    <3>4. dir[b] = Half(source[b])
      BY <3>1, <3>2, <3>3 DEF CopyAt, Copy, Loads, Partial, Broken, None
    <3>5. b \in hurt
      BY <3>1, <3>2 DEF Trusted, Settled
    <3> QED
      BY <3>4, <3>5
  <2> QED
    BY <2>1, <2>2
<1>3. n.pc \notin AtDir \cup {"syncing", "done"} /\ o.pc \notin Inside
  BY DEF AtDir, Inside
<1>4. \A b \in Bundled : Shipped(b)'
  BY <1>2, <1>3 DEF BuildStep, Shipped
<1> QED
  BY <1>1, <1>3, <1>4 DEF BuildStep, Synced

LEMMA BuildIsSynced ==
    ASSUME PluginInv, NEW c \in Proc, \A e \in Proc \ {c} : doing[e] = NoOp,
           doing[c].kind = "build", Synced(doing[c]), OpStep(c), Leaving(c), Trusted(doing[c].reg)
    PROVE  Synced(doing[c])'
<1>1. /\ doing[c] \in Operation /\ doing \in [Proc -> Operation] /\ record \in Registry /\ source \in Registry
      /\ dir \in [Plugin -> Dirs] /\ setting \in Choices
      /\ Working(doing[c]) /\ Sound(doing[c].reg) /\ doing[c].reg \in Registry /\ doing[c].ok \in BOOLEAN
  BY DEF PluginInv, PluginTypes, Operation
<1> DEFINE o == doing[c]
<1>2. o.pc \notin {"load", "store", "storing", "enable", "enabling"}
  BY <1>1 DEF Working
<1>3. UNCHANGED <<setting, source>>
  BY <1>2 DEF OpStep, Load, RemoveBegin, RemoveEnd, CopyBegin, CopyEnd, StoreBegin, StoreEnd, EnableBegin,
              EnableEnd, SyncStart, SyncVisit, SyncFlush, SyncEnd, Scan, PruneEnd, disk
<1>j. \A b \in Bundled : b # o.t \/ o.pc \notin Inside => (b \in hurt' <=> b \in hurt)
  BY DEF Leaving, InDir, Inside
<1>4. ASSUME NEW n \in Operation
      PROVE  BuildStep(o, n)
  BY <1>1, <1>3, <1>j DEF BuildStep
<1>5. ASSUME NEW n \in Operation, doing'[c] = n, Synced(n)'
      PROVE  Synced(doing[c])'
  BY <1>5 DEF Synced
<1>6. ASSUME NEW n, Becomes(c, n)
      PROVE  doing'[c] = n
  BY <1>1, <1>6 DEF Becomes
<1>7. ASSUME NEW ok \in BOOLEAN, Becomes(c, Over(o, ok)), dir' = dir, o.pc # "done",
             ok => o.pc \in {"scan", "pruning"}
      PROVE  Synced(doing[c])'
  <2>1. PICK n : n = Over(o, ok)
    OBVIOUS
  <2>2. n \in Operation /\ doing'[c] = n
    BY <1>1, <1>6, <1>7, <2>1, OverIs
  <2>3. Synced(n)'
    BY <1>4, <1>7, <2>1, <2>2, SyncedOver
  <2> QED
    BY <1>5, <2>2, <2>3
<1>8. o.clash = FALSE \/ o.pc \notin AtDir
  BY DEF Synced
<1>a. CASE RemoveBegin(c) \/ CopyBegin(c)
  <2>0. PICK at \in {"removing", "copying"} : Enter(c, at) /\ \E d : dir' = [dir EXCEPT ![o.t] = d]
    BY <1>a DEF RemoveBegin, CopyBegin
  <2>1. PICK d : dir' = [dir EXCEPT ![o.t] = d]
    BY <2>0
  <2>2. PICK n : n = [o EXCEPT !.pc = at, !.clash = o.clash \/ Others(c) # {}]
    OBVIOUS
  <2>3. at \in OpPC /\ (o.clash \/ Others(c) # {}) \in BOOLEAN
    BY DEF OpPC, AtDir
  <2>4. /\ n \in Operation /\ n.pc = at /\ n.set = o.set /\ n.t = o.t /\ n.todo = o.todo /\ n.reg = o.reg
        /\ n.clash = (o.clash \/ Others(c) # {})
    BY <1>1, <2>2, <2>3 DEF Operation
  <2>5. Others(c) = {}
    BY NothingToDo DEF Others
  <2>6. doing'[c] = n
    BY <2>0, <2>2 DEF Enter, Others
  <2>7. o.pc \in AtDir /\ at \in AtDir
    BY <1>a DEF RemoveBegin, CopyBegin, AtDir
  <2>8. Synced(n)'
    BY <1>4, <1>8, <2>1, <2>4, <2>5, <2>7, SyncedAtDir
  <2> QED
    BY <1>5, <2>4, <2>6, <2>8
<1>b. CASE RemoveEnd(c)
  <2>1. o.pc = "removing" /\ ~o.clash /\ o.t \in Plugin /\ o.v = source[o.t]
    BY <1>1, <1>8, <1>b DEF RemoveEnd, AtDir, Working
  <2>2. dir' = [dir EXCEPT ![o.t] = None] /\ Goto(c, Removed(o))
    BY <1>b, <2>1 DEF RemoveEnd
  <2>3. PICK at : at = Removed(o)
    OBVIOUS
  <2>4. (at = "syncing" /\ o.v = 0) \/ at = "copy"
    BY <2>3 DEF Removed
  <2>5. PICK n : n = [o EXCEPT !.pc = at]
    OBVIOUS
  <2>6. at \in OpPC
    BY <2>4 DEF OpPC, AtDir
  <2>7. n \in Operation /\ n.pc = at /\ n.set = o.set /\ n.t = o.t /\ n.todo = o.todo /\ n.reg = o.reg /\ n.clash = o.clash
    BY <1>1, <2>5, <2>6 DEF Operation
  <2>8. doing'[c] = n
    BY <1>6, <2>2, <2>3, <2>5 DEF Goto
  <2>9. Synced(n)'
    <3>1. CASE at = "copy"
      BY <1>4, <2>1, <2>2, <2>7, <3>1, SyncedAtDir DEF AtDir
    <3>2. CASE at = "syncing" /\ o.v = 0
      BY <1>1, <1>4, <2>1, <2>2, <2>7, <3>2, SyncedVisited DEF AtDir
    <3> QED
      BY <2>4, <3>1, <3>2
  <2> QED
    BY <1>5, <2>7, <2>8, <2>9
<1>c. CASE CopyEnd(c)
  <2>1. o.pc = "copying" /\ ~o.clash /\ o.t \in Plugin /\ o.t \in Bundled /\ o.v = source[o.t] /\ o.v \in Versions
    BY <1>1, <1>8, <1>c DEF CopyEnd, AtDir, Working, Synced, Operation
  <2>2. PICK r : r = [o.reg EXCEPT ![o.t] = o.v]
    OBVIOUS
  <2>3. r \in Registry /\ r[o.t] = o.v /\ \A p \in Plugin : p # o.t => r[p] = o.reg[p]
    BY <1>1, <2>1, <2>2 DEF Registry
  <2>4. PICK n : n = [o EXCEPT !.pc = "syncing", !.reg = r]
    OBVIOUS
  <2>5. "syncing" \in OpPC
    BY DEF OpPC
  <2>6. n \in Operation /\ n.pc = "syncing" /\ n.set = o.set /\ n.todo = o.todo /\ n.reg = r
    BY <1>1, <2>3, <2>4, <2>5 DEF Operation
  <2>7. PICK d : dir' = [dir EXCEPT ![o.t] = d] /\ d = o.v /\ Becomes(c, n)
    BY <1>c, <2>1, <2>2, <2>4 DEF CopyEnd
  <2>8. doing'[c] = n
    BY <1>6, <2>7
  <2>9. Synced(n)'
    <3>1. BuildStep(o, n) /\ o.pc \in AtDir
      BY <1>4, <2>1, <2>6 DEF AtDir
    <3>2. source[o.t] # 0 => d = source[o.t] /\ n.reg[o.t] = source[o.t]
      BY <2>1, <2>3, <2>6, <2>7
    <3>3. n.reg \in Registry /\ \A p \in Plugin : p # o.t => n.reg[p] = o.reg[p]
      BY <2>3, <2>6
    <3>4. PICK q : q = o
      OBVIOUS
    <3>5. /\ BuildStep(q, n) /\ q.pc \in AtDir /\ n.set = q.set /\ n.todo = q.todo
          /\ dir' = [dir EXCEPT ![q.t] = d] /\ \A p \in Plugin : p # q.t => n.reg[p] = q.reg[p]
          /\ source[q.t] # 0 => d = source[q.t] /\ n.reg[q.t] = source[q.t]
      BY <2>6, <2>7, <3>1, <3>2, <3>3, <3>4
    <3> QED
      BY <2>6, <3>3, <3>5, SyncedVisited
  <2> QED
    BY <1>5, <2>6, <2>8, <2>9
<1>d. CASE SyncStart(c)
  <2>1. dir' = dir /\ o.pc = "sync"
    BY <1>d DEF SyncStart, disk
  <2>2. CASE "registry" \in torn
    BY <1>7, <1>d, <2>1, <2>2 DEF SyncStart, Fail
  <2>3. CASE "registry" \notin torn
    <3>1. PICK n : n = [o EXCEPT !.pc = "syncing", !.reg = record, !.todo = Bundled]
      OBVIOUS
    <3>2. "syncing" \in OpPC
      BY DEF OpPC
    <3>3. n \in Operation /\ n.pc = "syncing" /\ n.set = o.set /\ n.todo = Bundled
      BY <1>1, <3>1, <3>2 DEF Operation
    <3>4. Becomes(c, n)
      BY <1>d, <2>3, <3>1 DEF SyncStart
    <3>5. Synced(n)'
      BY <1>3, <2>1, <3>3 DEF Synced, AtDir
    <3> QED
      BY <1>5, <1>6, <3>3, <3>4, <3>5
  <2> QED
    BY <2>2, <2>3
<1>e. CASE SyncVisit(c)
  <2>1. dir' = dir /\ o.pc = "syncing"
    BY <1>e DEF SyncVisit, disk
  <2>2. PICK b \in o.todo :
          Becomes(c, [o EXCEPT !.todo = o.todo \ {b}, !.t = b, !.v = source[b], !.clash = FALSE,
                          !.reg = IF source[b] = 0 THEN [o.reg EXCEPT ![b] = 0] ELSE o.reg,
                          !.changed = TRUE, !.pc = "remove"])
    BY <1>e DEF SyncVisit
  <2>3. o.todo \subseteq Bundled /\ b \in Bundled /\ b \in Plugin
    BY <1>1, <2>2 DEF Operation, Plugin
  <2>4. PICK r : r = IF source[b] = 0 THEN [o.reg EXCEPT ![b] = 0] ELSE o.reg
    OBVIOUS
  <2>5. r \in Registry /\ \A p \in Plugin : p # b => r[p] = o.reg[p]
    BY <1>1, <2>3, <2>4, PluginBounds DEF Registry, Versions
  <2>6. PICK n : n = [o EXCEPT !.todo = o.todo \ {b}, !.t = b, !.v = source[b], !.clash = FALSE,
                               !.reg = r, !.changed = TRUE, !.pc = "remove"]
    OBVIOUS
  <2>7. "remove" \in OpPC /\ source[b] \in Versions /\ o.todo \ {b} \subseteq Bundled
    BY <1>1, <2>3 DEF OpPC, AtDir, Registry
  <2>8. /\ n \in Operation /\ n.set = o.set /\ n.t = b /\ n.pc = "remove" /\ n.reg = r /\ n.clash = FALSE
        /\ n.todo = o.todo \ {b}
    BY <1>1, <2>3, <2>5, <2>6, <2>7 DEF Operation
  <2>9. Becomes(c, n)
    BY <2>2, <2>4, <2>6
  <2>10. o.set = setting
    BY <2>1 DEF Synced
  <2>11. ASSUME NEW x \in Bundled \ n.todo, x # b
         PROVE  Shipped(x)' /\ (source'[x] # 0 => n.reg[x] = source'[x])
    <3>1. Shipped(x) /\ (source[x] # 0 => o.reg[x] = source[x])
      BY <2>1, <2>8, <2>11 DEF Synced, AtDir
    <3>2. n.reg[x] = o.reg[x]
      BY <2>5, <2>8, <2>11 DEF Plugin
    <3> QED
      BY <1>3, <1>j, <2>1, <2>11, <3>1, <3>2 DEF Shipped, Inside
  <2>12. Synced(n)'
    BY <1>3, <2>3, <2>8, <2>10, <2>11 DEF Synced, AtDir
  <2> QED
    BY <1>5, <1>6, <2>8, <2>9, <2>12
<1>f. CASE SyncFlush(c)
  <2>1. dir' = dir /\ o.pc = "syncing" /\ ~\E b \in o.todo : Due(b, o.reg)
    BY <1>f DEF SyncFlush
  <2>2. PICK q : q = Resting(o)
    OBVIOUS
  <2>3. {"flushing", "scan"} \subseteq OpPC /\ 0 \in Versions
    BY PluginBounds DEF OpPC, Versions
  <2>4. q \in Operation /\ q.set = o.set
    BY <1>1, <2>2, <2>3 DEF Operation, Resting
  <2>5. PICK n : n = [q EXCEPT !.pc = IF o.changed THEN "flushing" ELSE "scan",
                               !.reg = IF o.changed THEN o.reg ELSE NoRecord]
    OBVIOUS
  <2>6. n \in Operation /\ n.set = o.set /\ n.pc \in {"flushing", "scan"}
    BY <1>1, <2>3, <2>4, <2>5, NoneTypes DEF Operation
  <2>7. Becomes(c, n)
    BY <1>f, <2>2, <2>5 DEF SyncFlush
  <2>8. Synced(n)'
    <3>1. \A e \in Proc : doing[e].pc \notin Inside
      BY <2>1, NothingToDo DEF Inside
    <3>2. BuildStep(o, n) /\ ~\E b \in o.todo : Due(b, o.reg)
      BY <1>4, <2>1, <2>6
    <3>3. PICK k : k = o
      OBVIOUS
    <3>4. /\ BuildStep(k, n) /\ k.pc = "syncing" /\ n.set = k.set
          /\ ~\E b \in k.todo : Due(b, k.reg)
          /\ Trusted(k.reg)
      BY <2>1, <2>6, <3>2, <3>3
    <3> QED
      BY <2>1, <2>6, <3>1, <3>4, SyncedThrough
  <2> QED
    BY <1>5, <1>6, <2>6, <2>7, <2>8
<1>g. CASE SyncEnd(c)
  <2>1. PICK n : n = [o EXCEPT !.pc = "scan", !.reg = NoRecord]
    OBVIOUS
  <2>2. "scan" \in OpPC
    BY DEF OpPC
  <2>3. n \in Operation /\ n.set = o.set /\ n.pc = "scan"
    BY <1>1, <2>1, <2>2, NoneTypes DEF Operation
  <2>4. Becomes(c, n) /\ dir' = dir /\ o.pc = "flushing"
    BY <1>g, <2>1 DEF SyncEnd
  <2>5. Synced(n)'
    BY <1>4, <2>3, <2>4, SyncedStays DEF AtDir
  <2> QED
    BY <1>5, <1>6, <2>3, <2>4, <2>5
<1>h. CASE Scan(c)
  <2>1. dir' = dir /\ o.pc = "scan"
    BY <1>h DEF Scan
  <2>2. Usable(o) \in BOOLEAN /\ \A ok \in BOOLEAN : Discovered(o, ok) = Over(o, ok)
    BY DEF Usable, Discovered
  <2>3. CASE "registry" \in torn
    BY <1>7, <1>h, <2>1, <2>3 DEF Scan, Fail
  <2>4. CASE "registry" \notin torn /\ Pruned(record) = record
    BY <1>7, <1>h, <2>1, <2>2, <2>4 DEF Scan
  <2>5. CASE "registry" \notin torn /\ Pruned(record) # record
    <3>1. PICK n : n = [o EXCEPT !.pc = "pruning", !.reg = Pruned(record), !.ok = Usable(o)]
      OBVIOUS
    <3>2. "pruning" \in OpPC /\ Pruned(record) \in Registry
      BY <1>1, PluginBounds DEF OpPC, Pruned, Registry, Versions
    <3>3. n \in Operation /\ n.set = o.set /\ n.pc = "pruning"
      BY <1>1, <2>2, <3>1, <3>2 DEF Operation
    <3>4. Becomes(c, n)
      BY <1>h, <2>5, <3>1 DEF Scan
    <3>5. Synced(n)'
      BY <1>4, <2>1, <3>3, SyncedStays DEF AtDir
    <3> QED
      BY <1>5, <1>6, <3>3, <3>4, <3>5
  <2> QED
    BY <2>3, <2>4, <2>5
<1>i. CASE PruneEnd(c)
  <2>1. dir' = dir /\ o.pc = "pruning" /\ Becomes(c, Discovered(o, o.ok))
    BY <1>i DEF PruneEnd
  <2>2. Discovered(o, o.ok) = Over(o, o.ok)
    BY DEF Discovered
  <2> QED
    BY <1>1, <1>7, <2>1, <2>2
<1> QED
  BY <1>2, <1>a, <1>b, <1>c, <1>d, <1>e, <1>f, <1>g, <1>h, <1>i
     DEF OpStep, Load, StoreBegin, StoreEnd, EnableBegin, EnableEnd

-----------------------------------------------------------------------------
\* What the REPL's runtimes hold, of the commands run for them.
LEMMA ShutsDown ==
    ASSUME NEW r \in Runtime, NEW ok \in BOOLEAN, Shutdown(r, ok), up \in [Plugin -> Int], excused \in BOOLEAN
    PROVE  /\ up' \in [Plugin -> Int] /\ excused' \in BOOLEAN
           /\ ~r.active => ok
           /\ ~excused' => ~excused /\ ok
           /\ ok => \A p \in Plugin : up'[p] = up[p] - Runs(r, p)
<1>1. CASE ~r.active
  BY <1>1 DEF Shutdown, Runs
<1>2. CASE r.active
  <2>1. RunShutdowns(r.set, ok) /\ excused' = (excused \/ ~ok)
    BY <1>2 DEF Shutdown, Failing
  <2>2. PICK done \in SUBSET r.set : /\ ok <=> done = r.set
                                     /\ up' = [p \in Plugin |-> IF p \in done THEN up[p] - 1 ELSE up[p]]
    BY <2>1 DEF RunShutdowns
  <2>3. ok => \A p \in Plugin : up'[p] = up[p] - Runs(r, p)
    BY <1>2, <2>2 DEF Runs
  <2>4. up' \in [Plugin -> Int]
    BY <2>2
  <2>5. excused' \in BOOLEAN /\ (~excused' => ~excused /\ ok)
    BY <2>1
  <2> QED
    BY <1>2, <2>3, <2>4, <2>5
<1> QED
  BY <1>1, <1>2

LEMMA NoRuntimeTypes == NoRuntime \in Runtime /\ NoRuntime.on = FALSE /\ NoRuntime.active = FALSE
<1>1. NoRecord \in [Plugin -> Int]
  BY DEF NoRecord
<1> QED
  BY <1>1 DEF NoRuntime, Runtime

LEMMA NoRuns == \A p \in Plugin : Runs(NoRuntime, p) = 0
BY NoRuntimeTypes DEF Runs

\* While nothing happens on the disk, neither does it to who is alone there.
DiskRests == UNCHANGED <<dir, setting, source, doing, hurt>>
LEMMA CurrentRests ==
    ASSUME DiskRests, NEW r, Current(r)
    PROVE  Current(r)'
BY DEF DiskRests, Current, Shipped, Enabled, Found, Loads

LEMMA ReplaceKeeps ==
    ASSUME PluginInv, RuntimeInv, Replace \/ TurnFails
    PROVE  RuntimeInv'
<1>1. DiskRests /\ alone' = alone /\ phase = "built"
  BY DEF Replace, TurnFails, DiskRests, pmVars, disk, overlap
<1>2. RuntimeTypes /\ Acting /\ AloneInv /\ HeldInv
  BY DEF RuntimeInv
<1>3. live \in Runtime /\ next \in Runtime /\ up \in [Plugin -> Int] /\ excused \in BOOLEAN /\ alone \in BOOLEAN
  BY <1>2 DEF RuntimeTypes
<1>4. next.active /\ next.on
  BY <1>1, <1>2, NoRuntimeTypes DEF HeldInv
<1>5. CASE Replace
  <2>1. PICK ok \in BOOLEAN : /\ Shutdown(live, ok)
                              /\ IF ok THEN live' = next /\ next' = NoRuntime /\ phase' = "idle"
                                       ELSE phase' = "leaving" /\ UNCHANGED <<live, next>>
    BY <1>5 DEF Replace
  <2>2. /\ up' \in [Plugin -> Int] /\ excused' \in BOOLEAN
        /\ ~excused' => ~excused /\ ok
        /\ ok => \A p \in Plugin : up'[p] = up[p] - Runs(live, p)
    BY <1>3, <2>1, ShutsDown
  <2>3. RuntimeTypes'
    BY <1>1, <1>3, <2>1, <2>2, NoRuntimeTypes DEF RuntimeTypes
  <2>4. Acting'
    BY <1>1, <1>2, <2>1 DEF Acting, DiskRests
  <2>5. AloneInv'
    <3>1. CASE alone
      <4>1. Current(next) /\ \A c \in Proc : c # Repl => doing[c] = NoOp
        BY <1>1, <1>2, <3>1 DEF AloneInv
      <4>2. PICK r : r = next /\ Current(r)
        BY <4>1
      <4>3. Current(r)'
        BY <1>1, <4>2, CurrentRests
      <4>4. phase' = "idle" => live' = r
        BY <2>1, <4>2
      <4>5. phase' = "idle" => Current(live)'
        BY <4>3, <4>4 DEF Current, Enabled, Found, Loads
      <4> QED
        BY <1>1, <2>1, <4>1, <4>5 DEF AloneInv, DiskRests
    <3>2. CASE ~alone
      BY <1>1, <3>2 DEF AloneInv
    <3> QED
      BY <3>1, <3>2
  <2>6. HeldInv'
    <3>1. CASE ok
      <4>1. ~excused' => \A p \in Plugin : up'[p] = Runs(next, p) + 0
        <5> SUFFICES ASSUME ~excused', NEW p \in Plugin
                     PROVE  up'[p] = Runs(next, p) + 0
          OBVIOUS
        <5>1. up[p] = Runs(live, p) + Runs(next, p) /\ up'[p] = up[p] - Runs(live, p)
          BY <1>2, <2>2, <3>1 DEF HeldInv
        <5>2. Runs(live, p) \in Int /\ Runs(next, p) \in Int
          BY DEF Runs
        <5> QED
          BY <5>1, <5>2
      <4>2. \A p \in Plugin : Runs(live, p)' = Runs(next, p) /\ Runs(next, p)' = 0
        BY <2>1, <3>1, NoRuntimeTypes DEF Runs
      <4>3. live' = next /\ next' = NoRuntime /\ phase' = "idle"
        BY <2>1, <3>1
      <4> QED
        BY <1>4, <4>1, <4>2, <4>3, NoRuntimeTypes DEF HeldInv
    <3>2. CASE ~ok
      BY <1>2, <2>1, <2>2, <3>2 DEF HeldInv
    <3> QED
      BY <3>1, <3>2
  <2> QED
    BY <2>3, <2>4, <2>5, <2>6 DEF RuntimeInv
<1>6. CASE TurnFails
  <2>1. PICK ok \in BOOLEAN : Shutdown(next, ok) /\ next' = [next EXCEPT !.active = ~ok]
    BY <1>6 DEF TurnFails
  <2>2. phase' = "leaving" /\ live' = live
    BY <1>6 DEF TurnFails
  <2>3. /\ up' \in [Plugin -> Int] /\ excused' \in BOOLEAN
        /\ ~excused' => ~excused /\ ok
        /\ ok => \A p \in Plugin : up'[p] = up[p] - Runs(next, p)
    BY <1>3, <2>1, ShutsDown
  <2>4. next' \in Runtime /\ next'.on = next.on /\ next'.active = ~ok
    BY <1>3, <2>1 DEF Runtime
  <2>5. RuntimeTypes'
    BY <1>1, <1>3, <2>2, <2>3, <2>4 DEF RuntimeTypes
  <2>6. Acting'
    BY <1>1, <1>2, <2>2 DEF Acting, DiskRests
  <2>7. AloneInv'
    BY <1>1, <1>2, <2>2 DEF AloneInv, DiskRests
  <2>8. HeldInv'
    <3>1. ~excused' => \A p \in Plugin : up'[p] = Runs(live, p)' + Runs(next, p)'
      <4> SUFFICES ASSUME ~excused', NEW p \in Plugin
                   PROVE  up'[p] = Runs(live, p)' + Runs(next, p)'
        OBVIOUS
      <4>1. up[p] = Runs(live, p) + Runs(next, p) /\ up'[p] = up[p] - Runs(next, p)
        BY <1>2, <2>3 DEF HeldInv
      <4>2. Runs(live, p) \in Int /\ Runs(next, p) \in Int
        BY DEF Runs
      <4>3. Runs(live, p)' = Runs(live, p) /\ Runs(next, p)' = 0
        BY <2>2, <2>3, <2>4 DEF Runs
      <4> QED
        BY <4>1, <4>2, <4>3
    <3> QED
      BY <1>2, <1>4, <2>2, <2>4, <3>1 DEF HeldInv
  <2> QED
    BY <2>5, <2>6, <2>7, <2>8 DEF RuntimeInv
<1> QED
  BY <1>5, <1>6

LEMMA DropKeeps ==
    ASSUME PluginInv, RuntimeInv, DropNext \/ DropLive \/ Quit
    PROVE  RuntimeInv'
<1>1. DiskRests /\ phase \in {"leaving", "idle"} /\ phase' \in {"leaving", "off"} /\ alone' \in {alone, FALSE}
  BY DEF DropNext, DropLive, Quit, DiskRests, pmVars, disk, overlap
<1>2. RuntimeTypes /\ Acting /\ AloneInv /\ HeldInv
  BY DEF RuntimeInv
<1>3. live \in Runtime /\ next \in Runtime /\ up \in [Plugin -> Int] /\ excused \in BOOLEAN /\ alone \in BOOLEAN
  BY <1>2 DEF RuntimeTypes
<1>4. Acting'
  BY <1>1, <1>2 DEF Acting, DiskRests
<1>5. AloneInv'
  BY <1>1, <1>2, <1>3 DEF AloneInv, DiskRests
<1>6. \A p \in Plugin : Runs(live, p) \in Int /\ Runs(next, p) \in Int
  BY DEF Runs
<1>a. CASE DropNext
  <2>1. PICK ok \in BOOLEAN : Shutdown(next, ok)
    BY <1>a DEF DropNext
  <2>2. /\ up' \in [Plugin -> Int] /\ excused' \in BOOLEAN
        /\ ~excused' => ~excused /\ ok
        /\ ok => \A p \in Plugin : up'[p] = up[p] - Runs(next, p)
    BY <1>3, <2>1, ShutsDown
  <2>3. next' = NoRuntime /\ live' = live /\ phase' = "leaving" /\ phase = "leaving"
    BY <1>a DEF DropNext
  <2>4. RuntimeTypes'
    BY <1>1, <1>3, <2>2, <2>3, NoRuntimeTypes DEF RuntimeTypes
  <2>5. \A p \in Plugin : Runs(live, p)' = Runs(live, p) /\ Runs(next, p)' = 0
    BY <2>3, NoRuntimeTypes DEF Runs
  <2>6. ~excused' => \A p \in Plugin : up'[p] = Runs(live, p)' + Runs(next, p)'
    BY <1>2, <1>3, <1>6, <2>2, <2>5 DEF HeldInv
  <2> QED
    BY <1>2, <1>4, <1>5, <2>3, <2>4, <2>6, NoRuntimeTypes DEF HeldInv, RuntimeInv
<1>b. CASE DropLive
  <2>1. PICK ok \in BOOLEAN : Shutdown(live, ok)
    BY <1>b DEF DropLive
  <2>2. /\ up' \in [Plugin -> Int] /\ excused' \in BOOLEAN
        /\ ~excused' => ~excused /\ ok
        /\ ok => \A p \in Plugin : up'[p] = up[p] - Runs(live, p)
    BY <1>3, <2>1, ShutsDown
  <2>3. next' = next /\ live' = NoRuntime /\ phase' = "off" /\ ~next.on
    BY <1>b DEF DropLive
  <2>4. RuntimeTypes'
    BY <1>1, <1>3, <2>2, <2>3, NoRuntimeTypes DEF RuntimeTypes
  <2>5. \A p \in Plugin : Runs(next, p)' = Runs(next, p) /\ Runs(live, p)' = 0
    BY <2>3, NoRuntimeTypes DEF Runs
  <2>6. ~excused' => \A p \in Plugin : up'[p] = Runs(live, p)' + Runs(next, p)'
    BY <1>2, <1>3, <1>6, <2>2, <2>5 DEF HeldInv
  <2> QED
    BY <1>2, <1>4, <1>5, <2>3, <2>4, <2>6, NoRuntimeTypes DEF HeldInv, RuntimeInv
<1>c. CASE Quit
  <2>1. UNCHANGED <<live, next, up, excused>> /\ phase' = "leaving" /\ phase = "idle"
    BY <1>c DEF Quit, NoFault
  <2>2. RuntimeTypes'
    BY <1>1, <1>3, <2>1 DEF RuntimeTypes
  <2>3. HeldInv'
    BY <1>2, <2>1 DEF HeldInv, Runs
  <2> QED
    BY <1>4, <1>5, <2>2, <2>3 DEF RuntimeInv
<1> QED
  BY <1>a, <1>b, <1>c

LEMMA BuildStarts ==
    ASSUME PluginInv, RuntimeInv, Start \/ Turn \/ Reload
    PROVE  PluginInv' /\ RuntimeInv'
<1>1. /\ phase \in {"off", "idle", "reload"} /\ phase' = "build" /\ doing[Repl] = NoOp /\ BeginBuild(Repl)
      /\ alone' = (Busy = {}) /\ UNCHANGED <<live, next, up, excused, promised>>
  BY DEF Start, Turn, Reload, Build, NoFault
<1>2. RuntimeTypes /\ Acting /\ AloneInv /\ HeldInv
  BY DEF RuntimeInv
<1>3. /\ doing \in [Proc -> Operation] /\ setting \in Choices
  BY DEF PluginInv, PluginTypes
<1>4. UNCHANGED <<dir, setting, source>>
  BY <1>1 DEF BeginBuild, disk
<1>5. PICK n : n = [NoOp EXCEPT !.kind = "build", !.set = setting,
                                !.pc = IF "settings" \in torn THEN "done" ELSE "sync",
                                !.ok = "settings" \notin torn]
  OBVIOUS
<1>6. /\ n.kind = "build" /\ n.set = setting /\ n.ok = ("settings" \notin torn)
      /\ n.pc = IF "settings" \in torn THEN "done" ELSE "sync"
  BY <1>3, <1>5, NoneTypes DEF Operation
<1>7. Becomes(Repl, n)
  BY <1>1, <1>5 DEF BeginBuild
<1>8. doing'[Repl] = n /\ \A e \in Proc \ {Repl} : doing'[e] = doing[e]
  BY <1>3, <1>7, ReplAssumption DEF Becomes
<1>9. PluginInv'
  BY <1>1, ReplAssumption, BeginBuildKeeps
<1>10. RuntimeTypes'
  BY <1>1, <1>2 DEF RuntimeTypes
<1>11. Acting'
  BY <1>1, <1>2, <1>6, <1>8 DEF Acting
<1>12. Synced(n)'
  BY <1>4, <1>6 DEF Synced, AtDir
<1>13. AloneInv'
  <2>1. Synced(doing[Repl])'
    BY <1>8, <1>12 DEF Synced
  <2>2. ASSUME alone'
        PROVE  \A e \in Proc : e # Repl => doing'[e] = NoOp
    <3>1. \A c \in Proc : doing[c] = NoOp
      BY <1>1, <2>2 DEF Busy
    <3> QED
      BY <1>8, <3>1
  <2> QED
    BY <1>1, <2>1, <2>2 DEF AloneInv
<1>14. HeldInv'
  BY <1>1, <1>2 DEF HeldInv, Runs
<1> QED
  BY <1>9, <1>10, <1>11, <1>13, <1>14 DEF RuntimeInv

\* The frames of the steps that leave the REPL's runtimes alone.
HeldRests == UNCHANGED <<live, next, up, excused>>
LEMMA HeldStays ==
    ASSUME HeldInv, HeldRests, 
           phase' # phase => phase \in {"idle", "command"} /\ phase' \in {"leaving", "command", "reload"}
    PROVE  HeldInv'
BY DEF HeldInv, HeldRests, Runs

LEMMA CommandKeeps ==
    ASSUME PluginInv, RuntimeInv, Command \/ EndCommand
    PROVE  PluginInv' /\ RuntimeInv'
<1>1. /\ phase \in {"idle", "command"} /\ phase' \in {"command", "reload", "leaving"} /\ HeldRests /\ alone' = alone
      /\ UNCHANGED <<dir, record, setting, source>>
  BY DEF Command, EndCommand, HeldRests, Begin, disk
<1>2. RuntimeTypes /\ Acting /\ AloneInv /\ HeldInv
  BY DEF RuntimeInv
<1>3. doing \in [Proc -> Operation]
  BY DEF PluginInv, PluginTypes
<1>4. HeldInv'
  BY <1>1, <1>2, HeldStays
<1>5. RuntimeTypes'
  BY <1>1, <1>2 DEF RuntimeTypes, HeldRests
<1>6. PluginInv' /\ \A e \in Proc \ {Repl} : doing'[e] = doing[e]
  <2>1. CASE Command
    <3>1. PICK k \in CommandKind, p \in Plugin : Begin(Repl, k, p)
      BY <2>1 DEF Command
    <3>2. promised' = promised
      BY <2>1 DEF Command
    <3> QED
      BY <1>3, <3>1, <3>2, ReplAssumption, BeginKeeps DEF Begin, Becomes
  <2>2. CASE EndCommand
    BY <1>1, <1>3, <2>2, ReplAssumption, PromiseKeeps DEF EndCommand, Becomes
  <2> QED
    BY <2>1, <2>2
<1>7. doing'[Repl].kind # "build" /\ (phase' # "command" => doing'[Repl] = NoOp)
  <2>1. CASE Command
    <3>1. PICK k \in CommandKind, p \in Plugin : Begin(Repl, k, p)
      BY <2>1 DEF Command
    <3>2. PICK n : n = IF "settings" \in torn THEN [NoOp EXCEPT !.kind = k, !.pc = "done", !.ok = FALSE]
                   ELSE [NoOp EXCEPT !.kind = k, !.p = p,
                                     !.pc = IF k \in {"enable", "disable"} THEN "sync" ELSE "load"]
      OBVIOUS
    <3>3. n.kind = k /\ k # "build"
      BY <3>2, NoneTypes DEF Operation, CommandKind
    <3>4. Becomes(Repl, n) /\ phase' = "command"
      BY <2>1, <3>1, <3>2 DEF Begin, Command
    <3> QED
      BY <1>3, <3>3, <3>4, ReplAssumption DEF Becomes
  <2>2. CASE EndCommand
    <3>1. doing'[Repl] = NoOp
      BY <1>3, <2>2, ReplAssumption DEF EndCommand, Becomes
    <3> QED
      BY <3>1 DEF NoOp
  <2> QED
    BY <2>1, <2>2
<1>8. Acting'
  BY <1>1, <1>2, <1>6, <1>7 DEF Acting
<1>9. AloneInv'
  BY <1>1, <1>2, <1>6 DEF AloneInv
<1> QED
  BY <1>4, <1>5, <1>6, <1>8, <1>9 DEF RuntimeInv

LEMMA StepKeeps ==
    ASSUME PluginInv, TrustInv, RuntimeInv, NEW c \in Proc, Step(c)
    PROVE  PluginInv' /\ RuntimeInv'
<1>1. PluginInv' /\ KindsStay
  BY OpStepKeeps
<1>2. OpStep(c) /\ HeldRests /\ phase' = phase /\ alone' = alone
  BY DEF Step, HeldRests
<1>3. RuntimeTypes /\ Acting /\ AloneInv /\ HeldInv
  BY DEF RuntimeInv
<1>4. RuntimeTypes' /\ HeldInv'
  BY <1>2, <1>3, HeldStays DEF RuntimeTypes, HeldRests
<1>5. Acting'
  BY <1>1, <1>2, <1>3, ReplAssumption DEF Acting, KindsStay
<1>6. AloneInv'
  <2> SUFFICES ASSUME alone
               PROVE  AloneInv'
    BY <1>2 DEF AloneInv
  <2>1. \A e \in Proc : e # Repl => doing[e] = NoOp
    BY <1>3 DEF AloneInv
  <2>2. c = Repl /\ doing[Repl] # NoOp /\ phase \in {"build", "command"}
    <3>1. doing[c] # NoOp
      BY <1>2, NothingToDo
    <3> QED
      BY <1>3, <2>1, <3>1 DEF Acting
  <2>3. \A e \in Proc : e # Repl => doing'[e] = NoOp
    BY <1>1, <2>1 DEF KindsStay
  <2>4. phase = "build" => Synced(doing[Repl])'
    <3> SUFFICES ASSUME phase = "build"
                 PROVE  Synced(doing[Repl])'
      OBVIOUS
    <3>1. doing[Repl].kind = "build" /\ Synced(doing[Repl])
      BY <1>3 DEF Acting, AloneInv
    <3> QED
      <4>1. Leaving(Repl) /\ Trusted(doing[Repl].reg)
        BY <2>2, ReplAssumption DEF Step, TrustInv
      <4> QED
        BY <1>2, <2>1, <2>2, <3>1, <4>1, BuildIsSynced
  <2> QED
    BY <1>2, <2>2, <2>3, <2>4 DEF AloneInv
<1> QED
  BY <1>1, <1>4, <1>5, <1>6 DEF RuntimeInv

LEMMA OthersKeep ==
    ASSUME PluginInv, RuntimeInv, NEW c \in Proc, OtherCommand(c) \/ EndOther(c)
    PROVE  PluginInv' /\ RuntimeInv'
<1>1. c # Repl /\ HeldRests /\ phase' = phase /\ UNCHANGED <<dir, record, setting, source>>
  BY DEF OtherCommand, EndOther, HeldRests, Begin, disk
<1>2. RuntimeTypes /\ Acting /\ AloneInv /\ HeldInv /\ doing \in [Proc -> Operation]
  BY DEF RuntimeInv, PluginInv, PluginTypes
<1>3. alone' = FALSE
  <2>1. CASE EndOther(c)
    <3>1. doing[c] # NoOp
      BY <2>1 DEF EndOther, NoOp
    <3> QED
      BY <1>1, <1>2, <2>1, <3>1 DEF EndOther, AloneInv, RuntimeTypes
  <2> QED
    BY <2>1 DEF OtherCommand
<1>4. /\ PluginInv' /\ doing'[c].kind # "build" /\ \A e \in Proc \ {c} : doing'[e] = doing[e]
  <2>1. CASE OtherCommand(c)
    <3>1. PICK k \in CommandKind, p \in Plugin : Begin(c, k, p)
      BY <2>1, ReplAssumption DEF OtherCommand
    <3>2. promised' = promised
      BY <2>1 DEF OtherCommand
    <3>3. PICK n : n = IF "settings" \in torn THEN [NoOp EXCEPT !.kind = k, !.pc = "done", !.ok = FALSE]
                   ELSE [NoOp EXCEPT !.kind = k, !.p = p,
                                     !.pc = IF k \in {"enable", "disable"} THEN "sync" ELSE "load"]
      OBVIOUS
    <3>4. n.kind = k /\ k # "build"
      BY <3>3, NoneTypes DEF Operation, CommandKind
    <3>5. Becomes(c, n)
      BY <3>1, <3>3 DEF Begin
    <3> QED
      BY <1>2, <3>1, <3>2, <3>4, <3>5, BeginKeeps DEF Becomes
  <2>2. CASE EndOther(c)
    <3>1. doing'[c] = NoOp /\ \A e \in Proc \ {c} : doing'[e] = doing[e]
      BY <1>2, <2>2 DEF EndOther, Becomes
    <3>2. PluginInv'
      BY <1>1, <2>2, PromiseKeeps DEF EndOther
    <3> QED
      BY <3>1, <3>2 DEF NoOp
  <2> QED
    BY <2>1, <2>2
<1>5. RuntimeTypes' /\ HeldInv'
  BY <1>1, <1>2, <1>3, HeldStays DEF RuntimeTypes, HeldRests
<1>6. Acting'
  BY <1>1, <1>2, <1>4, ReplAssumption DEF Acting
<1>7. AloneInv'
  BY <1>3 DEF AloneInv
<1> QED
  BY <1>4, <1>5, <1>6, <1>7 DEF RuntimeInv

LEMMA CrashKeeps ==
    ASSUME PluginInv, RuntimeInv, NEW c \in Proc, Crash(c)
    PROVE  PluginInv' /\ RuntimeInv'
<1>1. /\ excused' = TRUE /\ Becomes(c, NoOp) /\ UNCHANGED <<dir, record, setting, source, promised, up>>
  BY DEF Crash, Stop
<1>2. RuntimeTypes /\ Acting /\ AloneInv /\ HeldInv /\ doing \in [Proc -> Operation]
  BY DEF RuntimeInv, PluginInv, PluginTypes
<1>3. PluginInv'
  BY <1>1, LeavesKeeps
<1>4. doing'[c] = NoOp /\ NoOp.kind = "none" /\ \A e \in Proc \ {c} : doing'[e] = doing[e]
  BY <1>1, <1>2 DEF Becomes, NoOp
<1>5. alone' = FALSE
  BY <1>2 DEF Crash, AloneInv, RuntimeTypes
<1>6. CASE c = Repl
  <2>1. phase' = "off" /\ live' = NoRuntime /\ next' = NoRuntime
    BY <1>6 DEF Crash
  <2>2. RuntimeTypes' /\ HeldInv'
    BY <1>1, <1>2, <1>5, <2>1, NoRuntimeTypes DEF RuntimeTypes, HeldInv
  <2>3. Acting'
    BY <1>2, <1>4, <1>6, <2>1 DEF Acting
  <2> QED
    BY <1>3, <1>5, <2>2, <2>3 DEF RuntimeInv, AloneInv
<1>7. CASE c # Repl
  <2>1. UNCHANGED <<phase, live, next>>
    BY <1>7 DEF Crash
  <2>2. RuntimeTypes' /\ HeldInv'
    BY <1>1, <1>2, <1>5, <2>1 DEF RuntimeTypes, HeldInv
  <2>3. Acting'
    BY <1>2, <1>4, <1>7, <2>1, ReplAssumption DEF Acting
  <2> QED
    BY <1>3, <1>5, <2>2, <2>3 DEF RuntimeInv, AloneInv
<1> QED
  BY <1>6, <1>7

LEMMA OutsideKeeps ==
    ASSUME PluginInv, RuntimeInv, Outside
    PROVE  PluginInv' /\ RuntimeInv'
<1>1. HeldRests /\ phase' = phase /\ alone' = FALSE /\ UNCHANGED <<doing, promised>>
  BY DEF Outside, HeldRests, Publish, RemoveFile
<1>2. PluginInv'
  BY <1>1, PublishKeeps, RemoveFileKeeps DEF Outside
<1>3. RuntimeTypes' /\ Acting' /\ AloneInv' /\ HeldInv'
  BY <1>1, HeldStays DEF RuntimeInv, RuntimeTypes, Acting, AloneInv, HeldRests
<1> QED
  BY <1>2, <1>3 DEF RuntimeInv

\* The runtime built is of the plugins that are on disk and enabled.
LEMMA BuildEndsKeeps ==
    ASSUME PluginInv, RuntimeInv, BuildEnds
    PROVE  PluginInv' /\ RuntimeInv'
<1>1. /\ phase = "build" /\ doing[Repl].pc = "done" /\ Becomes(Repl, NoOp) /\ phase' \in {"built", "leaving"}
      /\ UNCHANGED <<dir, record, setting, source, live, promised, alone, hurt>>
  BY DEF BuildEnds, disk, Leaves
<1>2. RuntimeTypes /\ Acting /\ AloneInv /\ HeldInv /\ doing \in [Proc -> Operation] /\ dir \in [Plugin -> Dirs]
  BY DEF RuntimeInv, PluginInv, PluginTypes
<1>3. live \in Runtime /\ next \in Runtime /\ up \in [Plugin -> Int] /\ excused \in BOOLEAN /\ alone \in BOOLEAN
  BY <1>2 DEF RuntimeTypes
<1>4. PluginInv'
  BY <1>1, ReplAssumption, LeavesKeeps
<1>5. doing'[Repl] = NoOp /\ NoOp.kind = "none" /\ \A e \in Proc \ {Repl} : doing'[e] = doing[e]
  BY <1>1, <1>2, ReplAssumption DEF Becomes, NoOp
<1>6. Acting'
  BY <1>1, <1>2, <1>5 DEF Acting
<1>7. ~next.on /\ next = NoRuntime
  BY <1>1, <1>2 DEF HeldInv
<1> DEFINE S == Enabled(doing[Repl].set)
<1>8. S \subseteq Plugin
  BY DEF Enabled, Found
<1>9. \A ok \in BOOLEAN : RunInits(S, ok) => up' \in [Plugin -> Int]
  BY <1>3 DEF RunInits
<1>a. CASE phase' = "leaving"
  <2>1. (excused' = TRUE \/ (excused' = excused /\ up' = up)) /\ next' = next /\ up' \in [Plugin -> Int]
    BY <1>3, <1>9, <1>a DEF BuildEnds, NoFault
  <2>2. RuntimeTypes'
    BY <1>1, <1>2, <1>a, <2>1 DEF RuntimeTypes
  <2>3. HeldInv'
    <3>1. excused' = TRUE \/ \A p \in Plugin : up'[p] = Runs(live, p)' + Runs(next, p)'
      BY <1>1, <1>2, <2>1 DEF HeldInv, Runs
    <3> QED
      BY <1>1, <1>2, <1>7, <1>a, <2>1, <3>1 DEF HeldInv
  <2>4. AloneInv'
    BY <1>1, <1>2, <1>5, <1>a DEF AloneInv
  <2> QED
    BY <1>4, <1>6, <2>2, <2>3, <2>4 DEF RuntimeInv
<1>b. CASE phase' = "built"
  <2>1. /\ doing[Repl].ok /\ RunInits(S, TRUE) /\ excused' = excused
        /\ next' = [on |-> TRUE, set |-> S, ver |-> [p \in Plugin |-> IF p \in S THEN dir[p] ELSE 0], active |-> TRUE]
    BY <1>b DEF BuildEnds, NoFault
  <2>2. up' \in [Plugin -> Int] /\ \A p \in Plugin : up'[p] = IF p \in S THEN up[p] + 1 ELSE up[p]
    BY <1>3, <2>1 DEF RunInits
  <2>3. next' \in Runtime /\ next'.on /\ next'.active /\ next'.set = S /\ \A p \in S : next'.ver[p] = dir[p]
    <3>1. [p \in Plugin |-> IF p \in S THEN dir[p] ELSE 0] \in [Plugin -> Int]
      <4>1. \A p \in Plugin : dir[p] \in Int
        BY <1>2, PluginBounds DEF Dirs, Broken
      <4> QED
        BY <4>1
    <3> QED
      BY <1>8, <2>1, <3>1 DEF Runtime
  <2>4. RuntimeTypes'
    BY <1>1, <1>2, <2>1, <2>2, <2>3 DEF RuntimeTypes
  <2>5. HeldInv'
    <3>1. ~excused => \A p \in Plugin : up'[p] = Runs(live, p)' + Runs(next, p)'
      <4> SUFFICES ASSUME ~excused, NEW p \in Plugin
                   PROVE  up'[p] = Runs(live, p)' + Runs(next, p)'
        OBVIOUS
      <4>1. up[p] = Runs(live, p) + Runs(next, p) /\ Runs(next, p) = 0
        BY <1>2, <1>7, NoRuns DEF HeldInv
      <4>2. Runs(live, p)' = Runs(live, p) /\ Runs(live, p) \in Int /\ Runs(next, p)' = IF p \in S THEN 1 ELSE 0
        BY <1>1, <2>3 DEF Runs
      <4> QED
        BY <2>2, <4>1, <4>2
    <3> QED
      BY <1>1, <1>2, <1>b, <2>1, <2>3, <3>1 DEF HeldInv
  <2>6. AloneInv'
    <3> SUFFICES ASSUME alone
                 PROVE  AloneInv'
      BY <1>1 DEF AloneInv
    <3>1. Synced(doing[Repl]) /\ \A e \in Proc : e # Repl => doing[e] = NoOp
      BY <1>1, <1>2 DEF AloneInv
    <3>2. doing[Repl].set = setting /\ \A b \in Bundled : Shipped(b)
      BY <1>1, <2>1, <3>1 DEF Synced
    <3>3. S = Enabled(setting)
      BY <3>2
    <3>4. Current(next)'
      BY <1>1, <2>3, <3>2, <3>3 DEF Current, Shipped, Enabled, Found, Loads
    <3> QED
      BY <1>5, <1>b, <3>1, <3>4 DEF AloneInv
  <2> QED
    BY <1>4, <1>6, <2>4, <2>5, <2>6 DEF RuntimeInv
<1> QED
  BY <1>1, <1>a, <1>b

-----------------------------------------------------------------------------
\* What a step leaves of the other operations, and what it makes of its own.
Shape(c, n) ==
    LET o == doing[c]
    IN  /\ doing'[c] = n
        /\ \A e \in Proc \ {c} : /\ doing'[e].t = doing[e].t /\ doing'[e].pc = doing[e].pc
                                 /\ doing'[e].reg = doing[e].reg /\ doing'[e].todo = doing[e].todo
                                 /\ doing'[e].clash => doing[e].clash \/ doing[e] # NoOp
        /\ source' = source
        /\ \A b \in Bundled : dir'[b] # dir[b] => b = o.t /\ o.pc \in AtDir
        /\ o.pc = "remove" => n.pc = "removing" /\ n.t = o.t
        /\ o.pc \in Inside /\ o.t \in Bundled /\ source[o.t] # 0 =>
              (n.pc \in Inside /\ n.t = o.t) \/ dir'[o.t] = source[o.t] \/ o.clash
        /\ o.pc \in Inside => n.pc # "remove" /\ (n.pc \in Inside => n.t = o.t)
        /\ n.clash => o.clash \/ \E e \in Proc \ {c} : doing[e] # NoOp
        /\ \A b \in Bundled : /\ n.reg[b] \in {0, record[b], o.reg[b]} \/ (o.pc = "copying" /\ b = o.t)
                              /\ record'[b] \in {0, record[b], o.reg[b]}
        /\ Visits(n) => n.t \notin n.todo
        /\ n.pc = "syncing" \/ Visits(n) =>
              \/ o.pc = "sync" /\ n.pc = "syncing" /\ n.reg = record /\ record' = record
              \/ /\ o.pc = "syncing" \/ Visits(o)
                 /\ record' = record /\ n.todo \subseteq o.todo
                 /\ \A b \in n.todo : n.reg[b] = o.reg[b]
        /\ Visits(n) => (Visits(o) /\ n.t = o.t) \/ (o.pc = "syncing" /\ n.t \in o.todo /\ Due(n.t, o.reg))

\* Of a step that leaves the directories and the others' operations alone, and is
\* not at a visit.
LEMMA ShapeOutside ==
    ASSUME PluginInv, NEW c \in Proc, NEW n, Becomes(c, n), UNCHANGED <<dir, source>>,
           doing[c].pc # "remove", doing[c].pc \in Inside => doing[c].clash,
           n.clash => doing[c].clash, n.pc \notin AtDir \cup {"syncing"},
           \A b \in Bundled : /\ n.reg[b] \in {0, record[b], doing[c].reg[b]}
                              /\ record'[b] \in {0, record[b], doing[c].reg[b]}
    PROVE  Shape(c, n)
<1>1. doing \in [Proc -> Operation]
  BY DEF PluginInv, PluginTypes
<1>2. doing'[c] = n /\ \A e \in Proc \ {c} : doing'[e] = doing[e]
  BY <1>1 DEF Becomes
<1> QED
  BY <1>2 DEF Shape, Visits, AtDir, Inside

LEMMA NoRecordIs == \A p \in Plugin : NoRecord[p] = 0
BY DEF NoRecord

LEMMA ShapeOver ==
    ASSUME PluginInv, NEW c \in Proc, NEW ok \in BOOLEAN, Becomes(c, Over(doing[c], ok)), UNCHANGED <<dir, source>>,
           doing[c].pc # "remove", doing[c].pc \in Inside => doing[c].clash,
           record' \in {record, doing[c].reg}
    PROVE  \E n : Shape(c, n)
<1>1. doing[c] \in Operation /\ Bundled \subseteq Plugin
  BY DEF PluginInv, PluginTypes, Plugin
<1>2. PICK n : n = Over(doing[c], ok)
  OBVIOUS
<1>3. n.pc = "done" /\ ~n.clash /\ n.reg = NoRecord
  BY <1>1, <1>2, OverIs
<1>4. Shape(c, n)
  BY <1>1, <1>2, <1>3, NoRecordIs, ShapeOutside DEF AtDir
<1> QED
  BY <1>4

LEMMA ShapeEnable ==
    ASSUME PluginInv, NEW c \in Proc, EnableBegin(c) \/ EnableEnd(c) \/ StoreBegin(c) \/ StoreEnd(c)
    PROVE  \E n : Shape(c, n)
<1>1. /\ doing[c] \in Operation /\ Bundled \subseteq Plugin /\ Working(doing[c]) /\ record \in Registry /\ doing[c].reg \in Registry
      /\ doing[c].pc \in {"enable", "enabling", "store", "storing"} /\ UNCHANGED <<dir, source>>
      /\ NoRecord \in Registry
  BY NoneTypes DEF PluginInv, PluginTypes, Plugin, Operation, EnableBegin, EnableEnd, StoreBegin, StoreEnd
<1>2. doing[c].pc \notin AtDir \cup Inside
  BY <1>1 DEF AtDir, Inside
<1>3. ASSUME Fail(c) \/ Becomes(c, Over(doing[c], TRUE)), record' \in {record, doing[c].reg}
      PROVE  \E n : Shape(c, n)
  BY <1>1, <1>2, <1>3, ShapeOver DEF Fail, AtDir
<1>4. ASSUME NEW n, Becomes(c, n), n.pc \in {"enable", "enabling", "sync", "storing"}, n.clash => doing[c].clash,
             \A b \in Bundled : /\ n.reg[b] \in {0, record[b], doing[c].reg[b]}
                                /\ record'[b] \in {0, record[b], doing[c].reg[b]}
      PROVE  \E m : Shape(c, m)
  <2>1. Shape(c, n)
    BY <1>1, <1>2, <1>4, ShapeOutside DEF AtDir
  <2> QED
    BY <2>1
<1>a. CASE EnableBegin(c)
  <2>1. PICK s : s = [setting EXCEPT ![doing[c].p] =
                       CASE doing[c].kind = "disable" -> "off" [] doing[c].kind = "uninstall" -> "unset"
                         [] OTHER -> "on"]
    OBVIOUS
  <2>2. PICK n : n = [doing[c] EXCEPT !.pc = "enabling", !.set = s]
    OBVIOUS
  <2>3. n.pc = "enabling" /\ n.clash = doing[c].clash /\ n.reg = doing[c].reg
    BY <1>1, <2>2 DEF Operation
  <2>4. record' = record /\ (Fail(c) \/ Becomes(c, n))
    BY <1>a, <2>1, <2>2 DEF EnableBegin
  <2> QED
    BY <1>3, <1>4, <2>3, <2>4
<1>b. CASE EnableEnd(c)
  <2>1. PICK n : n = [doing[c] EXCEPT !.pc = "sync", !.set = NoSetting]
    OBVIOUS
  <2>2. n.pc = "sync" /\ n.clash = doing[c].clash /\ n.reg = doing[c].reg
    BY <1>1, <2>1 DEF Operation
  <2>3. record' = record /\ (Becomes(c, n) \/ Becomes(c, Over(doing[c], TRUE)))
    BY <1>b, <2>1 DEF EnableEnd
  <2> QED
    BY <1>3, <1>4, <2>2, <2>3
<1>c. CASE StoreBegin(c)
  <2>1. PICK r : r = [(IF doing[c].kind = "install" THEN record ELSE doing[c].reg) EXCEPT
                        ![doing[c].p] = IF doing[c].kind = "uninstall" THEN 0 ELSE doing[c].v]
    OBVIOUS
  <2>2. doing[c].p \notin Bundled
    BY <1>1, <1>c, PluginAssumption DEF StoreBegin, Working
  <2>3. \A b \in Bundled : r[b] \in {record[b], doing[c].reg[b]}
    BY <1>1, <2>1, <2>2 DEF Registry
  <2>4. PICK n : n = [doing[c] EXCEPT !.pc = "storing", !.reg = r]
    OBVIOUS
  <2>5. n.pc = "storing" /\ n.clash = doing[c].clash /\ n.reg = r
    BY <1>1, <2>4 DEF Operation
  <2>6. \/ Fail(c) /\ record' = record
        \/ Becomes(c, n) /\ record' = NoRecord
    BY <1>c, <2>1, <2>4 DEF StoreBegin
  <2>7. CASE Becomes(c, n) /\ record' = NoRecord
    BY <1>1, <1>4, <2>3, <2>5, <2>7, NoRecordIs
  <2>8. CASE Fail(c) /\ record' = record
    BY <1>3, <2>8
  <2> QED
    BY <2>6, <2>7, <2>8
<1>d. CASE StoreEnd(c)
  <2>1. PICK n : n = [doing[c] EXCEPT !.pc = AfterStore(doing[c].kind), !.t = "none", !.v = 0,
                                      !.clash = FALSE, !.reg = NoRecord]
    OBVIOUS
  <2>2. doing[c].kind \in PlainKind
    BY <1>1, <1>d, PluginAssumption DEF StoreEnd, Working
  <2>3. n.pc \in {"enable", "sync"} /\ ~n.clash /\ n.reg = NoRecord
    BY <1>1, <2>1, <2>2 DEF Operation, AfterStore, PlainKind
  <2>4. Becomes(c, n) /\ record' = doing[c].reg
    BY <1>d, <2>1 DEF StoreEnd
  <2> QED
    BY <1>1, <1>4, <2>3, <2>4, NoRecordIs
<1> QED
  BY <1>a, <1>b, <1>c, <1>d

LEMMA ShapeSync ==
    ASSUME PluginInv, NEW c \in Proc, SyncFlush(c) \/ SyncEnd(c) \/ Scan(c) \/ PruneEnd(c)
    PROVE  \E n : Shape(c, n)
<1>1. /\ doing[c] \in Operation /\ Bundled \subseteq Plugin /\ record \in Registry /\ doing[c].reg \in Registry
      /\ doing[c].pc \in {"syncing", "flushing", "scan", "pruning"} /\ UNCHANGED <<dir, source>>
      /\ doing[c].ok \in BOOLEAN
  BY DEF PluginInv, PluginTypes, Plugin, Operation, SyncFlush, SyncEnd, Scan, PruneEnd
<1>2. doing[c].pc \notin AtDir \cup Inside
  BY <1>1 DEF AtDir, Inside
<1>3. ASSUME NEW ok \in BOOLEAN, Becomes(c, Over(doing[c], ok)), record' \in {record, doing[c].reg}
      PROVE  \E n : Shape(c, n)
  BY <1>1, <1>2, <1>3, ShapeOver DEF AtDir
<1>4. ASSUME NEW n, Becomes(c, n), n.pc \in {"flushing", "scan", "pruning", "enable"}, n.clash => doing[c].clash,
             \A b \in Bundled : /\ n.reg[b] \in {0, record[b], doing[c].reg[b]}
                                /\ record'[b] \in {0, record[b], doing[c].reg[b]}
      PROVE  \E m : Shape(c, m)
  <2>1. Shape(c, n)
    BY <1>1, <1>2, <1>4, ShapeOutside DEF AtDir
  <2> QED
    BY <2>1
<1>5. ASSUME NEW ok \in BOOLEAN, Becomes(c, Discovered(doing[c], ok)), record' \in {record, doing[c].reg}
      PROVE  \E n : Shape(c, n)
  <2>1. PICK n : n = [NoOp EXCEPT !.kind = doing[c].kind, !.p = doing[c].p, !.pc = "enable"]
    OBVIOUS
  <2>2. n.pc = "enable" /\ ~n.clash /\ n.reg = NoRecord
    BY <2>1 DEF NoOp
  <2>3. Becomes(c, n) \/ Becomes(c, Over(doing[c], ok))
    BY <1>5, <2>1 DEF Discovered
  <2> QED
    BY <1>1, <1>3, <1>4, <1>5, <2>2, <2>3, NoRecordIs
<1>a. CASE SyncFlush(c)
  <2>1. PICK q : q = Resting(doing[c])
    OBVIOUS
  <2>2. q \in Operation /\ ~q.clash
    <3>1. 0 \in Versions
      BY PluginBounds DEF Versions
    <3> QED
      BY <1>1, <2>1, <3>1 DEF Operation, Resting
  <2>3. PICK n : n = [q EXCEPT !.pc = IF doing[c].changed THEN "flushing" ELSE "scan",
                               !.reg = IF doing[c].changed THEN doing[c].reg ELSE NoRecord]
    OBVIOUS
  <2>4. n.pc \in {"flushing", "scan"} /\ ~n.clash /\ n.reg \in {doing[c].reg, NoRecord}
    BY <2>2, <2>3 DEF Operation
  <2>5. Becomes(c, n) /\ record' \in {record, NoRecord}
    BY <1>a, <2>1, <2>3 DEF SyncFlush
  <2> QED
    BY <1>1, <1>4, <2>4, <2>5, NoRecordIs
<1>b. CASE SyncEnd(c)
  <2>1. PICK n : n = [doing[c] EXCEPT !.pc = "scan", !.reg = NoRecord]
    OBVIOUS
  <2>2. n.pc = "scan" /\ n.clash = doing[c].clash /\ n.reg = NoRecord
    BY <1>1, <2>1 DEF Operation
  <2>3. Becomes(c, n) /\ record' = doing[c].reg
    BY <1>b, <2>1 DEF SyncEnd
  <2> QED
    BY <1>1, <1>4, <2>2, <2>3, NoRecordIs
<1>c. CASE Scan(c)
  <2>1. Usable(doing[c]) \in BOOLEAN
    BY DEF Usable
  <2>2. PICK n : n = [doing[c] EXCEPT !.pc = "pruning", !.reg = Pruned(record), !.ok = Usable(doing[c])]
    OBVIOUS
  <2>3. n.pc = "pruning" /\ n.clash = doing[c].clash /\ n.reg = Pruned(record)
    BY <1>1, <2>2 DEF Operation
  <2>4. \A b \in Bundled : Pruned(record)[b] \in {0, record[b]}
    BY <1>1 DEF Pruned
  <2>5. \/ Becomes(c, Over(doing[c], FALSE)) /\ record' = record
        \/ Becomes(c, Discovered(doing[c], Usable(doing[c]))) /\ record' = record
        \/ Becomes(c, n) /\ record' = NoRecord
    BY <1>c, <2>2 DEF Scan, Fail
  <2>6. CASE Becomes(c, n) /\ record' = NoRecord
    BY <1>1, <1>4, <2>3, <2>4, <2>6, NoRecordIs
  <2>7. CASE Becomes(c, Over(doing[c], FALSE)) /\ record' = record
    BY <1>3, <2>7
  <2>8. CASE Becomes(c, Discovered(doing[c], Usable(doing[c]))) /\ record' = record
    BY <1>5, <2>1, <2>8
  <2> QED
    BY <2>5, <2>6, <2>7, <2>8
<1>d. CASE PruneEnd(c)
  BY <1>1, <1>5, <1>d DEF PruneEnd
<1> QED
  BY <1>a, <1>b, <1>c, <1>d

\* Of a step that is, or comes to be, at a visit.
LEMMA ShapeVisit ==
    ASSUME PluginInv, NEW c \in Proc, SyncStart(c) \/ SyncVisit(c), Lone(c)
    PROVE  \E n : Shape(c, n)
<1>1. /\ doing[c] \in Operation /\ doing \in [Proc -> Operation] /\ Bundled \subseteq Plugin
      /\ record \in Registry /\ doing[c].reg \in Registry /\ doing[c].todo \subseteq Bundled
      /\ doing[c].pc \in {"sync", "syncing"} /\ UNCHANGED <<dir, source, record>>
  BY DEF PluginInv, PluginTypes, Plugin, Operation, SyncStart, SyncVisit, disk
<1>2. doing[c].pc \notin AtDir \cup Inside
  BY <1>1 DEF AtDir, Inside
<1>3. ASSUME NEW n, Becomes(c, n)
      PROVE  doing'[c] = n /\ \A e \in Proc \ {c} : doing'[e] = doing[e]
  BY <1>1, <1>3 DEF Becomes
<1>a. CASE SyncStart(c)
  <2>1. CASE Fail(c)
    BY <1>1, <1>2, <2>1, ShapeOver DEF Fail, AtDir
  <2>2. CASE ~Fail(c)
    <3>1. PICK n : n = [doing[c] EXCEPT !.pc = "syncing", !.reg = record, !.todo = Bundled]
      OBVIOUS
    <3>2. n.pc = "syncing" /\ n.clash = doing[c].clash /\ n.reg = record
      BY <1>1, <3>1 DEF Operation
    <3>3. Becomes(c, n) /\ doing[c].pc = "sync"
      BY <1>a, <2>2, <3>1 DEF SyncStart
    <3>4. Shape(c, n)
      BY <1>1, <1>2, <1>3, <3>2, <3>3 DEF Shape, Visits, AtDir, Inside
    <3> QED
      BY <3>4
  <2> QED
    BY <2>1, <2>2
<1>b. CASE SyncVisit(c)
  <2>1. PICK b \in doing[c].todo : Due(b, doing[c].reg) /\
          Becomes(c, [doing[c] EXCEPT !.todo = doing[c].todo \ {b}, !.t = b, !.v = source[b], !.clash = FALSE,
                          !.reg = IF source[b] = 0 THEN [doing[c].reg EXCEPT ![b] = 0] ELSE doing[c].reg,
                          !.changed = TRUE, !.pc = "remove"])
    BY <1>b DEF SyncVisit
  <2>2. PICK r : r = IF source[b] = 0 THEN [doing[c].reg EXCEPT ![b] = 0] ELSE doing[c].reg
    OBVIOUS
  <2>3. r[b] \in {0, doing[c].reg[b]} /\ \A d \in Bundled : d # b => r[d] = doing[c].reg[d]
    BY <1>1, <2>1, <2>2 DEF Registry
  <2>4. PICK n : n = [doing[c] EXCEPT !.todo = doing[c].todo \ {b}, !.t = b, !.v = source[b], !.clash = FALSE,
                          !.reg = r, !.changed = TRUE, !.pc = "remove"]
    OBVIOUS
  <2>5. n.pc = "remove" /\ ~n.clash /\ n.reg = r /\ n.t = b /\ n.todo = doing[c].todo \ {b}
    BY <1>1, <2>4 DEF Operation
  <2>6. Becomes(c, n) /\ doing[c].pc = "syncing"
    BY <1>b, <2>1, <2>2, <2>4 DEF SyncVisit
  <2>7. Shape(c, n)
    BY <1>1, <1>2, <1>3, <2>1, <2>3, <2>5, <2>6 DEF Shape, Visits, AtDir, Inside
  <2> QED
    BY <2>7
<1> QED
  BY <1>a, <1>b

LEMMA ShapeBegin ==
    ASSUME PluginInv, NEW c \in Proc, RemoveBegin(c) \/ CopyBegin(c), Lone(c)
    PROVE  \E n : Shape(c, n)
<1>1. /\ doing[c] \in Operation /\ doing \in [Proc -> Operation] /\ Bundled \subseteq Plugin
      /\ doing[c].pc \in {"remove", "copy"} /\ UNCHANGED <<source, record>> /\ Working(doing[c])
      /\ dir \in [Plugin -> Dirs]
  BY DEF PluginInv, PluginTypes, Plugin, RemoveBegin, CopyBegin
<1>2. PICK at \in {"removing", "copying"} : Enter(c, at) /\ doing[c].pc = IF at = "removing" THEN "remove" ELSE "copy"
  BY DEF RemoveBegin, CopyBegin
<1>3. \A b \in Plugin : dir'[b] # dir[b] => b = doing[c].t
  BY <1>1 DEF RemoveBegin, CopyBegin
<1>4. PICK n : n = [doing[c] EXCEPT !.pc = at, !.clash = doing[c].clash \/ Others(c) # {}]
  OBVIOUS
<1>5. /\ n.pc = at /\ n.clash = (doing[c].clash \/ Others(c) # {}) /\ n.reg = doing[c].reg /\ n.t = doing[c].t
      /\ n.todo = doing[c].todo
  BY <1>1, <1>4 DEF Operation
<1>6. doing' = [e \in Proc |-> IF e = c THEN n
                               ELSE IF e \in Others(c) THEN [doing[e] EXCEPT !.clash = TRUE] ELSE doing[e]]
  BY <1>2, <1>4 DEF Enter, Others
<1>7. \A e \in Others(c) : e \in Proc \ {c} /\ doing[e] # NoOp
  BY DEF Others, NoOp
<1>8. \A e \in Proc \ {c} : /\ doing'[e].t = doing[e].t /\ doing'[e].pc = doing[e].pc
                            /\ doing'[e].reg = doing[e].reg /\ doing'[e].todo = doing[e].todo
                            /\ doing'[e].clash => doing[e].clash \/ doing[e] # NoOp
  <2> TAKE e \in Proc \ {c}
  <2>1. doing[e] \in Operation
    BY <1>1
  <2> QED
    BY <1>6, <1>7, <2>1 DEF Operation
<1>9. doing[c].pc \in AtDir /\ at \in Inside
  BY <1>1 DEF AtDir, Inside
<1>10. Shape(c, n)
  BY <1>1, <1>2, <1>3, <1>5, <1>6, <1>7, <1>8, <1>9 DEF Shape, Visits, Inside, Lone, AtDir
<1> QED
  BY <1>10

LEMMA ShapeEnd ==
    ASSUME PluginInv, NEW c \in Proc, RemoveEnd(c) \/ CopyEnd(c), Lone(c)
    PROVE  \E n : Shape(c, n)
<1>1. /\ doing[c] \in Operation /\ doing \in [Proc -> Operation] /\ Bundled \subseteq Plugin
      /\ doing[c].pc \in {"removing", "copying"} /\ UNCHANGED <<source, record>> /\ Working(doing[c])
      /\ dir \in [Plugin -> Dirs] /\ doing[c].reg \in Registry /\ doing[c].t \in Plugin
      /\ doing[c].v = source[doing[c].t] /\ (doing[c].t \in Bundled => Visits(doing[c]))
  BY DEF PluginInv, PluginTypes, Plugin, RemoveEnd, CopyEnd, Operation, Working, AtDir, Visits
<1>2. ASSUME NEW n, Becomes(c, n)
      PROVE  doing'[c] = n /\ \A e \in Proc \ {c} : doing'[e] = doing[e]
  BY <1>1, <1>2 DEF Becomes
<1>3. doing[c].pc \in AtDir /\ doing[c].pc \in Inside
  BY <1>1 DEF AtDir, Inside
<1>a. CASE Fail(c) /\ doing[c].clash /\ UNCHANGED dir
  BY <1>1, <1>a, ShapeOver DEF Fail, AtDir
<1>b. CASE RemoveEnd(c) /\ dir' = [dir EXCEPT ![doing[c].t] = None] /\ Goto(c, Removed(doing[c]))
  <2>1. PICK at : at = Removed(doing[c])
    OBVIOUS
  <2>2. \/ at = "store" /\ doing[c].kind = "uninstall"
        \/ at = "syncing" /\ doing[c].v = 0 /\ doing[c].kind # "uninstall"
        \/ at = "copy"
    BY <2>1 DEF Removed
  <2>3. PICK n : n = [doing[c] EXCEPT !.pc = at]
    OBVIOUS
  <2>4. n.pc = at /\ n.clash = doing[c].clash /\ n.reg = doing[c].reg /\ n.t = doing[c].t /\ n.todo = doing[c].todo
    BY <1>1, <2>3 DEF Operation
  <2>5. Becomes(c, n)
    BY <1>b, <2>1, <2>3 DEF Goto
  <2>6. at = "store" => doing[c].t \notin Bundled
    BY <1>1, <1>3, <2>2 DEF Working
  <2>7. at = "syncing" => doing[c].t \in Bundled
    BY <1>1, <2>2 DEF Working, Plugin
  <2>8. Shape(c, n)
    BY <1>1, <1>2, <1>3, <1>b, <2>2, <2>4, <2>5, <2>6, <2>7 DEF Shape, Visits, Inside, Lone, AtDir
  <2> QED
    BY <2>8
<1>c. CASE CopyEnd(c) /\ ~(Fail(c) /\ doing[c].clash /\ UNCHANGED dir)
  <2>1. PICK d : dir' = [dir EXCEPT ![doing[c].t] = d] /\ (~doing[c].clash => d = doing[c].v)
    BY <1>c DEF CopyEnd
  <2>2. PICK r : r = [doing[c].reg EXCEPT ![doing[c].t] = doing[c].v]
    OBVIOUS
  <2>3. PICK n : n = [doing[c] EXCEPT !.pc = IF doing[c].t \in Bundled THEN "syncing" ELSE "store", !.reg = r]
    OBVIOUS
  <2>4. /\ n.pc = (IF doing[c].t \in Bundled THEN "syncing" ELSE "store") /\ n.clash = doing[c].clash /\ n.reg = r
        /\ n.todo = doing[c].todo
    BY <1>1, <2>3 DEF Operation
  <2>5. Becomes(c, n) /\ doing[c].pc = "copying"
    BY <1>c, <2>2, <2>3 DEF CopyEnd
  <2>6. \A b \in Bundled : b # doing[c].t => r[b] = doing[c].reg[b] /\ dir'[b] = dir[b]
    BY <1>1, <2>1, <2>2 DEF Registry
  <2>7. ~doing[c].clash => dir'[doing[c].t] = source[doing[c].t]
    BY <1>1, <2>1
  <2>8. doing[c].t \in Bundled => doing[c].t \notin doing[c].todo
    BY <1>1 DEF Lone
  <2>9. doing[c].todo \subseteq Bundled
    BY <1>1 DEF Operation
  <2>10. Shape(c, n)
    BY <1>1, <1>2, <1>3, <2>4, <2>5, <2>6, <2>7, <2>8, <2>9 DEF Shape, Visits, Inside, AtDir
  <2> QED
    BY <2>10
<1> QED
  BY <1>a, <1>b, <1>c DEF RemoveEnd, CopyEnd

LEMMA ShapeLoad ==
    ASSUME PluginInv, NEW c \in Proc, Load(c), Lone(c)
    PROVE  \E n : Shape(c, n)
<1>1. /\ doing[c] \in Operation /\ doing \in [Proc -> Operation] /\ Bundled \subseteq Plugin
      /\ doing[c].pc = "load" /\ UNCHANGED <<dir, source, record>> /\ Working(doing[c])
      /\ doing[c].reg \in Registry /\ record \in Registry
  BY DEF PluginInv, PluginTypes, Plugin, Load, disk, Operation
<1>2. doing[c].p \notin Bundled
  BY <1>1, PluginAssumption DEF Working
<1> DEFINE rivals == {e \in Proc \ {c} : Names(e, doing[c].p)}
<1>3. PICK r : r = IF doing[c].kind = "install" THEN doing[c].reg ELSE record
  OBVIOUS
<1>5. PICK b : b = IF \/ doing[c].kind # "install" /\ ~("registry" \notin torn /\ record[doing[c].p] # 0)
                      \/ doing[c].kind # "uninstall" /\ source[doing[c].p] = 0
                   THEN Over(doing[c], FALSE)
                   ELSE [doing[c] EXCEPT !.pc = "remove", !.t = doing[c].p, !.v = source[doing[c].p], !.reg = r]
  OBVIOUS
<1>6. \/ b \in Operation /\ b.pc = "done" /\ ~b.clash /\ b.reg = NoRecord
      \/ DOMAIN b = DOMAIN doing[c] /\ b.pc = "remove" /\ b.t \notin Bundled /\ b.clash = doing[c].clash /\ b.reg = r
  <2>1. CASE b = Over(doing[c], FALSE)
    BY <1>1, <2>1, OverIs
  <2>2. CASE b = [doing[c] EXCEPT !.pc = "remove", !.t = doing[c].p, !.v = source[doing[c].p], !.reg = r]
    BY <1>1, <1>2, <2>2 DEF Operation
  <2> QED
    BY <1>5, <2>1, <2>2
<1>7. PICK n : n = [b EXCEPT !.rival = rivals # {}]
  OBVIOUS
<1>8. \/ n.pc = "done" /\ ~n.clash /\ n.reg = NoRecord
      \/ n.pc = "remove" /\ n.t \notin Bundled /\ n.clash = doing[c].clash /\ n.reg = r
  BY <1>1, <1>6, <1>7 DEF Operation
<1>9. doing' = [e \in Proc |-> IF e = c THEN n
                               ELSE IF e \in rivals THEN [doing[e] EXCEPT !.rival = TRUE] ELSE doing[e]]
  BY <1>3, <1>5, <1>7 DEF Load
<1>10. \A e \in Proc \ {c} : /\ doing'[e].t = doing[e].t /\ doing'[e].pc = doing[e].pc
                             /\ doing'[e].reg = doing[e].reg /\ doing'[e].todo = doing[e].todo
                             /\ doing'[e].clash => doing[e].clash \/ doing[e] # NoOp
  <2> TAKE e \in Proc \ {c}
  <2>1. doing[e] \in Operation
    BY <1>1
  <2>2. CASE e \in rivals
    BY <1>9, <2>1, <2>2 DEF Operation
  <2>3. CASE e \notin rivals
    BY <1>9, <2>3
  <2> QED
    BY <2>2, <2>3
<1>11. doing'[c] = n
  BY <1>9
<1>12. Shape(c, n)
  BY <1>1, <1>3, <1>8, <1>10, <1>11, NoRecordIs DEF Shape, Visits, AtDir, Inside
<1> QED
  BY <1>12

LEMMA StepShape ==
    ASSUME PluginInv, NEW c \in Proc, OpStep(c), Lone(c)
    PROVE  \E n : Shape(c, n)
BY ShapeEnable, ShapeSync, ShapeVisit, ShapeBegin, ShapeEnd, ShapeLoad DEF OpStep

-----------------------------------------------------------------------------
\* A plugin that is settled stays so in a step of c: whoever leaves its directory
\* alone and undisturbed has copied it whole.
LEMMA StepSettles ==
    ASSUME TrustInv, NEW c \in Proc, NEW n, Shape(c, n), Leaving(c), NEW b \in Bundled, source[b] # 0,
           Settled(b) \/ (doing[c].t = b /\ doing[c].pc \in Inside),
           doing[c].t = b /\ doing[c].pc \in Inside => doing[c].v = source[b]
    PROVE  Settled(b)'
<1>1. /\ doing'[c] = n /\ \A e \in Proc \ {c} : doing'[e].t = doing[e].t /\ doing'[e].pc = doing[e].pc
      /\ source' = source
  BY DEF Shape
<1>2. CASE doing[c].t = b /\ doing[c].pc \in Inside
  <2>1. CASE n.pc \in Inside /\ n.t = b
    BY <1>1, <2>1 DEF Settled
  <2>2. CASE dir'[b] = source[b]
    BY <1>1, <2>2 DEF Settled
  <2>3. CASE ~(n.pc \in Inside /\ n.t = b) /\ dir'[b] # source[b]
    <3>1. c \in shared
      BY <1>2, <2>3 DEF Shape, TrustInv, SharedInv
    <3>2. InDir(doing[c]) /\ ~InDir(doing'[c])
      BY <1>1, <1>2, <2>3 DEF Shape, Inside, InDir
    <3>3. b \in hurt'
      BY <1>2, <2>3, <3>1, <3>2 DEF Leaving
    <3> QED
      BY <3>3 DEF Settled
  <2> QED
    BY <2>1, <2>2, <2>3
<1>3. CASE ~(doing[c].t = b /\ doing[c].pc \in Inside)
  <2>1. b \in hurt => b \in hurt'
    BY <1>3 DEF Leaving, InDir, Inside
  <2>2. CASE dir'[b] = dir[b]
    <3>1. \A e \in Proc : doing[e].t = b /\ doing[e].pc \in Inside => doing'[e].t = b /\ doing'[e].pc \in Inside
      BY <1>1, <1>3
    <3> QED
      BY <1>1, <1>3, <2>1, <2>2, <3>1 DEF Settled
  <2>3. CASE dir'[b] # dir[b]
    <3>1. b = doing[c].t /\ doing[c].pc = "remove"
      BY <1>3, <2>3 DEF Shape, AtDir, Inside
    <3>2. n.pc = "removing" /\ n.t = b
      BY <3>1 DEF Shape
    <3> QED
      BY <1>1, <3>2 DEF Settled, Inside
  <2> QED
    BY <2>2, <2>3
<1> QED
  BY <1>2, <1>3

LEMMA StepTrusts ==
    ASSUME PluginInv, TrustInv, NEW c \in Proc, Step(c)
    PROVE  TrustInv'
<1>1. OpStep(c) /\ Leaving(c) /\ shared' = shared
  BY DEF Step
<1>2. KindsStay
  BY OpStepKeeps
<1>3. PICK n : Shape(c, n)
  BY <1>1, StepShape DEF TrustInv
<1>4. doing'[c] = n /\ source' = source
  BY <1>3 DEF Shape
<1>5. doing[c] # NoOp
  BY <1>1, NothingToDo
<1>6. /\ doing[c] \in Operation /\ Working(doing[c]) /\ source \in Registry /\ Bundled \subseteq Plugin
      /\ dir \in [Plugin -> Dirs]
  BY DEF PluginInv, PluginTypes, Plugin
<1>7. doing[c].pc \in Inside => doing[c].v = source[doing[c].t]
  BY <1>6 DEF Working, Inside, AtDir
<1>8. ASSUME NEW b \in Bundled, source[b] # 0,
             Settled(b) \/ (doing[c].t = b /\ doing[c].pc \in Inside)
      PROVE  Settled(b)'
  BY <1>1, <1>3, <1>7, <1>8, StepSettles
<1>9. \A e \in Proc \ {c} : e \in shared \/ doing[e] = NoOp
  BY <1>5 DEF TrustInv, SharedInv
<1>a. SharedInv'
  <2> SUFFICES ASSUME NEW e \in Proc
               PROVE  /\ doing'[e] # NoOp /\ e \notin shared => \A f \in Proc \ {e} : doing'[f] = NoOp
                      /\ doing'[e].clash => e \in shared
    BY <1>1 DEF SharedInv
  <2>1. CASE e = c
    <3>1. c \notin shared => \A f \in Proc \ {c} : doing[f] = NoOp
      BY <1>5 DEF TrustInv, SharedInv
    <3>2. n.clash => c \in shared
      BY <1>3, <3>1 DEF Shape, TrustInv, SharedInv
    <3> QED
      BY <1>2, <1>4, <2>1, <3>1, <3>2 DEF KindsStay
  <2>2. CASE e # c
    <3>1. e \notin shared => doing'[e] = NoOp /\ NoOp.clash = FALSE
      BY <1>2, <1>9, <2>2 DEF KindsStay, NoOp
    <3> QED
      BY <3>1
  <2> QED
    BY <2>1, <2>2
<1>b. Trusted(record)'
  <2> SUFFICES ASSUME NEW b \in Bundled, source[b] # 0, record'[b] = source[b]
               PROVE  Settled(b)'
    BY <1>4 DEF Trusted
  <2>1. record'[b] \in {record[b], doing[c].reg[b]}
    BY <1>3 DEF Shape
  <2>2. Settled(b)
    BY <2>1 DEF TrustInv, Trusted
  <2> QED
    BY <1>8, <2>2
<1>c. ASSUME NEW e \in Proc
      PROVE  Trusted(doing[e].reg)'
  <2> SUFFICES ASSUME NEW b \in Bundled, source[b] # 0, doing'[e].reg[b] = source[b]
               PROVE  Settled(b)'
    BY <1>4 DEF Trusted
  <2>1. CASE e = c
    <3>1. n.reg[b] \in {record[b], doing[c].reg[b]} \/ (doing[c].pc = "copying" /\ b = doing[c].t)
      BY <1>3, <1>4, <2>1 DEF Shape
    <3>2. Settled(b) \/ (doing[c].t = b /\ doing[c].pc \in Inside)
      BY <1>4, <2>1, <3>1 DEF TrustInv, Trusted, Inside
    <3> QED
      BY <1>8, <3>2
  <2>2. CASE e # c
    <3>1. doing'[e].reg = doing[e].reg
      BY <1>3, <2>2 DEF Shape
    <3>2. Settled(b)
      BY <3>1 DEF TrustInv, Trusted
    <3> QED
      BY <1>8, <3>2
  <2> QED
    BY <2>1, <2>2
<1>d. ASSUME NEW e \in Proc
      PROVE  Lone(e)'
  <2>1. CASE e # c
    <3>1. doing'[e].pc = doing[e].pc /\ doing'[e].t = doing[e].t /\ doing'[e].todo = doing[e].todo
      BY <1>3, <2>1 DEF Shape
    <3>2. e \in shared \/ doing[e].pc = "none"
      BY <1>9, <2>1 DEF NoOp
    <3>3. Lone(e)
      BY DEF TrustInv
    <3> QED
      BY <1>1, <3>1, <3>2, <3>3 DEF Lone, Visits, AtDir
  <2>2. CASE e = c
    <3>1. Visits(n) => n.t \notin n.todo
      BY <1>3 DEF Shape
    <3>2. ASSUME c \notin shared, n.pc = "syncing" \/ Visits(n), NEW b \in n.todo
          PROVE  record'[b] \in {0, n.reg[b]}
      BY <1>3, <3>2 DEF Shape, TrustInv, Lone
    <3>3. ASSUME c \notin shared, Visits(n), source[n.t] # 0
          PROVE  n.t \in hurt' \/ record'[n.t] # source[n.t]
      <4>1. record' = record
        BY <1>3, <3>3 DEF Shape, Visits, AtDir
      <4>2. n.t \in hurt => n.t \in hurt'
        <5>1. InDir(doing[c]) => InDir(doing'[c])
          BY <1>3, <1>4, <3>3 DEF InDir, Shape, Visits, AtDir, Inside
        <5>2. hurt' = hurt
          BY <1>1, <5>1 DEF Leaving
        <5> QED
          BY <5>2
      <4>3. CASE Visits(doing[c]) /\ n.t = doing[c].t
        <5>1. n.t \in hurt \/ record[n.t] # source[n.t]
          BY <3>3, <4>3 DEF TrustInv, Lone
        <5> QED
          BY <4>1, <4>2, <5>1
      <4>4. CASE doing[c].pc = "syncing" /\ n.t \in doing[c].todo /\ Due(n.t, doing[c].reg)
        <5>1. record[n.t] \in {0, doing[c].reg[n.t]}
          BY <3>3, <4>4 DEF TrustInv, Lone
        <5>2. SUFFICES ASSUME record[n.t] = source[n.t]
                       PROVE  n.t \in hurt
          BY <4>1, <4>2
        <5>3. ~Loads(n.t)
          BY <3>3, <4>4, <5>1, <5>2 DEF Due, NeedsSync
        <5>4. Settled(n.t)
          BY <3>3, <5>2 DEF TrustInv, Trusted, Visits
        <5>5. \A f \in Proc : doing[f].pc \notin Inside
          BY <3>3, <4>4, <1>5 DEF TrustInv, SharedInv, NoOp, Inside
        <5>6. dir[n.t] # source[n.t]
          BY <1>6, <3>3, <5>3, PluginBounds DEF Loads, Visits, Registry, Versions
        <5> QED
          BY <5>4, <5>5, <5>6 DEF Settled
      <4> QED
        BY <1>3, <3>3, <4>3, <4>4 DEF Shape
    <3> QED
      BY <1>1, <1>4, <2>2, <3>1, <3>2, <3>3 DEF Lone, Visits
  <2> QED
    BY <2>1, <2>2
<1> QED
  BY <1>a, <1>b, <1>c, <1>d DEF TrustInv

\* Nothing but c's operation changes, which is at no plugin before and after.
LEMMA RestTrusts ==
    ASSUME TrustInv, NEW c \in Proc, NEW n, doing' = [doing EXCEPT ![c] = n], doing \in [Proc -> Operation],
           UNCHANGED <<dir, source, record, hurt>>, SharedInv',
           doing[c].pc \notin Inside, n.pc \notin AtDir \cup {"syncing"}, n.reg = NoRecord,
           \A e \in Proc \ {c} : e \notin shared' => e \notin shared \/ doing[e] = NoOp
    PROVE  TrustInv'
<1>1. doing'[c] = n /\ \A e \in Proc \ {c} : doing'[e] = doing[e]
  OBVIOUS
<1>2. ASSUME NEW b \in Bundled, Settled(b)
      PROVE  Settled(b)'
  <2>1. \A e \in Proc : doing[e].t = b /\ doing[e].pc \in Inside => doing'[e].t = b /\ doing'[e].pc \in Inside
    BY <1>1
  <2> QED
    BY <1>2, <2>1 DEF Settled
<1>3. Trusted(record)'
  BY <1>2 DEF TrustInv, Trusted
<1>4. ASSUME NEW e \in Proc
      PROVE  Trusted(doing[e].reg)' /\ Lone(e)'
  <2>1. CASE e = c
    <3>1. \A b \in Bundled : n.reg[b] = 0
      BY NoRecordIs DEF Plugin
    <3> QED
      BY <1>1, <2>1, <3>1 DEF Trusted, Lone, Visits
  <2>2. CASE e # c
    <3>1. Trusted(doing[e].reg)'
      BY <1>1, <1>2, <2>2 DEF TrustInv, Trusted
    <3>2. e \in shared' \/ e \notin shared \/ doing[e].pc = "none"
      BY <2>2 DEF NoOp
    <3>3. Lone(e)'
      BY <1>1, <2>2, <3>2 DEF TrustInv, Lone, Visits, AtDir
    <3> QED
      BY <3>1, <3>3
  <2> QED
    BY <2>1, <2>2
<1> QED
  BY <1>3, <1>4 DEF TrustInv

\* A command is given, or a build begun: from now on, all at work are at it together.
LEMMA JoinTrusts ==
    ASSUME PluginInv, TrustInv, NEW c \in Proc, doing[c] = NoOp, NEW n, Becomes(c, n), Joins(c),
           UNCHANGED <<dir, source, record>>, n.pc \in {"load", "sync", "done"}, n.reg = NoRecord, ~n.clash
    PROVE  TrustInv'
<1>1. doing' = [doing EXCEPT ![c] = n] /\ doing \in [Proc -> Operation] /\ hurt' = hurt
  BY DEF PluginInv, PluginTypes, Becomes, Joins
<1>2. shared' = IF Busy = {} THEN {} ELSE shared \cup Busy \cup {c}
  BY DEF Joins
<1>3. NoOp.clash = FALSE /\ NoOp.pc = "none"
  BY DEF NoOp
<1>4. SharedInv'
  <2>1. CASE Busy = {}
    <3>1. \A e \in Proc \ {c} : doing'[e] = NoOp
      BY <1>1, <2>1 DEF Busy
    <3> QED
      BY <1>1, <1>3, <3>1 DEF SharedInv
  <2>2. CASE Busy # {}
    BY <1>1, <1>2, <1>3, <2>2 DEF SharedInv, Busy
  <2> QED
    BY <2>1, <2>2
<1>5. \A e \in Proc \ {c} : e \notin shared' => e \notin shared \/ doing[e] = NoOp
  BY <1>2 DEF Busy
<1>6. n.pc \notin AtDir \cup {"syncing"} /\ doing[c].pc \notin Inside
  BY <1>3 DEF AtDir, Inside
<1> QED
  BY <1>1, <1>4, <1>5, <1>6, RestTrusts

LEMMA LeaveTrusts ==
    ASSUME PluginInv, TrustInv, NEW c \in Proc, doing[c].pc \notin Inside, Becomes(c, NoOp),
           shared' = shared \ {c}, UNCHANGED <<dir, source, record, hurt>>
    PROVE  TrustInv'
<1>1. doing' = [doing EXCEPT ![c] = NoOp] /\ doing \in [Proc -> Operation]
  BY DEF PluginInv, PluginTypes, Becomes
<1>2. NoOp.clash = FALSE /\ NoOp.pc = "none" /\ NoOp.reg = NoRecord
  BY DEF NoOp
<1>3. SharedInv'
  BY <1>1, <1>2 DEF TrustInv, SharedInv
<1>4. NoOp.pc \notin AtDir \cup {"syncing"}
  BY <1>2 DEF AtDir
<1> QED
  BY <1>1, <1>2, <1>3, <1>4, RestTrusts

\* Who dies alone in a directory has no record of the version it was copying.
LEMMA CrashTrusts ==
    ASSUME PluginInv, TrustInv, NEW c \in Proc, Crash(c)
    PROVE  TrustInv'
<1>1. /\ doing' = [doing EXCEPT ![c] = NoOp] /\ doing \in [Proc -> Operation] /\ shared' = shared \ {c} /\ Leaving(c)
      /\ UNCHANGED <<dir, source, record>>
  BY DEF PluginInv, PluginTypes, Becomes, Crash, Stop
<1>2. NoOp.clash = FALSE /\ NoOp.pc = "none" /\ NoOp.reg = NoRecord
  BY DEF NoOp
<1>3. doing'[c] = NoOp /\ \A e \in Proc \ {c} : doing'[e] = doing[e]
  BY <1>1
<1>4. CASE doing[c].pc \notin Inside
  <2>1. hurt' = hurt
    BY <1>1, <1>4 DEF Leaving, InDir, Inside
  <2> QED
    BY <1>1, <1>4, <2>1, LeaveTrusts DEF Becomes
<1>5. CASE doing[c].pc \in Inside
  <2>1. doing[c] # NoOp /\ Working(doing[c]) /\ InDir(doing[c]) /\ ~InDir(NoOp)
    BY <1>2, <1>5 DEF PluginInv, InDir, Inside
  <2>2. \A e \in Proc \ {c} : c \in shared \/ doing[e] = NoOp
    BY <2>1 DEF TrustInv, SharedInv
  <2>3. \A e \in Proc \ {c} : e \in shared \/ doing[e] = NoOp
    BY <2>1 DEF TrustInv, SharedInv
  <2>4. SharedInv'
    BY <1>1, <1>2, <1>3 DEF TrustInv, SharedInv
  <2>5. ASSUME NEW b \in Bundled, Settled(b), source[b] # 0,
               b = doing[c].t => c \in shared \/ b \in hurt
        PROVE  Settled(b)'
    <3>1. CASE b = doing[c].t
      <4>1. doing[c].v = source[b]
        BY <1>5, <2>1, <3>1 DEF Working, Inside, AtDir
      <4>2. dir'[b] = source[b] \/ b \in hurt'
        BY <1>1, <1>3, <2>1, <2>5, <3>1, <4>1 DEF Leaving
      <4> QED
        BY <1>1, <4>2 DEF Settled
    <3>2. CASE b # doing[c].t
      <4>1. b \in hurt => b \in hurt'
        BY <1>1, <3>2 DEF Leaving
      <4>2. \A e \in Proc : doing[e].t = b => doing'[e] = doing[e]
        BY <1>3, <3>2
      <4> QED
        BY <1>1, <2>5, <4>1, <4>2 DEF Settled
    <3> QED
      BY <3>1, <3>2
  <2>6. Trusted(record)'
    <3> SUFFICES ASSUME NEW b \in Bundled, source[b] # 0, record[b] = source[b]
                 PROVE  Settled(b)'
      BY <1>1 DEF Trusted
    <3>1. Settled(b)
      BY DEF TrustInv, Trusted
    <3>2. b = doing[c].t => c \in shared \/ b \in hurt
      BY <1>5 DEF TrustInv, Lone, Visits, AtDir, Inside
    <3> QED
      BY <2>5, <3>1, <3>2
  <2>7. ASSUME NEW e \in Proc
        PROVE  Trusted(doing[e].reg)' /\ Lone(e)'
    <3>1. CASE doing'[e] = NoOp
      <4>1. \A b \in Bundled : doing'[e].reg[b] = 0
        BY <1>2, <3>1, NoRecordIs DEF Plugin
      <4>2. doing'[e].pc \notin AtDir \cup {"syncing"}
        BY <1>2, <3>1 DEF AtDir
      <4> QED
        BY <1>1, <4>1, <4>2 DEF Trusted, Lone, Visits
    <3>2. CASE doing'[e] # NoOp
      <4>1. e # c /\ doing'[e] = doing[e] /\ c \in shared /\ e \in shared'
        BY <1>1, <1>3, <2>2, <2>3, <3>2
      <4>2. Trusted(doing[e].reg)'
        <5> SUFFICES ASSUME NEW b \in Bundled, source[b] # 0, doing[e].reg[b] = source[b]
                     PROVE  Settled(b)'
          BY <1>1, <4>1 DEF Trusted
        <5>1. Settled(b)
          BY DEF TrustInv, Trusted
        <5> QED
          BY <2>5, <4>1, <5>1
      <4>3. Lone(e)'
        BY <4>1 DEF TrustInv, Lone, Visits
      <4> QED
        BY <4>2, <4>3
    <3> QED
      BY <3>1, <3>2
  <2> QED
    BY <2>4, <2>6, <2>7 DEF TrustInv
<1> QED
  BY <1>4, <1>5

\* From outside, a version is published while nobody works, or a record is lost.
LEMMA OutsideTrusts ==
    ASSUME PluginInv, TrustInv, Outside
    PROVE  TrustInv'
<1>1. UNCHANGED <<dir, doing, shared, hurt>>
  BY DEF Outside, Publish, RemoveFile, overlap, disk
<1>2. SharedInv'
  BY <1>1 DEF TrustInv, SharedInv
<1>3. source \in Registry /\ record \in Registry /\ Sound(record) /\ Bundled \subseteq Plugin
  BY DEF PluginInv, PluginTypes, Plugin
<1>a. CASE \E f \in File : RemoveFile(f)
  <2>1. source' = source /\ record' \in {record, NoRecord}
    BY <1>a DEF RemoveFile
  <2>2. \A b \in Bundled : record'[b] \in {0, record[b]}
    BY <1>3, <2>1, NoRecordIs
  <2>3. Trusted(record)' /\ \A e \in Proc : Trusted(doing[e].reg)'
    BY <1>1, <2>1, <2>2 DEF TrustInv, Trusted, Settled
  <2>4. \A e \in Proc : Lone(e)'
    <3> TAKE e \in Proc
    <3>1. Lone(e) /\ doing[e].todo \subseteq Bundled
      BY DEF TrustInv, PluginInv, PluginTypes, Operation
    <3>2. Visits(doing[e])' <=> Visits(doing[e])
      BY <1>1 DEF Visits
    <3> QED
      BY <1>1, <2>1, <2>2, <3>1, <3>2 DEF Lone, Visits
  <2> QED
    BY <1>2, <2>3, <2>4 DEF TrustInv
<1>b. CASE \E q \in Plugin : Publish(q)
  <2>1. PICK q \in Plugin : Publish(q)
    BY <1>b
  <2>2. PICK v \in {0, source[q] + 1} : source' = [source EXCEPT ![q] = v]
    BY <2>1 DEF Publish
  <2>3. record' = record /\ source[q] \in 1..(MaxVersion - 1) /\ \A e \in Proc : doing'[e] = NoOp
    BY <1>1, <2>1 DEF Publish, disk
  <2>4. Trusted(record)'
    <3> SUFFICES ASSUME NEW b \in Bundled, source'[b] # 0, record[b] = source'[b]
                 PROVE  Settled(b)'
      BY <2>3 DEF Trusted
    <3>1. CASE b # q
      <4>1. source'[b] = source[b]
        BY <1>3, <2>2, <3>1 DEF Registry
      <4> QED
        BY <1>1, <4>1 DEF TrustInv, Trusted, Settled
    <3>2. CASE b = q
      <4>1. record[q] <= source[q] /\ record[q] \in Nat /\ source[q] \in Nat
        BY <1>3, <2>3, PluginBounds DEF Sound, SoundAt, Registry, Versions
      <4>2. source'[b] = source[q] + 1
        BY <1>3, <2>2, <3>2 DEF Registry
      <4> QED
        BY <3>2, <4>1, <4>2
    <3> QED
      BY <3>1, <3>2
  <2>5. \A e \in Proc : Trusted(doing[e].reg)' /\ Lone(e)'
    <3> TAKE e \in Proc
    <3>1. doing'[e].pc = "none" /\ \A b \in Bundled : doing'[e].reg[b] = 0
      BY <2>3, NoRecordIs DEF NoOp, Plugin
    <3> QED
      BY <3>1 DEF Trusted, Lone, Visits, AtDir
  <2> QED
    BY <1>2, <2>4, <2>5 DEF TrustInv
<1> QED
  BY <1>a, <1>b DEF Outside

LEMMA TrustStart ==
    ASSUME RuntimeInit
    PROVE  TrustInv
<1>1. record = NoRecord /\ doing = [c \in Proc |-> NoOp]
  BY DEF RuntimeInit, PmInit
<1>2. NoOp.clash = FALSE /\ NoOp.pc = "none" /\ NoOp.reg = NoRecord
  BY DEF NoOp
<1>3. \A b \in Bundled : NoRecord[b] = 0
  BY NoRecordIs DEF Plugin
<1> QED
  BY <1>1, <1>2, <1>3 DEF TrustInv, SharedInv, Trusted, Lone, Visits, AtDir

LEMMA TrustNext ==
    ASSUME PluginInv, TrustInv, [RuntimeNext]_runtimeVars
    PROVE  TrustInv'
<1>1. doing \in [Proc -> Operation] /\ setting \in Choices
  BY DEF PluginInv, PluginTypes
<1>a. CASE UNCHANGED runtimeVars \/ Replace \/ TurnFails \/ Quit \/ DropNext \/ DropLive
  <2>1. UNCHANGED <<dir, record, source, doing, shared, hurt>>
    BY <1>a DEF Replace, TurnFails, Quit, DropNext, DropLive, runtimeVars, rtVars, pmVars, disk, overlap
  <2> QED
    BY <2>1 DEF TrustInv, SharedInv, Trusted, Settled, Lone, Visits
<1>b. CASE Start \/ Turn \/ Reload
  <2>1. BeginBuild(Repl) /\ doing[Repl] = NoOp /\ Joins(Repl)
    BY <1>b DEF Start, Turn, Reload, Build
  <2>2. PICK n : n = [NoOp EXCEPT !.kind = "build", !.set = setting,
                                  !.pc = IF "settings" \in torn THEN "done" ELSE "sync",
                                  !.ok = "settings" \notin torn]
    OBVIOUS
  <2>3. n.pc \in {"sync", "done"} /\ n.reg = NoRecord /\ ~n.clash
    BY <2>2 DEF NoOp
  <2>4. Becomes(Repl, n) /\ UNCHANGED <<dir, record, source>>
    BY <2>1, <2>2 DEF BeginBuild, disk
  <2> QED
    BY <2>1, <2>3, <2>4, ReplAssumption, JoinTrusts
<1>c. ASSUME NEW c \in Proc, NEW kind \in CommandKind, NEW p \in Plugin, Begin(c, kind, p), Joins(c)
      PROVE  TrustInv'
  <2>1. PICK n : n = IF "settings" \in torn THEN [NoOp EXCEPT !.kind = kind, !.pc = "done", !.ok = FALSE]
                     ELSE [NoOp EXCEPT !.kind = kind, !.p = p,
                                       !.pc = IF kind \in {"enable", "disable"} THEN "sync" ELSE "load"]
    OBVIOUS
  <2>2. n.pc \in {"load", "sync", "done"} /\ n.reg = NoRecord /\ ~n.clash
    BY <2>1 DEF NoOp
  <2>3. Becomes(c, n) /\ UNCHANGED <<dir, record, source>> /\ doing[c] = NoOp
    BY <1>c, <2>1 DEF Begin, disk
  <2> QED
    BY <1>c, <2>2, <2>3, JoinTrusts
<1>d. CASE Command
  <2>1. PICK k \in CommandKind, p \in Plugin : Begin(Repl, k, p)
    BY <1>d DEF Command
  <2>2. Joins(Repl)
    BY <1>d DEF Command
  <2> QED
    BY <1>c, <2>1, <2>2, ReplAssumption
<1>e. ASSUME NEW c \in Proc, doing[c].pc = "done", Becomes(c, NoOp), Leaves(c), UNCHANGED <<disk, source>>
      PROVE  TrustInv'
  BY <1>e, LeaveTrusts DEF Leaves, disk, Inside
<1>f. CASE EndCommand \/ BuildEnds
  BY <1>e, <1>f, ReplAssumption DEF EndCommand, BuildEnds
<1>g. CASE Outside
  BY <1>g, OutsideTrusts
<1>h. ASSUME NEW c \in Proc, OtherCommand(c) \/ Step(c) \/ EndOther(c) \/ Crash(c)
      PROVE  TrustInv'
  <2>1. CASE OtherCommand(c)
    <3>1. PICK k \in CommandKind, p \in Plugin : Begin(c, k, p)
      BY <2>1, ReplAssumption DEF OtherCommand
    <3>2. Joins(c)
      BY <2>1 DEF OtherCommand
    <3> QED
      BY <1>c, <3>1, <3>2
  <2>2. CASE EndOther(c)
    BY <1>e, <2>2 DEF EndOther
  <2> QED
    BY <1>h, <2>1, <2>2, StepTrusts, CrashTrusts
<1> QED
  BY <1>a, <1>b, <1>d, <1>f, <1>g, <1>h DEF RuntimeNext

LEMMA PluginsStart ==
    ASSUME RuntimeInit
    PROVE  PluginsInv
<1>1. PluginInv
  BY PluginStart DEF RuntimeInit
<1>2. doing = [c \in Proc |-> NoOp] /\ NoOp.kind = "none"
  BY DEF RuntimeInit, PmInit, NoOp
<1>3. RuntimeTypes
  <2>1. up \in [Plugin -> Int]
    BY DEF RuntimeInit
  <2>2. phase = "off" /\ live \in Runtime /\ next \in Runtime
    BY NoRuntimeTypes DEF RuntimeInit
  <2>3. alone \in BOOLEAN /\ excused \in BOOLEAN
    BY DEF RuntimeInit
  <2> QED
    BY <2>1, <2>2, <2>3 DEF RuntimeTypes
<1>5. HeldInv
  <2>1. \A p \in Plugin : Runs(live, p) = 0 /\ Runs(next, p) = 0 /\ up[p] = 0
    BY NoRuns DEF RuntimeInit
  <2> QED
    BY <2>1, NoRuntimeTypes DEF RuntimeInit, HeldInv
<1>4. Acting /\ AloneInv
  BY <1>2, ReplAssumption DEF RuntimeInit, Acting, AloneInv
<1> QED
  BY <1>1, <1>3, <1>4, <1>5, TrustStart DEF RuntimeInv, PluginsInv

LEMMA PluginsNext ==
    ASSUME PluginsInv, [RuntimeNext]_runtimeVars
    PROVE  PluginsInv'
<1>1. PluginInv /\ TrustInv /\ RuntimeInv
  BY DEF PluginsInv
<1>t. TrustInv'
  BY <1>1, TrustNext
<1>2. CASE UNCHANGED runtimeVars
  <2>1. UNCHANGED <<dir, record, setting, source, doing, promised, phase, live, next, up, alone, excused, shared, hurt>>
    BY <1>2 DEF runtimeVars, pmVars, rtVars, disk, overlap
  <2>2. PluginInv'
    BY <1>1, <2>1 DEF PluginInv, PluginTypes, Sound, SoundAt, CopyAt, Working, CopiedBy, RivalsKnown, Past, PromisesKept
  <2>3. RuntimeTypes' /\ Acting' /\ HeldInv'
    BY <1>1, <2>1 DEF RuntimeInv, RuntimeTypes, Acting, HeldInv, Runs
  <2>4. AloneInv'
    BY <1>1, <2>1 DEF RuntimeInv, AloneInv, Synced, Current, Shipped, Enabled, Found, Loads
  <2> QED
    BY <1>t, <2>2, <2>3, <2>4 DEF PluginsInv, RuntimeInv
<1>3. CASE Start \/ Turn \/ Reload
  BY <1>1, <1>3, <1>t, BuildStarts DEF PluginsInv
<1>4. CASE Command \/ EndCommand
  BY <1>1, <1>4, <1>t, CommandKeeps DEF PluginsInv
<1>5. CASE BuildEnds
  BY <1>1, <1>5, <1>t, BuildEndsKeeps DEF PluginsInv
<1>6. CASE Replace \/ TurnFails \/ Quit \/ DropNext \/ DropLive
  <2>1. UNCHANGED <<dir, record, setting, source, doing, promised>>
    BY <1>6 DEF Replace, TurnFails, Quit, DropNext, DropLive, pmVars, disk
  <2>2. PluginInv'
    BY <1>1, <2>1 DEF PluginInv, PluginTypes, Sound, SoundAt, CopyAt, Working, CopiedBy, RivalsKnown, Past, PromisesKept
  <2>3. RuntimeInv'
    BY <1>1, <1>6, ReplaceKeeps, DropKeeps
  <2> QED
    BY <1>t, <2>2, <2>3 DEF PluginsInv
<1>7. CASE Outside
  BY <1>1, <1>7, <1>t, OutsideKeeps DEF PluginsInv
<1>8. ASSUME NEW c \in Proc, OtherCommand(c) \/ Step(c) \/ EndOther(c) \/ Crash(c)
      PROVE  PluginsInv'
  BY <1>1, <1>8, <1>t, OthersKeep, StepKeeps, CrashKeeps DEF PluginsInv
<1> QED
  BY <1>2, <1>3, <1>4, <1>5, <1>6, <1>7, <1>8 DEF RuntimeNext

\* What the disk holds of every plugin, the parts that load included, what a record of it
\* is worth, and what the REPL holds of the disk (PluginManager, BuiltRuntime).
THEOREM PluginsInvariant == RuntimeSpec => []PluginsInv
<1>1. RuntimeInit => PluginsInv
  BY PluginsStart
<1>2. PluginsInv /\ [RuntimeNext]_runtimeVars => PluginsInv'
  BY PluginsNext
<1> QED
  BY <1>1, <1>2, PTL DEF RuntimeSpec

\* An acknowledged install stays whole; a REPL alone on the disk runs with what is there,
\* and that is the shipped plugins, but for a part that loads, left by one of two processes
\* at work at once; Init and Shutdown commands pair up (PluginManager::install,
\* sync_bundled_plugins, BuiltRuntime).
THEOREM PluginsKept == RuntimeSpec => []PluginsAreDisk
<1>1. PluginsInv => PluginsAreDisk
  <2> SUFFICES ASSUME PluginsInv
               PROVE  PluginsAreDisk
    OBVIOUS
  <2>1. InstalledWhole
    BY DEF PluginsInv, PluginInv, PromisesKept, InstalledWhole
  <2>2. RuntimeIsDisk
    BY DEF PluginsInv, RuntimeInv, AloneInv, Current, Shipped, RuntimeIsDisk
  <2>3. LifecyclePaired
    <3> SUFFICES ASSUME ~excused
                 PROVE  LifecyclePaired
      BY DEF LifecyclePaired
    <3>1. HeldInv
      BY DEF PluginsInv, RuntimeInv
    <3>2. \A p \in Plugin : up[p] = Runs(live, p) + Runs(next, p)
      BY <3>1 DEF HeldInv
    <3>3. phase \in {"idle", "off"} => \A p \in Plugin : Runs(next, p) = 0
      BY <3>1, NoRuns DEF HeldInv
    <3>4. phase = "idle" => \A p \in Plugin : Runs(live, p) = IF p \in live.set THEN 1 ELSE 0
      BY <3>1 DEF HeldInv, Runs
    <3>5. phase = "off" => \A p \in Plugin : Runs(live, p) = 0
      BY <3>1, NoRuns DEF HeldInv
    <3> QED
      BY <3>2, <3>3, <3>4, <3>5 DEF LifecyclePaired
  <2> QED
    BY <2>1, <2>2, <2>3 DEF PluginsAreDisk
<1> QED
  BY <1>1, PluginsInvariant, PTL
=============================================================================
