----------------------- MODULE SessionCommands_proofs -----------------------
(***************************************************************************)
(* Theorems about SessionCommands, what REPL processes and a one-shot      *)
(* process may do to the session files of a workspace, about Skills, and   *)
(* about what the words of a line ask for (CommandLine, a function).       *)
(***************************************************************************)
EXTENDS SessionCommands, Skills, CommandLine, SequenceTheorems, FiniteSetTheorems, WellFoundedInduction,
        TLAPS
-----------------------------------------------------------------------------
\* Induction on the naturals, for a set of them: a set without a least element
\* missing misses none.
LEMMA Induction ==
  ASSUME NEW S, 0 \in S, \A n \in Nat : n \in S => n + 1 \in S
  PROVE  Nat \subseteq S
<1> SUFFICES ASSUME Nat \ S # {} PROVE FALSE
  OBVIOUS
<1>1. PICK m \in Nat \ S : \A y \in Nat \ S : <<y, m>> \notin OpToRel(<, Nat)
  BY NatLessThanWellFounded, WFMin
<1>2. m # 0 /\ m - 1 \in Nat /\ m - 1 < m /\ (m - 1) + 1 = m
  OBVIOUS
<1>3. <<m - 1, m>> \in OpToRel(<, Nat)
  BY <1>2 DEF OpToRel
<1> QED
  BY <1>1, <1>2, <1>3
-----------------------------------------------------------------------------
(***************************************************************************)
(* Sessions.  A message that only one process at a time could have had in  *)
(* its hands stays in the file it was said in, or in that file's backup,   *)
(* and in the memory of every process that has this file open.             *)
(***************************************************************************)
Backup(p) == [p EXCEPT !.ext = "bak"]

\* Message m is in file p and in the memory of every process that will write p.
HeldAt(p, m) ==
    /\ m \in files[p].msgs
    /\ \A r \in Repl : repl[r].on /\ repl[r].path = p => m \in repl[r].msgs
    /\ shot.path = p => m \in shot.msgs

\* Ids and messages are those generated so far; a session's parent is older than it.
Generated ==
    /\ \A p \in Path : Exists(p) => p.stem < nextId /\ files[p].id \in 1..(nextId - 1)
    /\ \A r \in Repl : repl[r].on => repl[r].path.stem < nextId /\ repl[r].sid < nextId
    /\ shot # Idle => shot.path \in Path /\ shot.path.stem < nextId /\ shot.sid \in 1..(nextId - 1)
    /\ \A i \in Id : parent[i] # 0 => parent[i] < i /\ i < nextId
    /\ \A a \in acked : /\ a.path \in Path /\ a.path.stem < nextId
                        /\ a.sid \in 1..(nextId - 1) /\ a.msg \in 1..(nextMsg - 1)
    /\ \A a1, a2 \in acked : a1.msg = a2.msg => a1 = a2
Spoken ==
    /\ \A p \in Path : files[p].msgs \subseteq 1..(nextMsg - 1)
    /\ \A r \in Repl : repl[r].msgs \subseteq 1..(nextMsg - 1)
    /\ shot.msgs \subseteq 1..(nextMsg - 1)

\* A file that two processes never had open at once has one writer at most.
Alone ==
    \A p \in Path \ mingled :
        /\ \A r1, r2 \in Repl : repl[r1].on /\ repl[r1].path = p /\ repl[r2].on /\ repl[r2].path = p => r1 = r2
        /\ shot.path = p => \A r \in Repl : ~(repl[r].on /\ repl[r].path = p)

BackedUp == shot.backed => /\ shot # Idle /\ shot.path.ext # "bak"
                           /\ \A m \in shot.msgs : m \in removed \/ HeldAt(Backup(shot.path), m)
Homes == \A a \in acked :
            a.path \in mingled \/ a.msg \in removed \/ HeldAt(a.path, a.msg) \/ HeldAt(Backup(a.path), a.msg)

\* A session holds messages of its own and of those it descends from.
Right(s) == \A a \in acked : a.path \notin mingled /\ a.msg \in s.msgs => a.sid \in Descends[s.id]
Lineage == /\ \A p \in Path : Right(files[p])
           /\ \A r \in Repl : repl[r].on => Right(Session(repl[r]))
           /\ Right(Session(shot))

CommandsInv ==
    /\ TypeOK /\ Generated /\ Spoken /\ Alone /\ HandleIsSession /\ DiskIsCurrent
    /\ BackedUp /\ Homes /\ Lineage
-----------------------------------------------------------------------------
(* Descent, by induction on ids: a parent is older than its forks.         *)

Desc(par) == CHOOSE f : f = [i \in Id |-> {i} \cup IF par[i] = 0 THEN {} ELSE f[par[i]]]
Older(par) == par \in [Id -> Id \cup {0}] /\ \A i \in Id : par[i] # 0 => par[i] < i

LEMMA DescIs ==
  ASSUME NEW par, Older(par)
  PROVE  \A i \in Id : Desc(par)[i] = {i} \cup IF par[i] = 0 THEN {} ELSE Desc(par)[par[i]]
<1> DEFINE Part(f, n) == f = [i \in 1..n |-> {i} \cup IF par[i] = 0 THEN {} ELSE f[par[i]]]
           S == {n \in Nat : n <= MaxId => \E f : Part(f, n)}
<1>0. MaxId \in Nat
  BY BoundAssumption
<1>1. 0 \in S
  <2>1. Part([i \in 1..0 |-> {}], 0)
    OBVIOUS
  <2> QED
    BY <2>1
<1>2. ASSUME NEW n \in Nat, n \in S PROVE n + 1 \in S
  <2> SUFFICES ASSUME n + 1 <= MaxId PROVE \E f : Part(f, n + 1)
    OBVIOUS
  <2>1. PICK f : Part(f, n)
    BY <1>0, <1>2
  <2> DEFINE new == {n + 1} \cup IF par[n + 1] = 0 THEN {} ELSE f[par[n + 1]]
             h == [i \in 1..(n + 1) |-> IF i <= n THEN f[i] ELSE new]
  <2>2. ASSUME NEW i \in 1..(n + 1)
        PROVE  h[i] = {i} \cup IF par[i] = 0 THEN {} ELSE h[par[i]]
    <3>1. i \in Id /\ (par[i] # 0 => par[i] \in 1..n /\ par[i] < i)
      BY <1>0 DEF Older, Id
    <3>2. par[i] # 0 => h[par[i]] = f[par[i]]
      BY <3>1
    <3>3. CASE i \in 1..n
      <4>1. h[i] = f[i]
        BY <3>3
      <4>2. f[i] = {i} \cup IF par[i] = 0 THEN {} ELSE f[par[i]]
        BY <2>1, <3>3
      <4> QED
        BY <3>2, <4>1, <4>2
    <3>4. CASE i = n + 1
      <4>1. h[i] = new
        BY <3>4
      <4> QED
        BY <3>2, <3>4, <4>1
    <3> QED
      BY <3>3, <3>4
  <2>3. Part(h, n + 1)
    <3> DEFINE g == [i \in 1..(n + 1) |-> {i} \cup IF par[i] = 0 THEN {} ELSE h[par[i]]]
    <3>1. DOMAIN h = DOMAIN g /\ \A i \in DOMAIN h : h[i] = g[i]
      BY <2>2
    <3>2. h = [i \in DOMAIN h |-> h[i]] /\ g = [i \in DOMAIN g |-> g[i]]
      OBVIOUS
    <3> HIDE DEF h, g
    <3>3. h = g
      BY <3>1, <3>2
    <3> QED
      BY <3>3 DEF g
  <2> HIDE DEF h
  <2> QED
    BY <2>3
<1> HIDE DEF S
<1>3. MaxId \in S
  BY <1>0, <1>1, <1>2, Induction
<1>4. \E f : Part(f, MaxId)
  BY <1>0, <1>3 DEF S
<1>5. \E f : f = [i \in Id |-> {i} \cup IF par[i] = 0 THEN {} ELSE f[par[i]]]
  BY <1>4 DEF Id
<1> DEFINE d == Desc(par)
<1>6. d = [i \in Id |-> {i} \cup IF par[i] = 0 THEN {} ELSE d[par[i]]]
  BY <1>5 DEF Desc
<1> HIDE DEF d
<1>7. \A i \in Id : d[i] = {i} \cup IF par[i] = 0 THEN {} ELSE d[par[i]]
  BY <1>6
<1> QED
  BY <1>7 DEF d

LEMMA DescAgree ==
  ASSUME NEW par, NEW q, Older(par), Older(q), NEW n \in Nat, \A i \in Id : i < n => par[i] = q[i]
  PROVE  \A i \in Id : i < n => Desc(par)[i] = Desc(q)[i]
<1> DEFINE S == {k \in Nat : \A i \in Id : i <= k /\ i < n => Desc(par)[i] = Desc(q)[i]}
<1>0. MaxId \in Nat
  BY BoundAssumption
<1>1. 0 \in S
  BY <1>0 DEF Id
<1>2. ASSUME NEW k \in Nat, k \in S PROVE k + 1 \in S
  <2> SUFFICES ASSUME NEW i \in Id, i <= k + 1, i < n PROVE Desc(par)[i] = Desc(q)[i]
    OBVIOUS
  <2>1. i \in Nat /\ par[i] = q[i]
    BY <1>0 DEF Id
  <2>2. par[i] # 0 => par[i] \in Id /\ par[i] <= k /\ par[i] < n
    BY <1>0, <2>1 DEF Older, Id
  <2>3. par[i] # 0 => Desc(par)[par[i]] = Desc(q)[par[i]]
    BY <1>2, <2>2
  <2>4. /\ Desc(par)[i] = {i} \cup IF par[i] = 0 THEN {} ELSE Desc(par)[par[i]]
        /\ Desc(q)[i] = {i} \cup IF q[i] = 0 THEN {} ELSE Desc(q)[q[i]]
    BY DescIs
  <2> QED
    BY <2>1, <2>3, <2>4
<1> HIDE DEF S
<1>3. Nat \subseteq S
  BY <1>1, <1>2, Induction
<1> SUFFICES ASSUME NEW i \in Id, i < n PROVE Desc(par)[i] = Desc(q)[i]
  OBVIOUS
<1>4. i \in Nat /\ i <= i
  BY <1>0 DEF Id
<1>5. i \in S
  BY <1>3, <1>4
<1> QED
  BY <1>4, <1>5 DEF S

\* What the steps do to the list of recent files.
LEMMA WithoutIs ==
  ASSUME NEW s \in Seq(Path), IsInjective(s), NEW p
  PROVE  /\ Without(s, p) \in Seq(Path) /\ IsInjective(Without(s, p))
         /\ ToSet(Without(s, p)) = ToSet(s) \ {p}
<1>1. CASE p \notin ToSet(s)
  BY <1>1 DEF Without
<1>2. CASE p \in ToSet(s)
  <2> DEFINE k == CHOOSE i \in 1..Len(s) : s[i] = p
             n == Len(s)
             u == SubSeq(s, 1, k - 1)
             v == SubSeq(s, k + 1, n)
             t == u \o v
  <2>1. n \in Nat /\ DOMAIN s = 1..n /\ \A i \in 1..n : s[i] \in Path
    BY LenProperties, ElementOfSeq
  <2>2. k \in 1..n /\ s[k] = p
    BY <1>2, <2>1 DEF ToSet
  <2> HIDE DEF k
  <2>3. u \in Seq(Path) /\ Len(u) = k - 1 /\ \A i \in 1..(k - 1) : u[i] = s[i]
    <3>1. u = [i \in 1..(k - 1) |-> s[i]]
      BY <2>1, <2>2
    <3>2. \A i \in 1..(k - 1) : s[i] \in Path
      BY <2>1, <2>2
    <3>3. k - 1 \in Nat
      BY <2>2
    <3> HIDE DEF u
    <3> QED
      BY <3>1, <3>2, <3>3
  <2>4. v \in Seq(Path) /\ Len(v) = n - k /\ \A i \in 1..(n - k) : v[i] = s[i + k]
    <3>1. v = [i \in 1..(n - k) |-> s[i + k]]
      BY <2>1, <2>2
    <3>2. \A i \in 1..(n - k) : s[i + k] \in Path
      <4> TAKE i \in 1..(n - k)
      <4>1. i + k \in 1..n
        BY <2>1, <2>2
      <4> QED
        BY <2>1, <4>1
    <3>3. n - k \in Nat
      BY <2>1, <2>2
    <3> HIDE DEF v
    <3> QED
      BY <3>1, <3>2, <3>3
  <2> HIDE DEF u, v
  <2>5. t \in Seq(Path) /\ Len(t) = n - 1
        /\ \A i \in 1..(n - 1) : t[i] = IF i <= k - 1 THEN u[i] ELSE v[i - (k - 1)]
    <3>1. t \in Seq(Path) /\ Len(t) = Len(u) + Len(v)
          /\ \A i \in 1..(Len(u) + Len(v)) : t[i] = IF i <= Len(u) THEN u[i] ELSE v[i - Len(u)]
      BY <2>3, <2>4, ConcatProperties
    <3>2. Len(u) + Len(v) = n - 1
      BY <2>1, <2>2, <2>3, <2>4
    <3> QED
      BY <2>3, <3>1, <3>2
  <2> HIDE DEF t
  <2>6. \A i \in 1..(n - 1) : t[i] = IF i < k THEN s[i] ELSE s[i + 1]
    <3> TAKE i \in 1..(n - 1)
    <3>1. CASE i < k
      <4>1. i \in 1..(k - 1) /\ i <= k - 1
        BY <2>2, <3>1
      <4> QED
        BY <2>3, <2>5, <3>1, <4>1
    <3>2. CASE ~(i < k)
      <4>1. i - (k - 1) \in 1..(n - k) /\ ~(i <= k - 1) /\ (i - (k - 1)) + k = i + 1
        BY <2>1, <2>2, <3>2
      <4> QED
        BY <2>4, <2>5, <3>2, <4>1
    <3> QED
      BY <3>1, <3>2
  <2>7. DOMAIN t = 1..(n - 1)
    BY <2>1, <2>2, <2>5
  <2>8. IsInjective(t)
    <3> SUFFICES ASSUME NEW i \in 1..(n - 1), NEW j \in 1..(n - 1), t[i] = t[j] PROVE i = j
      BY <2>7 DEF IsInjective
    <3>1. i \in 1..n /\ j \in 1..n /\ i + 1 \in 1..n /\ j + 1 \in 1..n
      BY <2>1
    <3>2. \A x, y \in 1..n : s[x] = s[y] => x = y
      BY <2>1 DEF IsInjective
    <3> QED
      BY <2>2, <2>6, <3>1, <3>2
  <2>9. ToSet(t) = ToSet(s) \ {p}
    <3>1. ASSUME NEW i \in 1..(n - 1) PROVE t[i] \in ToSet(s) \ {p}
      <4>1. \A x \in 1..n : s[x] = p => x = k
        BY <2>1, <2>2 DEF IsInjective
      <4>2. CASE i < k
        <5>1. i \in 1..n /\ i # k /\ t[i] = s[i]
          BY <2>1, <2>2, <2>6, <4>2
        <5> QED
          BY <2>1, <4>1, <5>1 DEF ToSet
      <4>3. CASE ~(i < k)
        <5>1. i + 1 \in 1..n /\ i + 1 # k /\ t[i] = s[i + 1]
          BY <2>1, <2>2, <2>6, <4>3
        <5> QED
          BY <2>1, <4>1, <5>1 DEF ToSet
      <4> QED
        BY <4>2, <4>3
    <3>2. ASSUME NEW x \in ToSet(s), x # p PROVE x \in ToSet(t)
      <4>1. PICK i \in 1..n : s[i] = x
        BY <2>1 DEF ToSet
      <4>2. CASE i < k
        <5>1. i \in 1..(n - 1)
          BY <2>1, <2>2, <4>2
        <5> QED
          BY <2>6, <2>7, <4>1, <4>2, <5>1 DEF ToSet
      <4>3. CASE i > k
        <5>1. i - 1 \in 1..(n - 1) /\ ~(i - 1 < k) /\ (i - 1) + 1 = i
          BY <2>1, <2>2, <4>3
        <5> QED
          BY <2>6, <2>7, <4>1, <5>1 DEF ToSet
      <4>4. i # k
        BY <2>2, <3>2, <4>1
      <4> QED
        BY <2>2, <4>2, <4>3, <4>4
    <3> QED
      BY <2>7, <3>1, <3>2 DEF ToSet
  <2>10. Without(s, p) = t
    BY <1>2 DEF Without, RemoveAt, t, u, v, k
  <2> QED
    BY <2>5, <2>8, <2>9, <2>10
<1> QED
  BY <1>1, <1>2
-----------------------------------------------------------------------------
(* What a write leaves.                                                    *)

Sessions == [id : Id, msgs : SUBSET Msg]
Running == [on : {TRUE}, id : Id, path : Path, sid : Id, msgs : SUBSET Msg, spath : Path]
\* Right of a session after the step.
RightNext(s) == \A a \in acked' : a.path \notin mingled' /\ a.msg \in s.msgs => a.sid \in Descends'[s.id]

LEMMA WriteIs ==
  ASSUME TypeOK, NEW w \in Path, NEW s \in Sessions, Write(w, s)
  PROVE  /\ files' \in [Path -> [id : Id \cup {0}, msgs : SUBSET Msg]]
         /\ recent' \in Seq(Path) /\ IsInjective(recent')
         /\ ToSet(recent') = {p \in Path : files'[p] # NoFile /\ Managed(p)}
         /\ files'[w] = s /\ s # NoFile /\ \A p \in Path : p # w => files'[p] = files[p]
<1>1. files' = [files EXCEPT ![w] = s] /\ files \in [Path -> [id : Id \cup {0}, msgs : SUBSET Msg]]
  BY DEF Write, TypeOK
<1>2. s \in [id : Id \cup {0}, msgs : SUBSET Msg] /\ s # NoFile
  BY BoundAssumption DEF Sessions, NoFile, Id
<1>3. /\ files' \in [Path -> [id : Id \cup {0}, msgs : SUBSET Msg]]
      /\ files'[w] = s /\ \A p \in Path : p # w => files'[p] = files[p]
  BY <1>1, <1>2
<1>4. recent \in Seq(Path) /\ IsInjective(recent) /\ ToSet(recent) = {p \in Path : files[p] # NoFile /\ Managed(p)}
  BY DEF TypeOK, Exists
<1>5. CASE ~Managed(w)
  <2>1. recent' = recent
    BY <1>5 DEF Write
  <2> QED
    BY <1>2, <1>3, <1>4, <1>5, <2>1
<1>6. CASE Managed(w)
  <2> DEFINE u == Without(recent, w)
             t == Append(u, w)
  <2>1. u \in Seq(Path) /\ IsInjective(u) /\ ToSet(u) = ToSet(recent) \ {w} /\ recent' = t
    BY <1>4, <1>6, WithoutIs DEF Write
  <2> HIDE DEF u
  <2>2. /\ t \in Seq(Path) /\ Len(t) = Len(u) + 1 /\ t[Len(u) + 1] = w /\ Len(u) \in Nat
        /\ \A i \in 1..Len(u) : t[i] = u[i]
    BY <2>1, AppendProperties
  <2>3. DOMAIN t = 1..(Len(u) + 1) /\ DOMAIN u = 1..Len(u)
    BY <2>1, <2>2
  <2> HIDE DEF t
  <2>4. \A i \in 1..Len(u) : u[i] # w
    BY <2>1, <2>3 DEF ToSet
  <2>5. IsInjective(t)
    <3> SUFFICES ASSUME NEW i \in 1..(Len(u) + 1), NEW j \in 1..(Len(u) + 1), t[i] = t[j] PROVE i = j
      BY <2>3 DEF IsInjective
    <3>1. \A x, y \in 1..Len(u) : u[x] = u[y] => x = y
      BY <2>1, <2>3 DEF IsInjective
    <3>2. \A x \in 1..(Len(u) + 1) : x \in 1..Len(u) \/ x = Len(u) + 1
      BY <2>2
    <3> QED
      BY <2>2, <2>4, <3>1, <3>2
  <2>6. ToSet(t) = ToSet(u) \cup {w}
    <3>1. \A x \in 1..(Len(u) + 1) : x \in 1..Len(u) \/ x = Len(u) + 1
      BY <2>2
    <3>2. \A x \in 1..Len(u) : x \in 1..(Len(u) + 1)
      BY <2>2
    <3>3. Len(u) + 1 \in 1..(Len(u) + 1)
      BY <2>2
    <3> QED
      BY <2>2, <2>3, <3>1, <3>2, <3>3 DEF ToSet
  <2> QED
    BY <1>2, <1>3, <1>4, <1>6, <2>1, <2>2, <2>5, <2>6
<1> QED
  BY <1>2, <1>3, <1>5, <1>6

\* Sessions written before keep their place in the lineage.
LEMMA LineageOf ==
  ASSUME CommandsInv, nextId' \in nextId..(MaxId + 1), parent' \in [Id -> Id \cup {0}],
         \A i \in Id : i < nextId => parent'[i] = parent[i],
         \A i \in Id : parent'[i] # 0 => parent'[i] < i /\ i < nextId'
  PROVE  /\ Descends = Desc(parent) /\ Descends' = Desc(parent')
         /\ \A i \in 1..(nextId - 1) : i \in Id /\ Descends'[i] = Descends[i]
         /\ \A i \in Id : i \in Descends[i] /\ i \in Descends'[i]
         /\ \A i \in Id : parent'[i] # 0 => Descends'[parent'[i]] \subseteq Descends'[i]
<1>1. Descends = Desc(parent) /\ Descends' = Desc(parent')
  BY DEF Descends, Desc
<1>2. Older(parent) /\ Older(parent')
  BY DEF CommandsInv, TypeOK, Generated, Older
<1>3. MaxId \in Nat /\ nextId \in 1..(MaxId + 1)
  BY BoundAssumption DEF CommandsInv, TypeOK
<1>4. \A i \in 1..(nextId - 1) : i \in Id /\ i < nextId
  BY <1>3 DEF Id
<1>5. nextId \in Nat
  BY <1>3
<1>6. \A i \in Id : i < nextId => Desc(parent')[i] = Desc(parent)[i]
  BY <1>2, <1>5, DescAgree
<1>7. \A i \in Id : i \in Desc(parent)[i] /\ i \in Desc(parent')[i]
  BY <1>2, DescIs
<1>8. \A i \in Id : parent'[i] # 0 => Desc(parent')[parent'[i]] \subseteq Desc(parent')[i]
  BY <1>2, DescIs
<1> QED
  BY <1>1, <1>4, <1>6, <1>7, <1>8

\* What is known of a REPL that runs.
LEMMA RunningIs ==
  ASSUME CommandsInv, NEW r \in Repl, repl[r].on
  PROVE  /\ repl[r] = Live(repl[r].sid, repl[r].msgs, repl[r].path)
         /\ repl[r].path \in Path /\ repl[r].path.stem < nextId
         /\ repl[r].sid \in 1..(nextId - 1) /\ repl[r].sid \in Id /\ repl[r].msgs \subseteq Msg
         /\ repl[r].msgs \subseteq 1..(nextMsg - 1)
         /\ Session(repl[r]) \in Sessions
         /\ Right(Session(repl[r]))
<1>1. repl[r] \in Running
  <2>1. repl[r] \in {Off} \cup Running
    BY DEF CommandsInv, TypeOK, Running
  <2>2. ~Off.on
    BY DEF Off
  <2> QED
    BY <2>1, <2>2
<1>2. repl[r].id = repl[r].sid /\ repl[r].path = repl[r].spath
  BY DEF CommandsInv, HandleIsSession
<1>3. repl[r] = Live(repl[r].sid, repl[r].msgs, repl[r].path)
  BY <1>1, <1>2 DEF Live, Running
<1>4. repl[r].path.stem < nextId /\ repl[r].sid < nextId /\ repl[r].msgs \subseteq 1..(nextMsg - 1)
  BY DEF CommandsInv, Generated, Spoken
<1>5. repl[r].sid \in 1..(nextId - 1)
  BY <1>1, <1>4, BoundAssumption DEF CommandsInv, TypeOK, Id, Running
<1> QED
  BY <1>1, <1>3, <1>4, <1>5 DEF CommandsInv, Lineage, Session, Sessions, Running

-----------------------------------------------------------------------------
(* A REPL writes session s to file w, and goes on with it or is gone.      *)

\* new: what the step adds to acked, a message of session sid or none.
Writes(r, w, s, v, new, sid) ==
    /\ Write(w, s) /\ s \in Sessions
    /\ repl' = [repl EXCEPT ![r] = v] /\ v \in {Off, Live(s.id, s.msgs, w)}
    /\ UNCHANGED <<shot, removed>>
    /\ mingled \subseteq mingled' /\ mingled' \subseteq Path
    /\ nextId' \in nextId..(MaxId + 1) /\ nextMsg' \in nextMsg..(MaxMsg + 1)
    /\ parent' \in [Id -> Id \cup {0}]
    /\ \A i \in Id : i < nextId => parent'[i] = parent[i]
    /\ \A i \in Id : parent'[i] # 0 => parent'[i] < i /\ i < nextId'
    /\ w.stem < nextId' /\ s.id < nextId' /\ s.msgs \subseteq 1..(nextMsg' - 1)
    /\ w \notin mingled' => shot.path # w /\ \A x \in Repl : repl[x].on /\ repl[x].path = w => x = r
    /\ \A m \in 1..(nextMsg - 1) : HeldAt(w, m) => m \in s.msgs
    /\ acked' = acked \cup new
    /\ sid \in 1..(nextId' - 1) /\ new \subseteq {[msg |-> nextMsg, path |-> w, sid |-> sid]}
    /\ new # {} => nextMsg' = nextMsg + 1 /\ nextMsg \in s.msgs
    /\ new # {} /\ w \notin mingled' => sid = s.id
    /\ \A a \in acked : a.path \notin mingled' /\ a.msg \in s.msgs => a.sid \in Descends'[s.id]

LEMMA WriterKeeps ==
  ASSUME CommandsInv, NEW r \in Repl, NEW w \in Path, NEW s, NEW v, NEW new, NEW sid,
         Writes(r, w, s, v, new, sid)
  PROVE  CommandsInv'
<1> SUFFICES ASSUME /\ Write(w, s) /\ s \in Sessions
                    /\ repl' = [repl EXCEPT ![r] = v] /\ v \in {Off, Live(s.id, s.msgs, w)}
                    /\ UNCHANGED <<shot, removed>>
                    /\ mingled \subseteq mingled' /\ mingled' \subseteq Path
                    /\ nextId' \in nextId..(MaxId + 1) /\ nextMsg' \in nextMsg..(MaxMsg + 1)
                    /\ parent' \in [Id -> Id \cup {0}]
                    /\ \A i \in Id : i < nextId => parent'[i] = parent[i]
                    /\ \A i \in Id : parent'[i] # 0 => parent'[i] < i /\ i < nextId'
                    /\ w.stem < nextId' /\ s.id < nextId' /\ s.msgs \subseteq 1..(nextMsg' - 1)
                    /\ w \notin mingled' => shot.path # w /\ \A x \in Repl : repl[x].on /\ repl[x].path = w => x = r
                    /\ \A m \in 1..(nextMsg - 1) : HeldAt(w, m) => m \in s.msgs
                    /\ acked' = acked \cup new
                    /\ sid \in 1..(nextId' - 1) /\ new \subseteq {[msg |-> nextMsg, path |-> w, sid |-> sid]}
                    /\ new # {} => nextMsg' = nextMsg + 1 /\ nextMsg \in s.msgs
                    /\ new # {} /\ w \notin mingled' => sid = s.id
                    /\ \A a \in acked : a.path \notin mingled' /\ a.msg \in s.msgs => a.sid \in Descends'[s.id]
             PROVE  CommandsInv'
  BY DEF Writes
<1>0. /\ MaxId \in Nat /\ MaxMsg \in Nat /\ nextId \in Nat /\ nextMsg \in Nat /\ nextId' \in Nat /\ nextMsg' \in Nat
      /\ nextId <= nextId' /\ nextMsg <= nextMsg' /\ nextId >= 1 /\ nextMsg >= 1
  BY BoundAssumption DEF CommandsInv, TypeOK
<1>1. /\ files' \in [Path -> [id : Id \cup {0}, msgs : SUBSET Msg]]
      /\ recent' \in Seq(Path) /\ IsInjective(recent')
      /\ ToSet(recent') = {p \in Path : files'[p] # NoFile /\ Managed(p)}
      /\ files'[w] = s /\ s # NoFile /\ \A p \in Path : p # w => files'[p] = files[p]
  BY WriteIs DEF CommandsInv
<1>2. /\ v \in {Off} \cup Running
      /\ repl \in [Repl -> {Off} \cup Running]
      /\ v.on => v.path = w /\ v.sid = s.id /\ v.msgs = s.msgs /\ v.id = s.id /\ v.spath = w
      /\ ~v.on => v.msgs = {} /\ v.id = v.sid /\ v.path = v.spath
      /\ s.id \in Id /\ s.id \in Nat /\ s.id >= 1
  <2>1. s.id \in Id /\ s.msgs \in SUBSET Msg /\ s.id \in Nat /\ s.id >= 1
    BY BoundAssumption DEF Sessions, Id
  <2>2. Live(s.id, s.msgs, w) \in Running
    BY <2>1 DEF Live, Running
  <2>3. repl \in [Repl -> {Off} \cup Running]
    BY DEF CommandsInv, TypeOK, Running
  <2>4. ~Off.on /\ Off.msgs = {} /\ Off.id = Off.sid /\ Off.path = Off.spath
    BY DEF Off
  <2>5. CASE v = Off
    BY <2>1, <2>3, <2>4, <2>5
  <2>6. CASE v = Live(s.id, s.msgs, w)
    <3>1. v.on /\ v.path = w /\ v.sid = s.id /\ v.msgs = s.msgs /\ v.id = s.id /\ v.spath = w
      BY <2>6 DEF Live
    <3> QED
      BY <2>1, <2>2, <2>3, <2>6, <3>1
  <2> QED
    BY <2>5, <2>6
<1>3. repl'[r] = v /\ \A x \in Repl : x # r => repl'[x] = repl[x]
  BY <1>2
<1>4. /\ shot' = shot /\ removed' = removed
      /\ acked \subseteq acked'
      /\ \A a \in acked' : a \in acked \/ a \in new
      /\ \A a \in new : a.msg = nextMsg /\ a.path = w /\ a.sid = sid
      /\ \A a \in acked : a.path \in Path /\ a.path.stem < nextId /\ a.sid \in 1..(nextId - 1)
                          /\ a.msg \in 1..(nextMsg - 1)
  BY DEF CommandsInv, Generated
<1>5. TypeOK'
  <2>1. repl' \in [Repl -> {Off} \cup [on : {TRUE}, id : Id, path : Path, sid : Id,
                                       msgs : SUBSET Msg, spath : Path]]
    BY <1>2 DEF Running
  <2>2. nextId' \in 1..(MaxId + 1) /\ nextMsg' \in 1..(MaxMsg + 1)
    BY <1>0
  <2> QED
    BY <1>1, <1>4, <2>1, <2>2 DEF CommandsInv, TypeOK, Exists
<1>6. Generated'
  <2>1. ASSUME NEW p \in Path, files'[p] # NoFile
        PROVE  p.stem < nextId' /\ files'[p].id \in 1..(nextId' - 1)
    <3>1. CASE p = w
      BY <1>0, <1>1, <1>2, <3>1
    <3>2. CASE p # w
      <4>1. p.stem < nextId /\ files[p].id \in 1..(nextId - 1) /\ files'[p] = files[p]
        BY <1>1, <2>1, <3>2 DEF CommandsInv, Generated, Exists
      <4>2. p.stem \in Nat
        BY <1>0 DEF Path, Id
      <4> QED
        BY <1>0, <4>1, <4>2
    <3> QED
      BY <3>1, <3>2
  <2>2. ASSUME NEW x \in Repl, repl'[x].on
        PROVE  repl'[x].path.stem < nextId' /\ repl'[x].sid < nextId'
    <3>1. CASE x = r
      BY <1>2, <1>3, <2>2, <3>1
    <3>2. CASE x # r
      <4>1. repl'[x] = repl[x] /\ repl[x].path \in Path /\ repl[x].path.stem < nextId /\ repl[x].sid \in 1..(nextId - 1)
        BY <1>3, <2>2, <3>2, RunningIs
      <4>2. repl[x].path.stem \in Nat
        BY <1>0, <4>1 DEF Path, Id
      <4> QED
        BY <1>0, <4>1, <4>2
    <3> QED
      BY <3>1, <3>2
  <2>3. shot' # Idle => shot'.path \in Path /\ shot'.path.stem < nextId' /\ shot'.sid \in 1..(nextId' - 1)
    <3> SUFFICES ASSUME shot # Idle PROVE shot.path \in Path /\ shot.path.stem < nextId' /\ shot.sid \in 1..(nextId' - 1)
      BY <1>4
    <3>1. shot.path \in Path /\ shot.path.stem < nextId /\ shot.sid \in 1..(nextId - 1)
      BY DEF CommandsInv, Generated
    <3>2. shot.path.stem \in Nat
      BY <1>0, <3>1 DEF Path, Id
    <3> QED
      BY <1>0, <3>1, <3>2
  <2>4. ASSUME NEW a \in acked'
        PROVE  /\ a.path \in Path /\ a.path.stem < nextId'
               /\ a.sid \in 1..(nextId' - 1) /\ a.msg \in 1..(nextMsg' - 1)
    <3>1. CASE a \in acked
      <4>1. a.path.stem \in Nat
        BY <1>0, <1>4, <3>1 DEF Path, Id
      <4> QED
        BY <1>0, <1>4, <3>1, <4>1
    <3>2. CASE a \in new
      BY <1>0, <1>4, <3>2
    <3> QED
      BY <1>4, <3>1, <3>2
  <2>5. ASSUME NEW a \in acked', NEW b \in acked', a.msg = b.msg PROVE a = b
    <3>1. \A c \in acked : c.msg # nextMsg
      BY <1>0, <1>4
    <3>2. CASE a \in acked /\ b \in acked
      BY <2>5, <3>2 DEF CommandsInv, Generated
    <3> QED
      BY <1>4, <2>5, <3>1, <3>2
  <2> QED
    BY <2>1, <2>2, <2>3, <2>4, <2>5 DEF Generated, Exists
<1>7. Spoken'
  <2>1. 1..(nextMsg - 1) \subseteq 1..(nextMsg' - 1)
    BY <1>0
  <2>2. ASSUME NEW p \in Path PROVE files'[p].msgs \subseteq 1..(nextMsg' - 1)
    BY <1>1, <2>1 DEF CommandsInv, Spoken
  <2>3. ASSUME NEW x \in Repl PROVE repl'[x].msgs \subseteq 1..(nextMsg' - 1)
    BY <1>2, <1>3, <2>1 DEF CommandsInv, Spoken
  <2>4. shot'.msgs \subseteq 1..(nextMsg' - 1)
    BY <1>4, <2>1 DEF CommandsInv, Spoken
  <2> QED
    BY <2>2, <2>3, <2>4 DEF Spoken
<1>8. Alone'
  <2> SUFFICES ASSUME NEW p \in Path \ mingled'
               PROVE  /\ \A x, y \in Repl : repl'[x].on /\ repl'[x].path = p /\ repl'[y].on /\ repl'[y].path = p => x = y
                      /\ shot'.path = p => \A x \in Repl : ~(repl'[x].on /\ repl'[x].path = p)
    BY DEF Alone
  <2>1. /\ \A x, y \in Repl : repl[x].on /\ repl[x].path = p /\ repl[y].on /\ repl[y].path = p => x = y
        /\ shot.path = p => \A x \in Repl : ~(repl[x].on /\ repl[x].path = p)
    BY DEF CommandsInv, Alone
  <2>2. CASE p = w
    BY <1>3, <1>4, <2>2
  <2>3. CASE p # w
    BY <1>2, <1>3, <1>4, <2>1, <2>3
  <2> QED
    BY <2>2, <2>3
<1>9. HandleIsSession'
  BY <1>2, <1>3 DEF CommandsInv, HandleIsSession
<1>10. DiskIsCurrent'
  <2> SUFFICES ASSUME NEW x \in Repl, repl'[x].on, repl'[x].path \notin mingled', files'[repl'[x].path] # NoFile
               PROVE  files'[repl'[x].path] = Session(repl'[x])
    BY DEF DiskIsCurrent, Session, Exists
  <2>1. CASE x = r
    <3>1. repl'[x].path = w /\ Session(repl'[x]) = [id |-> s.id, msgs |-> s.msgs]
      BY <1>2, <1>3, <2>1 DEF Session
    <3>2. s = [id |-> s.id, msgs |-> s.msgs]
      BY DEF Sessions
    <3> QED
      BY <1>1, <3>1, <3>2
  <2>2. CASE x # r
    <3>1. repl'[x] = repl[x] /\ repl[x].path # w /\ repl[x].path \in Path
      BY <1>3, <2>2, RunningIs
    <3>2. files'[repl[x].path] = files[repl[x].path] /\ repl[x].path \notin mingled
      BY <1>1, <3>1
    <3> QED
      BY <3>1, <3>2 DEF CommandsInv, DiskIsCurrent, Exists
  <2> QED
    BY <2>1, <2>2
<1>11. ASSUME NEW p \in Path, NEW m \in 1..(nextMsg - 1), HeldAt(p, m) PROVE HeldAt(p, m)'
  <2>1. /\ m \in files[p].msgs
        /\ \A x \in Repl : repl[x].on /\ repl[x].path = p => m \in repl[x].msgs
        /\ shot.path = p => m \in shot.msgs
    BY <1>11 DEF HeldAt
  <2>2. p = w => m \in s.msgs
    BY <1>11
  <2>3. m \in files'[p].msgs
    BY <1>1, <2>1, <2>2
  <2>4. \A x \in Repl : repl'[x].on /\ repl'[x].path = p => m \in repl'[x].msgs
    BY <1>2, <1>3, <2>1, <2>2
  <2> QED
    BY <1>4, <2>1, <2>3, <2>4 DEF HeldAt
<1>12. BackedUp'
  <2> SUFFICES ASSUME shot.backed
               PROVE  /\ shot # Idle /\ shot.path.ext # "bak"
                      /\ \A m \in shot.msgs : m \in removed \/ HeldAt(Backup(shot.path), m)'
    BY <1>4 DEF BackedUp
  <2>1. /\ shot # Idle /\ shot.path.ext # "bak"
        /\ \A m \in shot.msgs : m \in removed \/ HeldAt(Backup(shot.path), m)
    BY DEF CommandsInv, BackedUp
  <2>2. Backup(shot.path) \in Path
    BY <2>1 DEF CommandsInv, Generated, Backup, Path, Ext
  <2>3. shot.msgs \subseteq 1..(nextMsg - 1)
    BY DEF CommandsInv, Spoken
  <2>4. (Backup(shot.path))' = Backup(shot.path)
    BY <1>4 DEF Backup
  <2> QED
    BY <1>11, <2>1, <2>2, <2>3, <2>4
<1>13. Homes'
  <2> SUFFICES ASSUME NEW a \in acked', a.path \notin mingled', a.msg \notin removed
               PROVE  HeldAt(a.path, a.msg)' \/ HeldAt(Backup(a.path), a.msg)'
    BY <1>4 DEF Homes
  <2>1. CASE a \in acked
    <3>1. HeldAt(a.path, a.msg) \/ HeldAt(Backup(a.path), a.msg)
      BY <2>1 DEF CommandsInv, Homes
    <3>2. a.path \in Path /\ Backup(a.path) \in Path /\ a.msg \in 1..(nextMsg - 1)
      BY <1>4, <2>1 DEF Backup, Path, Ext
    <3> QED
      BY <1>11, <3>1, <3>2
  <2>2. CASE a \in new
    <3>1. a.path = w /\ a.msg \in s.msgs /\ w \notin mingled'
      BY <1>4, <2>2
    <3>2. shot'.path # w /\ \A x \in Repl : repl'[x].on /\ repl'[x].path = w => x = r
      BY <1>3, <1>4, <3>1
    <3> QED
      BY <1>1, <1>2, <1>3, <3>1, <3>2 DEF HeldAt
  <2> QED
    BY <1>4, <2>1, <2>2
<1>14. Lineage'
  <2>1. \A i \in 1..(nextId - 1) : Descends'[i] = Descends[i]
    BY LineageOf
  <2>2. ASSUME NEW t, Right(t), t.id \in 1..(nextId - 1) \/ t.msgs = {}, t.msgs \subseteq 1..(nextMsg - 1)
        PROVE  RightNext(t)
    <3> SUFFICES ASSUME NEW a \in acked', a.path \notin mingled', a.msg \in t.msgs
                 PROVE  a.sid \in Descends'[t.id]
      BY DEF RightNext
    <3>1. a \in acked
      <4>1. nextMsg \notin t.msgs
        BY <1>0, <2>2
      <4> QED
        BY <1>4, <4>1
    <3>2. a.sid \in Descends[t.id]
      BY <2>2, <3>1 DEF Right
    <3> QED
      BY <2>1, <2>2, <3>2
  <2>3. RightNext(s)
    <3> SUFFICES ASSUME NEW a \in acked', a.path \notin mingled', a.msg \in s.msgs
                 PROVE  a.sid \in Descends'[s.id]
      BY DEF RightNext
    <3>1. CASE a \in acked
      BY <3>1
    <3>2. CASE a \in new
      <4>1. a.sid = s.id
        BY <1>4, <3>2
      <4> QED
        BY <1>2, <4>1, LineageOf
    <3> QED
      BY <1>4, <3>1, <3>2
  <2>4. ASSUME NEW p \in Path PROVE RightNext(files'[p])
    <3>1. CASE p = w
      BY <1>1, <2>3, <3>1
    <3>2. CASE p # w
      <4>1. Right(files[p]) /\ files[p].msgs \subseteq 1..(nextMsg - 1)
            /\ (files[p].id \in 1..(nextId - 1) \/ files[p].msgs = {})
        BY DEF CommandsInv, Lineage, Spoken, Generated, Exists, NoFile
      <4> QED
        BY <1>1, <2>2, <3>2, <4>1
    <3> QED
      BY <3>1, <3>2
  <2>5. ASSUME NEW x \in Repl, repl'[x].on PROVE RightNext(Session(repl'[x]))
    <3>1. CASE x = r
      <4>1. Session(repl'[x]) = s
        BY <1>2, <1>3, <2>5, <3>1 DEF Session, Sessions
      <4> QED
        BY <2>3, <4>1
    <3>2. CASE x # r
      <4>1. repl'[x] = repl[x]
        BY <1>3, <3>2
      <4>2. /\ Right(Session(repl[x])) /\ Session(repl[x]).id \in 1..(nextId - 1)
            /\ Session(repl[x]).msgs \subseteq 1..(nextMsg - 1)
        BY <2>5, <4>1, RunningIs DEF Session
      <4> QED
        BY <2>2, <4>1, <4>2
    <3> QED
      BY <3>1, <3>2
  <2>6. RightNext(Session(shot'))
    <3>1. /\ Right(Session(shot)) /\ Session(shot).msgs \subseteq 1..(nextMsg - 1)
          /\ (Session(shot).id \in 1..(nextId - 1) \/ Session(shot).msgs = {})
      BY DEF CommandsInv, Lineage, Spoken, Generated, Session, Idle
    <3> QED
      BY <1>4, <2>2, <3>1
  <2> QED
    BY <2>4, <2>5, <2>6 DEF Lineage, Right, RightNext, Session
<1> QED
  BY <1>5, <1>6, <1>7, <1>8, <1>9, <1>10, <1>12, <1>13, <1>14 DEF CommandsInv
-----------------------------------------------------------------------------
LEMMA FreshFile ==
  ASSUME CommandsInv, nextId <= MaxId
  PROVE  /\ HandlePath(nextId) \in Path /\ HandlePath(nextId).stem = nextId
         /\ nextId \in Id /\ nextId \in Nat /\ nextId >= 1 /\ nextId + 1 \in nextId..(MaxId + 1)
         /\ shot.path # HandlePath(nextId)
         /\ \A x \in Repl : repl[x].on => repl[x].path # HandlePath(nextId)
         /\ \A m : ~HeldAt(HandlePath(nextId), m)
<1> DEFINE w == HandlePath(nextId)
<1>1. nextId \in Id /\ nextId \in Nat /\ nextId >= 1 /\ nextId + 1 \in nextId..(MaxId + 1)
  BY BoundAssumption DEF CommandsInv, TypeOK, Id
<1>2. w \in Path /\ w.stem = nextId
  BY <1>1 DEF HandlePath, Path, Ext
<1> HIDE DEF w
<1>3. files[w] = NoFile
  BY <1>1, <1>2 DEF CommandsInv, Generated, Exists
<1>4. shot.path # w
  <2>1. CASE shot = Idle
    BY <1>1, <1>2, <2>1 DEF Idle, NoPath
  <2>2. CASE shot # Idle
    BY <1>1, <1>2, <2>2 DEF CommandsInv, Generated
  <2> QED
    BY <2>1, <2>2
<1>5. \A x \in Repl : repl[x].on => repl[x].path # w
  BY <1>1, <1>2, RunningIs
<1>6. \A m : ~HeldAt(w, m)
  BY <1>3 DEF HeldAt, NoFile
<1> QED
  BY <1>1, <1>2, <1>4, <1>5, <1>6 DEF w

LEMMA StartKeeps ==
  ASSUME CommandsInv, NEW r \in Repl, Start(r) \/ Clear(r)
  PROVE  CommandsInv'
<1> DEFINE w == HandlePath(nextId)
           s == [id |-> nextId, msgs |-> {}]
           v == Live(nextId, {}, w)
<1>1. /\ nextId <= MaxId /\ nextId' = nextId + 1 /\ repl' = [repl EXCEPT ![r] = v] /\ Write(w, s)
      /\ UNCHANGED <<shot, nextMsg, parent, acked, removed, mingled>>
  BY DEF Start, Clear
<1>2. s \in Sessions /\ s.id = nextId /\ s.msgs = {}
  BY <1>1, FreshFile DEF Sessions
<1>3. v \in {Off, Live(s.id, s.msgs, w)}
  BY <1>2
<1>4. /\ w \in Path /\ w.stem = nextId /\ shot.path # w
      /\ \A x \in Repl : repl[x].on => repl[x].path # w
      /\ \A m : ~HeldAt(w, m)
      /\ nextId \in Nat /\ nextId >= 1 /\ nextId' \in nextId..(MaxId + 1)
  BY <1>1, FreshFile
<1> HIDE DEF w, s, v
<1>5. /\ mingled' \subseteq Path /\ mingled \subseteq mingled'
      /\ nextMsg' \in nextMsg..(MaxMsg + 1) /\ parent' \in [Id -> Id \cup {0}]
  BY <1>1, BoundAssumption DEF CommandsInv, TypeOK
<1>6. \A i \in Id : parent'[i] # 0 => parent'[i] < i /\ i < nextId'
  <2>1. \A i \in Id : i \in Nat
    BY BoundAssumption DEF Id
  <2> QED
    BY <1>1, <1>4, <2>1 DEF CommandsInv, Generated
<1>7. w.stem < nextId' /\ s.id < nextId' /\ 1 \in 1..(nextId' - 1)
  BY <1>1, <1>2, <1>4
<1>8. Writes(r, w, s, v, {}, 1)
  BY <1>1, <1>2, <1>3, <1>4, <1>5, <1>6, <1>7 DEF Writes
<1> QED
  BY <1>4, <1>8, WriterKeeps
-----------------------------------------------------------------------------
\* A REPL that writes to the file it has open.
LEMMA OwnFile ==
  ASSUME CommandsInv, NEW r \in Repl, repl[r].on
  PROVE  /\ repl[r].path \notin mingled =>
               shot.path # repl[r].path /\ \A x \in Repl : repl[x].on /\ repl[x].path = repl[r].path => x = r
         /\ \A m : HeldAt(repl[r].path, m) => m \in repl[r].msgs /\ m \in files[repl[r].path].msgs
         /\ \A i \in Id : parent[i] # 0 => parent[i] < i /\ i < nextId
         /\ mingled \subseteq Path /\ nextId \in nextId..(MaxId + 1) /\ nextMsg \in nextMsg..(MaxMsg + 1)
         /\ nextId \in Nat /\ nextMsg \in Nat /\ nextMsg >= 1 /\ parent \in [Id -> Id \cup {0}]
<1>1. repl[r].path \in Path
  BY RunningIs
<1>2. repl[r].path \notin mingled =>
         shot.path # repl[r].path /\ \A x \in Repl : repl[x].on /\ repl[x].path = repl[r].path => x = r
  BY <1>1 DEF CommandsInv, Alone
<1>3. \A m : HeldAt(repl[r].path, m) => m \in repl[r].msgs /\ m \in files[repl[r].path].msgs
  BY DEF HeldAt
<1>4. \A i \in Id : parent[i] # 0 => parent[i] < i /\ i < nextId
  BY DEF CommandsInv, Generated
<1>5. /\ mingled \subseteq Path /\ nextId \in nextId..(MaxId + 1) /\ nextMsg \in nextMsg..(MaxMsg + 1)
      /\ nextId \in Nat /\ nextMsg \in Nat /\ nextMsg >= 1 /\ parent \in [Id -> Id \cup {0}]
  BY BoundAssumption DEF CommandsInv, TypeOK
<1> QED
  BY <1>2, <1>3, <1>4, <1>5

LEMMA PersistKeeps ==
  ASSUME CommandsInv, NEW r \in Repl, Persist(r)
  PROVE  CommandsInv'
<1> DEFINE c == repl[r]
           s == Session(c)
<1>1. c.on /\ Write(c.path, s) /\ repl' \in {repl, [repl EXCEPT ![r] = Off]}
      /\ UNCHANGED <<shot, nextId, nextMsg, parent, acked, removed, mingled>>
  BY DEF Persist
<1>2. /\ c = Live(c.sid, c.msgs, c.path) /\ c.path \in Path /\ c.path.stem < nextId /\ c.sid \in 1..(nextId - 1)
      /\ c.msgs \subseteq 1..(nextMsg - 1) /\ s \in Sessions /\ s.id = c.sid /\ s.msgs = c.msgs
      /\ \A a \in acked : a.path \notin mingled /\ a.msg \in s.msgs => a.sid \in Descends[s.id]
  BY <1>1, RunningIs DEF Session, Right
<1>3. PICK v \in {Off, Live(s.id, s.msgs, c.path)} : repl' = [repl EXCEPT ![r] = v]
  <2>1. repl = [repl EXCEPT ![r] = c]
    BY DEF CommandsInv, TypeOK
  <2> QED
    BY <1>1, <1>2, <2>1
<1>4. Descends' = Descends
  BY <1>1 DEF Descends
<1> HIDE DEF s
<1>5. Writes(r, c.path, s, v, {}, c.sid)
  <2>1. s.id < nextId
    BY <1>1, <1>2, OwnFile
  <2>2. \A i \in Id : i < nextId => parent'[i] = parent[i]
    BY <1>1
  <2> QED
    BY <1>1, <1>2, <1>3, <1>4, <2>1, <2>2, OwnFile DEF Writes
<1> QED
  BY <1>2, <1>5, WriterKeeps

Saying(v, m) == [v EXCEPT !.msgs = @ \cup {m}]
LEMMA LiveSays ==
  ASSUME NEW id, NEW msgs, NEW path, NEW m
  PROVE  Saying(Live(id, msgs, path), m) = Live(id, msgs \cup {m}, path)
<1> DEFINE R == [on : {TRUE}, id : {id}, path : {path}, sid : {id}, msgs : {msgs, msgs \cup {m}}, spath : {path}]
           v == Live(id, msgs, path)
           u == Live(id, msgs \cup {m}, path)
<1>1. v \in R /\ u \in R /\ v.msgs = msgs /\ u.msgs = msgs \cup {m}
  BY DEF Live
<1> HIDE DEF v, u
<1>2. [v EXCEPT !.msgs = @ \cup {m}] \in R
  BY <1>1
<1>3. [v EXCEPT !.msgs = @ \cup {m}].msgs = u.msgs
  BY <1>1
<1>4. \A x, y \in R : x.msgs = y.msgs => x = y
  <2> SUFFICES ASSUME NEW x \in R, NEW y \in R, x.msgs = y.msgs PROVE x = y
    OBVIOUS
  <2>1. /\ x.on = y.on /\ x.id = y.id /\ x.path = y.path /\ x.sid = y.sid /\ x.spath = y.spath
        /\ x = [on |-> x.on, id |-> x.id, path |-> x.path, sid |-> x.sid, msgs |-> x.msgs, spath |-> x.spath]
        /\ y = [on |-> y.on, id |-> y.id, path |-> y.path, sid |-> y.sid, msgs |-> y.msgs, spath |-> y.spath]
    OBVIOUS
  <2> QED
    BY <2>1
<1>5. [v EXCEPT !.msgs = @ \cup {m}] = u
  BY <1>1, <1>2, <1>3, <1>4
<1> QED
  BY <1>5 DEF v, u, Saying

LEMMA TurnKeeps ==
  ASSUME CommandsInv, NEW r \in Repl, Turn(r)
  PROVE  CommandsInv'
<1> DEFINE c == repl[r]
           s == [id |-> c.sid, msgs |-> c.msgs \cup {nextMsg}]
           f == files[c.path]
           t == [id |-> f.id, msgs |-> f.msgs \cup {nextMsg}]
           new == {[msg |-> nextMsg, path |-> c.path, sid |-> c.sid]}
<1>1. /\ c.on /\ nextMsg <= MaxMsg /\ nextMsg' = nextMsg + 1 /\ acked' = acked \cup new
      /\ UNCHANGED <<shot, nextId, parent, removed, mingled>>
  BY DEF Turn
<1>2. /\ c = Live(c.sid, c.msgs, c.path) /\ c.path \in Path /\ c.path.stem < nextId /\ c.sid \in 1..(nextId - 1)
      /\ c.sid \in Id /\ c.msgs \subseteq 1..(nextMsg - 1) /\ c.msgs \subseteq Msg
      /\ \A a \in acked : a.path \notin mingled /\ a.msg \in c.msgs => a.sid \in Descends[c.sid]
  BY <1>1, RunningIs DEF Session, Right
<1>3. /\ nextMsg \in Msg /\ nextMsg \in Nat /\ nextMsg' \in nextMsg..(MaxMsg + 1) /\ nextMsg >= 1
      /\ nextId \in Nat /\ nextId \in nextId..(MaxId + 1)
  BY <1>1, BoundAssumption DEF CommandsInv, TypeOK, Msg
<1>4. \A a \in acked : a.msg # nextMsg
  BY <1>3 DEF CommandsInv, Generated
<1>5. Descends' = Descends
  BY <1>1 DEF Descends
<1>6. /\ mingled' = mingled /\ mingled \subseteq Path /\ parent' = parent
      /\ \A i \in Id : i < nextId => parent'[i] = parent[i]
      /\ \A i \in Id : parent'[i] # 0 => parent'[i] < i /\ i < nextId'
      /\ parent' \in [Id -> Id \cup {0}]
      /\ c.path \notin mingled' => shot.path # c.path /\ \A x \in Repl : repl[x].on /\ repl[x].path = c.path => x = r
      /\ \A m : HeldAt(c.path, m) => m \in c.msgs /\ m \in f.msgs
  BY <1>1, OwnFile
<1>7. s \in Sessions /\ s.id = c.sid /\ s.msgs = c.msgs \cup {nextMsg}
  BY <1>2, <1>3 DEF Sessions
<1>8. s.msgs \subseteq 1..(nextMsg' - 1) /\ c.sid < nextId' /\ c.path.stem < nextId' /\ c.sid \in 1..(nextId' - 1)
  BY <1>1, <1>2, <1>3, <1>7
<1>9. \A a \in acked : a.path \notin mingled' /\ a.msg \in s.msgs => a.sid \in Descends'[s.id]
  BY <1>2, <1>4, <1>5, <1>6, <1>7
<1>10. /\ repl \in [Repl -> {Off} \cup Running] /\ c.spath = c.path
       /\ [Session(c) EXCEPT !.msgs = @ \cup {nextMsg}] = s
       /\ [repl EXCEPT ![r].msgs = @ \cup {nextMsg}] = [repl EXCEPT ![r] = Live(s.id, s.msgs, c.path)]
  <2>1. repl \in [Repl -> {Off} \cup Running]
    BY DEF CommandsInv, TypeOK, Running
  <2>2. c.spath = c.path
    BY DEF CommandsInv, HandleIsSession
  <2>3. [Session(c) EXCEPT !.msgs = @ \cup {nextMsg}] = s
    BY DEF Session
  <2>4. [c EXCEPT !.msgs = @ \cup {nextMsg}] = Live(s.id, s.msgs, c.path)
    <3>1. Saying(Live(c.sid, c.msgs, c.path), nextMsg) = Live(c.sid, c.msgs \cup {nextMsg}, c.path)
      BY LiveSays
    <3>2. Saying(c, nextMsg) = Saying(Live(c.sid, c.msgs, c.path), nextMsg)
      BY <1>2
    <3>3. Saying(c, nextMsg) = Live(s.id, s.msgs, c.path)
      BY <1>7, <3>1, <3>2
    <3> QED
      BY <3>3 DEF Saying
  <2>5. [repl EXCEPT ![r].msgs = @ \cup {nextMsg}] = [repl EXCEPT ![r] = [c EXCEPT !.msgs = @ \cup {nextMsg}]]
    BY <2>1
  <2> QED
    BY <2>1, <2>2, <2>3, <2>4, <2>5
<1>11. CASE repl' = [repl EXCEPT ![r].msgs = @ \cup {nextMsg}] /\ Write(c.path, s)
  <2> DEFINE v == Live(s.id, s.msgs, c.path)
  <2>1. repl' = [repl EXCEPT ![r] = v] /\ v \in {Off, Live(s.id, s.msgs, c.path)}
    BY <1>10, <1>11
  <2> HIDE DEF v, s, f
  <2>2. Writes(r, c.path, s, v, new, c.sid)
    BY <1>1, <1>3, <1>6, <1>7, <1>8, <1>9, <1>11, <2>1 DEF Writes
  <2> QED
    BY <1>2, <2>2, WriterKeeps
<1>12. CASE repl' = [repl EXCEPT ![r] = Off] /\ f = NoFile /\ Write(c.path, s)
  <2> HIDE DEF s, f
  <2>1. Writes(r, c.path, s, Off, new, c.sid)
    BY <1>1, <1>3, <1>6, <1>7, <1>8, <1>9, <1>12 DEF Writes
  <2> QED
    BY <1>2, <2>1, WriterKeeps
<1>13. CASE repl' = [repl EXCEPT ![r] = Off] /\ f # NoFile /\ Write(c.path, t)
  <2>1. /\ f.id \in 1..(nextId - 1) /\ f.msgs \subseteq 1..(nextMsg - 1) /\ f.msgs \subseteq Msg
        /\ Right(f)
        /\ c.path \notin mingled => f = Session(c)
    <3>1. f.id \in 1..(nextId - 1) /\ f.msgs \subseteq 1..(nextMsg - 1) /\ Right(f)
      BY <1>2, <1>13 DEF CommandsInv, Generated, Spoken, Lineage, Exists
    <3>2. f.msgs \subseteq Msg
      BY <1>2 DEF CommandsInv, TypeOK
    <3>3. c.path \notin mingled => f = Session(c)
      BY <1>1, <1>2, <1>13 DEF CommandsInv, DiskIsCurrent, Exists
    <3> QED
      BY <3>1, <3>2, <3>3
  <2>2. t \in Sessions /\ t.id = f.id /\ t.msgs = f.msgs \cup {nextMsg} /\ t.id < nextId'
    <3>1. f.id \in Id /\ f.id < nextId
      BY <1>3, <2>1, BoundAssumption DEF Id
    <3> QED
      BY <1>1, <1>3, <2>1, <3>1 DEF Sessions
  <2>3. \A a \in acked : a.path \notin mingled' /\ a.msg \in t.msgs => a.sid \in Descends'[t.id]
    BY <1>4, <1>5, <1>6, <2>1, <2>2 DEF Right
  <2>4. c.path \notin mingled' => c.sid = t.id
    BY <1>6, <2>1, <2>2 DEF Session
  <2>5. t.msgs \subseteq 1..(nextMsg' - 1)
    BY <1>1, <1>3, <2>1, <2>2
  <2> HIDE DEF t, f
  <2>6. Writes(r, c.path, t, Off, new, c.sid)
    BY <1>1, <1>3, <1>6, <1>8, <1>13, <2>2, <2>3, <2>4, <2>5 DEF Writes
  <2> QED
    BY <1>2, <2>6, WriterKeeps
<1>14. [f EXCEPT !.msgs = @ \cup {nextMsg}] = t
  <2>1. f \in [id : Id \cup {0}, msgs : SUBSET Msg]
    BY <1>2 DEF CommandsInv, TypeOK
  <2> HIDE DEF f
  <2> QED
    BY <2>1
<1> QED
  BY <1>10, <1>11, <1>12, <1>13, <1>14 DEF Turn

LEMMA ResolvedIs ==
  ASSUME CommandsInv, NEW ref \in Resolved
  PROVE  /\ ref.path \in Path /\ ref.path.stem < nextId /\ files[ref.path] # NoFile
         /\ files[ref.path] \in Sessions /\ files[ref.path].id \in 1..(nextId - 1)
         /\ files[ref.path].msgs \subseteq 1..(nextMsg - 1)
         /\ Right(files[ref.path])
<1>1. ref.path \in Path /\ files[ref.path] # NoFile
  <2>1. CASE recent # <<>> /\ ref = [by |-> "latest", path |-> Latest]
    <3>1. Len(recent) \in DOMAIN recent
      BY <2>1 DEF CommandsInv, TypeOK
    <3>2. Latest \in ToSet(recent)
      BY <3>1 DEF ToSet, Latest, Last
    <3> QED
      BY <2>1, <3>2 DEF CommandsInv, TypeOK, Exists
  <2>2. CASE \E p \in Path : Exists(p) /\ ref = [by |-> "id", path |-> p]
    BY <2>2 DEF Exists
  <2>3. CASE \E p \in Path : Exists(p) /\ ref = [by |-> "path", path |-> p]
    BY <2>3 DEF Exists
  <2> QED
    BY <2>1, <2>2, <2>3 DEF Resolved
<1> DEFINE w == ref.path
<1> HIDE DEF w
<1>2. /\ w.stem < nextId /\ files[w].id \in 1..(nextId - 1)
      /\ files[w].msgs \subseteq 1..(nextMsg - 1) /\ Right(files[w])
  BY <1>1 DEF w, CommandsInv, Generated, Spoken, Lineage, Exists
<1>3. files[w] \in [id : Id \cup {0}, msgs : SUBSET Msg]
  BY <1>1 DEF w, CommandsInv, TypeOK
<1>4. files[w].id \in Id
  BY <1>2, <1>3, BoundAssumption DEF Id
<1>5. files[w] \in Sessions
  BY <1>3, <1>4 DEF Sessions
<1> QED
  BY <1>1, <1>2, <1>5 DEF w

LEMMA ResumeKeeps ==
  ASSUME CommandsInv, NEW r \in Repl, NEW ref \in Resolved, Resume(r, ref)
  PROVE  CommandsInv'
<1> DEFINE w == ref.path
           f == files[w]
           v == Live(f.id, f.msgs, w)
<1>1. /\ repl[r].on /\ repl' = [repl EXCEPT ![r] = v] /\ Write(w, f)
      /\ mingled' = IF OpenIn(w, Repl \ {r}) \/ shot.path = w THEN mingled \cup {w} ELSE mingled
      /\ UNCHANGED <<shot, nextId, nextMsg, parent, acked, removed>>
  BY DEF Resume, Opened
<1>2. /\ w \in Path /\ w.stem < nextId /\ f \in Sessions /\ f.id \in 1..(nextId - 1)
      /\ f.msgs \subseteq 1..(nextMsg - 1)
      /\ \A a \in acked : a.path \notin mingled /\ a.msg \in f.msgs => a.sid \in Descends[f.id]
  BY ResolvedIs DEF Right
<1>3. Descends' = Descends
  BY <1>1 DEF Descends
<1>4. /\ mingled \subseteq mingled' /\ mingled' \subseteq Path
      /\ w \notin mingled' => shot.path # w /\ \A x \in Repl : repl[x].on /\ repl[x].path = w => x = r
  BY <1>1, <1>2 DEF CommandsInv, TypeOK, OpenIn
<1>5. \A m : HeldAt(w, m) => m \in f.msgs
  BY DEF HeldAt
<1> HIDE DEF w, f
<1>6. Writes(r, w, f, v, {}, f.id)
  <2>1. f.id < nextId
    BY <1>1, <1>2, OwnFile
  <2>2. \A i \in Id : i < nextId => parent'[i] = parent[i]
    BY <1>1
  <2>3. v \in {Off, Live(f.id, f.msgs, w)}
    OBVIOUS
  <2> HIDE DEF v
  <2> QED
    BY <1>1, <1>2, <1>3, <1>4, <1>5, <2>1, <2>2, <2>3, OwnFile DEF Writes
<1> QED
  BY <1>2, <1>6, WriterKeeps

LEMMA ForkKeeps ==
  ASSUME CommandsInv, NEW r \in Repl, Fork(r)
  PROVE  CommandsInv'
<1> DEFINE c == repl[r]
           w == HandlePath(nextId)
           s == [id |-> nextId, msgs |-> c.msgs]
<1>1. /\ c.on /\ nextId <= MaxId /\ nextId' = nextId + 1 /\ parent' = [parent EXCEPT ![nextId] = c.sid]
      /\ Write(w, s)
      /\ UNCHANGED <<shot, nextMsg, acked, removed, mingled>>
  BY DEF Fork
<1>2. PICK v \in {Off, Live(nextId, c.msgs, w)} : repl' = [repl EXCEPT ![r] = v]
  BY DEF Fork
<1>3. /\ c.sid \in 1..(nextId - 1) /\ c.sid \in Id /\ c.msgs \subseteq 1..(nextMsg - 1) /\ c.msgs \subseteq Msg
      /\ \A a \in acked : a.path \notin mingled /\ a.msg \in c.msgs => a.sid \in Descends[c.sid]
  BY <1>1, RunningIs DEF Session, Right
<1>4. /\ w \in Path /\ w.stem = nextId /\ shot.path # w
      /\ \A x \in Repl : repl[x].on => repl[x].path # w
      /\ \A m : ~HeldAt(w, m)
      /\ nextId \in Nat /\ nextId >= 1 /\ nextId' \in nextId..(MaxId + 1) /\ nextId \in Id
  BY <1>1, FreshFile
<1>5. s \in Sessions /\ s.id = nextId /\ s.msgs = c.msgs
  BY <1>3, <1>4 DEF Sessions
<1> HIDE DEF w, s
<1>6. /\ mingled' \subseteq Path /\ mingled \subseteq mingled'
      /\ nextMsg' \in nextMsg..(MaxMsg + 1) /\ parent' \in [Id -> Id \cup {0}]
  BY <1>1, <1>3, OwnFile
<1>7. /\ \A i \in Id : i < nextId => parent'[i] = parent[i]
      /\ \A i \in Id : parent'[i] # 0 => parent'[i] < i /\ i < nextId'
      /\ parent'[nextId] = c.sid /\ c.sid # 0
  <2>1. \A i \in Id : i \in Nat
    BY BoundAssumption DEF Id
  <2>2. parent \in [Id -> Id \cup {0}]
    BY <1>1, OwnFile
  <2>3. \A i \in Id : parent[i] # 0 => parent[i] < i /\ i < nextId
    BY <1>1, OwnFile
  <2>4. parent'[nextId] = c.sid /\ \A i \in Id : i # nextId => parent'[i] = parent[i]
    BY <1>1, <1>4, <2>2
  <2>5. c.sid # 0 /\ c.sid < nextId /\ nextId < nextId'
    BY <1>1, <1>3, <1>4
  <2> HIDE DEF c
  <2>6. \A i \in Id : i < nextId => parent'[i] = parent[i]
    <3> TAKE i \in Id
    <3>1. nextId \in Nat /\ i \in Nat
      BY <1>4, <2>1
    <3>2. i < nextId => i # nextId
      BY <3>1
    <3> QED
      BY <2>4, <3>2
  <2>7. ASSUME NEW i \in Id, parent'[i] # 0 PROVE parent'[i] < i /\ i < nextId'
    <3>1. CASE i = nextId
      BY <2>4, <2>5, <3>1
    <3>2. CASE i # nextId
      <4>1. parent[i] < i /\ i < nextId /\ parent'[i] = parent[i]
        BY <2>3, <2>4, <2>7, <3>2
      <4>2. i \in Nat /\ nextId \in Nat /\ nextId' = nextId + 1
        BY <1>1, <1>4, <2>1
      <4>3. i < nextId'
        BY <4>1, <4>2
      <4> QED
        BY <4>1, <4>3
    <3> QED
      BY <3>1, <3>2
  <2> QED
    BY <2>4, <2>5, <2>6, <2>7
<1>8. \A a \in acked : a.path \notin mingled' /\ a.msg \in s.msgs => a.sid \in Descends'[s.id]
  <2>1. Descends'[c.sid] = Descends[c.sid] /\ Descends'[c.sid] \subseteq Descends'[nextId]
    BY <1>3, <1>4, <1>6, <1>7, LineageOf
  <2> QED
    BY <1>1, <1>3, <1>5, <2>1
<1>9. v \in {Off, Live(s.id, s.msgs, w)}
  BY <1>5
<1>10. w.stem < nextId' /\ s.id < nextId' /\ c.sid \in 1..(nextId' - 1) /\ s.msgs \subseteq 1..(nextMsg' - 1)
  BY <1>1, <1>3, <1>4, <1>5
<1>11. Writes(r, w, s, v, {}, c.sid)
  BY <1>1, <1>2, <1>4, <1>5, <1>6, <1>7, <1>8, <1>9, <1>10 DEF Writes
<1> QED
  BY <1>4, <1>11, WriterKeeps
-----------------------------------------------------------------------------
(* Steps that end a process, remove a file, or open one.                   *)

\* Nothing happens on disk, and a process may be gone.
LEMMA EndKeeps ==
  ASSUME CommandsInv, UNCHANGED <<files, recent, nextId, nextMsg, parent, acked, removed, mingled>>,
         shot' \in {shot, Idle}, repl' = repl \/ \E r \in Repl : repl' = [repl EXCEPT ![r] = Off]
  PROVE  CommandsInv'
<1>1. /\ ~Off.on /\ Off.msgs = {} /\ Off.id = Off.sid /\ Off.path = Off.spath
      /\ ~Idle.backed /\ Idle.msgs = {} /\ Idle.path = NoPath
  BY DEF Off, Idle
<1>2. /\ repl \in [Repl -> {Off} \cup Running] /\ repl' \in [Repl -> {Off} \cup Running]
      /\ \A x \in Repl : repl'[x] \in {repl[x], Off}
  BY DEF CommandsInv, TypeOK, Running
<1>3. NoPath \notin Path
  BY BoundAssumption DEF NoPath, Path, Id
<1>4. TypeOK'
  <2>1. shot' \in [path : Path \cup {NoPath}, sid : Id \cup {0}, msgs : SUBSET Msg, backed : BOOLEAN]
    <3>1. Idle \in [path : Path \cup {NoPath}, sid : Id \cup {0}, msgs : SUBSET Msg, backed : BOOLEAN]
      BY DEF Idle
    <3>2. shot \in [path : Path \cup {NoPath}, sid : Id \cup {0}, msgs : SUBSET Msg, backed : BOOLEAN]
      BY DEF CommandsInv, TypeOK
    <3> QED
      BY <3>1, <3>2
  <2> QED
    BY <1>2, <2>1 DEF CommandsInv, TypeOK, Running, Exists
<1>5. Generated'
  BY <1>1, <1>2 DEF CommandsInv, Generated, Exists
<1>6. Spoken'
  BY <1>1, <1>2 DEF CommandsInv, Spoken
<1>7. Alone'
  BY <1>1, <1>2, <1>3 DEF CommandsInv, Alone
<1>8. HandleIsSession'
  BY <1>1, <1>2 DEF CommandsInv, HandleIsSession
<1>9. DiskIsCurrent'
  BY <1>1, <1>2 DEF CommandsInv, DiskIsCurrent, Exists, Session
<1>10. ASSUME NEW p \in Path, NEW m, HeldAt(p, m) PROVE HeldAt(p, m)'
  BY <1>1, <1>2, <1>3, <1>10 DEF HeldAt
<1>11. BackedUp'
  <2> SUFFICES ASSUME shot' = shot, shot.backed
               PROVE  /\ shot # Idle /\ shot.path.ext # "bak"
                      /\ \A m \in shot.msgs : m \in removed \/ HeldAt(Backup(shot.path), m)'
    BY <1>1 DEF BackedUp
  <2>1. /\ shot # Idle /\ shot.path.ext # "bak"
        /\ \A m \in shot.msgs : m \in removed \/ HeldAt(Backup(shot.path), m)
    BY DEF CommandsInv, BackedUp
  <2>2. Backup(shot.path) \in Path
    BY <2>1 DEF CommandsInv, Generated, Backup, Path, Ext
  <2>3. (Backup(shot.path))' = Backup(shot.path)
    BY DEF Backup
  <2> QED
    BY <1>10, <2>1, <2>2, <2>3
<1>12. Homes'
  <2> SUFFICES ASSUME NEW a \in acked, a.path \notin mingled, a.msg \notin removed
               PROVE  HeldAt(a.path, a.msg)' \/ HeldAt(Backup(a.path), a.msg)'
    BY DEF Homes
  <2>1. HeldAt(a.path, a.msg) \/ HeldAt(Backup(a.path), a.msg)
    BY DEF CommandsInv, Homes
  <2>2. a.path \in Path /\ Backup(a.path) \in Path
    BY DEF CommandsInv, Generated, Backup, Path, Ext
  <2> QED
    BY <1>10, <2>1, <2>2
<1>13. Lineage'
  <2>1. Descends' = Descends
    BY DEF Descends
  <2>2. Right(Session(Idle))
    BY <1>1 DEF Right, Session
  <2>3. \A t : Right(t) => RightNext(t)
    BY <2>1 DEF Right, RightNext
  <2>4. \A p \in Path : RightNext(files'[p])
    BY <2>3 DEF CommandsInv, Lineage
  <2>5. \A x \in Repl : repl'[x].on => RightNext(Session(repl'[x]))
    BY <1>1, <1>2, <2>3 DEF CommandsInv, Lineage, Session
  <2>6. RightNext(Session(shot'))
    BY <2>2, <2>3 DEF CommandsInv, Lineage, Session
  <2> QED
    BY <2>4, <2>5, <2>6 DEF Lineage, Right, RightNext, Session
<1> QED
  BY <1>4, <1>5, <1>6, <1>7, <1>8, <1>9, <1>11, <1>12, <1>13 DEF CommandsInv

LEMMA DeleteKeeps ==
  ASSUME CommandsInv, NEW r \in Repl, NEW ref \in Resolved, Delete(r, ref)
  PROVE  CommandsInv'
<1>1. PICK w \in Path : w = ref.path
  BY ResolvedIs
<1>2. /\ removed' = removed \cup files[w].msgs /\ files' = [files EXCEPT ![w] = NoFile]
      /\ recent' = Without(recent, w)
      /\ UNCHANGED <<repl, shot, nextId, nextMsg, parent, acked, mingled>>
  BY <1>1 DEF Delete
<1>3. /\ files \in [Path -> [id : Id \cup {0}, msgs : SUBSET Msg]]
      /\ files' \in [Path -> [id : Id \cup {0}, msgs : SUBSET Msg]]
      /\ files'[w] = NoFile /\ NoFile.msgs = {}
      /\ \A p \in Path : p # w => files'[p] = files[p]
  <2>1. files \in [Path -> [id : Id \cup {0}, msgs : SUBSET Msg]]
    BY DEF CommandsInv, TypeOK
  <2>2. NoFile \in [id : Id \cup {0}, msgs : SUBSET Msg] /\ NoFile.msgs = {}
    BY DEF NoFile
  <2> QED
    BY <1>2, <2>1, <2>2
<1>4. TypeOK'
  <2>1. /\ recent' \in Seq(Path) /\ IsInjective(recent')
        /\ ToSet(recent') = ToSet(recent) \ {w}
    BY <1>2, WithoutIs DEF CommandsInv, TypeOK
  <2>2. ToSet(recent') = {p \in Path : files'[p] # NoFile /\ Managed(p)}
    BY <1>3, <2>1 DEF CommandsInv, TypeOK, Exists
  <2>3. removed' \subseteq Msg
    BY <1>2, <1>3 DEF CommandsInv, TypeOK
  <2> QED
    BY <1>2, <1>3, <2>1, <2>2, <2>3 DEF CommandsInv, TypeOK, Exists
<1>5. Generated'
  <2>1. \A p \in Path : files'[p] # NoFile => p.stem < nextId /\ files'[p].id \in 1..(nextId - 1)
    BY <1>3 DEF CommandsInv, Generated, Exists
  <2> QED
    BY <1>2, <2>1 DEF CommandsInv, Generated, Exists
<1>6. Spoken'
  BY <1>2, <1>3 DEF CommandsInv, Spoken
<1>7. Alone' /\ HandleIsSession'
  BY <1>2 DEF CommandsInv, Alone, HandleIsSession
<1>8. DiskIsCurrent'
  <2> SUFFICES ASSUME NEW x \in Repl, repl[x].on, repl[x].path \notin mingled, files'[repl[x].path] # NoFile
               PROVE  files'[repl[x].path] = Session(repl[x])
    BY <1>2 DEF DiskIsCurrent, Session, Exists
  <2>1. repl[x].path \in Path /\ repl[x].path # w
    BY <1>3, RunningIs
  <2> QED
    BY <1>3, <2>1 DEF CommandsInv, DiskIsCurrent, Exists
<1>9. ASSUME NEW p \in Path, NEW m, HeldAt(p, m) PROVE m \in removed' \/ HeldAt(p, m)'
  <2>1. CASE p = w
    BY <1>2, <1>9, <2>1 DEF HeldAt
  <2>2. CASE p # w
    BY <1>2, <1>3, <1>9, <2>2 DEF HeldAt
  <2> QED
    BY <2>1, <2>2
<1>10. BackedUp'
  <2> SUFFICES ASSUME shot.backed
               PROVE  /\ shot # Idle /\ shot.path.ext # "bak"
                      /\ \A m \in shot.msgs : m \in removed' \/ HeldAt(Backup(shot.path), m)'
    BY <1>2 DEF BackedUp
  <2>1. /\ shot # Idle /\ shot.path.ext # "bak"
        /\ \A m \in shot.msgs : m \in removed \/ HeldAt(Backup(shot.path), m)
    BY DEF CommandsInv, BackedUp
  <2>2. Backup(shot.path) \in Path
    BY <2>1 DEF CommandsInv, Generated, Backup, Path, Ext
  <2>3. (Backup(shot.path))' = Backup(shot.path)
    BY <1>2 DEF Backup
  <2>4. removed \subseteq removed'
    BY <1>2
  <2> QED
    BY <1>9, <2>1, <2>2, <2>3, <2>4
<1>11. Homes'
  <2> SUFFICES ASSUME NEW a \in acked, a.path \notin mingled, a.msg \notin removed'
               PROVE  HeldAt(a.path, a.msg)' \/ HeldAt(Backup(a.path), a.msg)'
    BY <1>2 DEF Homes
  <2>1. HeldAt(a.path, a.msg) \/ HeldAt(Backup(a.path), a.msg)
    BY <1>2 DEF CommandsInv, Homes
  <2>2. a.path \in Path /\ Backup(a.path) \in Path
    BY DEF CommandsInv, Generated, Backup, Path, Ext
  <2> QED
    BY <1>9, <2>1, <2>2
<1>12. Lineage'
  <2>1. Descends' = Descends
    BY <1>2 DEF Descends
  <2>2. \A t : Right(t) => RightNext(t)
    BY <1>2, <2>1 DEF Right, RightNext
  <2>3. RightNext(NoFile)
    BY <1>3 DEF RightNext
  <2>4. \A p \in Path : RightNext(files'[p])
    BY <1>3, <2>2, <2>3 DEF CommandsInv, Lineage
  <2>5. /\ \A x \in Repl : repl'[x].on => RightNext(Session(repl'[x]))
        /\ RightNext(Session(shot'))
    BY <1>2, <2>2 DEF CommandsInv, Lineage
  <2> QED
    BY <2>4, <2>5 DEF Lineage, Right, RightNext, Session
<1> QED
  BY <1>4, <1>5, <1>6, <1>7, <1>8, <1>10, <1>11, <1>12 DEF CommandsInv

LEMMA ShotLoadKeeps ==
  ASSUME CommandsInv, NEW ref \in Resolved, ShotLoad(ref)
  PROVE  CommandsInv'
<1>1. PICK w \in Path : w = ref.path
  BY ResolvedIs
<1>2. PICK f : f = files[w]
  OBVIOUS
<1>3. /\ shot = Idle /\ shot' = [path |-> w, sid |-> f.id, msgs |-> f.msgs, backed |-> FALSE]
      /\ mingled' = IF OpenIn(w, Repl) THEN mingled \cup {w} ELSE mingled
      /\ UNCHANGED <<files, recent, repl, nextId, nextMsg, parent, acked, removed>>
  BY <1>1, <1>2 DEF ShotLoad, Opened, Idle
<1>4. /\ w.stem < nextId /\ f \in Sessions /\ f.id \in 1..(nextId - 1)
      /\ f.msgs \subseteq 1..(nextMsg - 1) /\ Right(f)
  BY <1>1, <1>2, ResolvedIs
<1>5. mingled \subseteq mingled' /\ mingled' \subseteq Path
  BY <1>3 DEF CommandsInv, TypeOK
<1>6. TypeOK'
  <2>1. shot' \in [path : Path \cup {NoPath}, sid : Id \cup {0}, msgs : SUBSET Msg, backed : BOOLEAN]
    BY <1>3, <1>4 DEF Sessions
  <2> QED
    BY <1>3, <1>5, <2>1 DEF CommandsInv, TypeOK, Exists
<1>7. Generated' /\ Spoken'
  BY <1>3, <1>4 DEF CommandsInv, Generated, Spoken, Exists
<1>8. Alone'
  <2> SUFFICES ASSUME NEW p \in Path \ mingled'
               PROVE  /\ \A x, y \in Repl : repl[x].on /\ repl[x].path = p /\ repl[y].on /\ repl[y].path = p => x = y
                      /\ shot'.path = p => \A x \in Repl : ~(repl[x].on /\ repl[x].path = p)
    BY <1>3 DEF Alone
  <2>1. \A x, y \in Repl : repl[x].on /\ repl[x].path = p /\ repl[y].on /\ repl[y].path = p => x = y
    BY <1>5 DEF CommandsInv, Alone
  <2>2. p = w => ~OpenIn(w, Repl)
    BY <1>3
  <2> QED
    BY <1>3, <2>1, <2>2 DEF OpenIn
<1>9. HandleIsSession' /\ DiskIsCurrent'
  BY <1>3, <1>5 DEF CommandsInv, HandleIsSession, DiskIsCurrent, Exists, Session
<1>10. ASSUME NEW p \in Path, NEW m, HeldAt(p, m) PROVE HeldAt(p, m)'
  BY <1>2, <1>3, <1>10 DEF HeldAt
<1>11. BackedUp'
  BY <1>3 DEF BackedUp
<1>12. Homes'
  <2> SUFFICES ASSUME NEW a \in acked, a.path \notin mingled', a.msg \notin removed
               PROVE  HeldAt(a.path, a.msg)' \/ HeldAt(Backup(a.path), a.msg)'
    BY <1>3 DEF Homes
  <2>1. HeldAt(a.path, a.msg) \/ HeldAt(Backup(a.path), a.msg)
    BY <1>5 DEF CommandsInv, Homes
  <2>2. a.path \in Path /\ Backup(a.path) \in Path
    BY DEF CommandsInv, Generated, Backup, Path, Ext
  <2> QED
    BY <1>10, <2>1, <2>2
<1>13. Lineage'
  <2>1. Descends' = Descends
    BY <1>3 DEF Descends
  <2>2. \A t : Right(t) => RightNext(t)
    BY <1>3, <1>5, <2>1 DEF Right, RightNext
  <2>3. Session(shot') = f
    BY <1>3, <1>4 DEF Session, Sessions
  <2>4. /\ \A p \in Path : RightNext(files'[p])
        /\ \A x \in Repl : repl'[x].on => RightNext(Session(repl'[x]))
        /\ RightNext(Session(shot'))
    BY <1>3, <1>4, <2>2, <2>3 DEF CommandsInv, Lineage
  <2> QED
    BY <2>4 DEF Lineage, Right, RightNext, Session
<1> QED
  BY <1>6, <1>7, <1>8, <1>9, <1>11, <1>12, <1>13 DEF CommandsInv
-----------------------------------------------------------------------------
(* The one-shot process writes session s to file w.                        *)

ShotWrites(w, s) ==
    /\ Write(w, s) /\ s \in Sessions /\ w.stem < nextId /\ s.id < nextId'
    /\ s.msgs \subseteq shot.msgs
    /\ Right(s)
    /\ UNCHANGED <<repl, nextMsg, parent, acked, removed, mingled>>
    /\ nextId' \in nextId..(MaxId + 1)
    /\ shot # Idle /\ shot' # Idle
    /\ shot' \in [path : {shot.path}, sid : 1..(nextId' - 1), msgs : {{}, shot.msgs}, backed : BOOLEAN]
    /\ shot'.msgs = {} \/ shot'.sid = shot.sid
    /\ w \notin mingled => \A x \in Repl : repl[x].on => repl[x].path # w

LEMMA IdsBefore ==
  ASSUME NEW n \in Nat, n <= MaxId + 1
  PROVE  1..(n - 1) \subseteq Id
BY BoundAssumption DEF Id

LEMMA ShotWriterKeeps ==
  ASSUME CommandsInv, NEW w \in Path, NEW s, ShotWrites(w, s), BackedUp', Homes'
  PROVE  CommandsInv'
<1> SUFFICES ASSUME /\ Write(w, s) /\ s \in Sessions /\ w.stem < nextId /\ s.id < nextId'
                    /\ s.msgs \subseteq shot.msgs
                    /\ Right(s)
                    /\ UNCHANGED <<repl, nextMsg, parent, acked, removed, mingled>>
                    /\ nextId' \in nextId..(MaxId + 1)
                    /\ shot # Idle /\ shot' # Idle
                    /\ shot' \in [path : {shot.path}, sid : 1..(nextId' - 1), msgs : {{}, shot.msgs}, backed : BOOLEAN]
                    /\ shot'.msgs = {} \/ shot'.sid = shot.sid
                    /\ w \notin mingled => \A x \in Repl : repl[x].on => repl[x].path # w
             PROVE  CommandsInv'
  BY DEF ShotWrites
<1>0. MaxId \in Nat /\ MaxMsg \in Nat /\ nextId \in Nat /\ nextId' \in Nat /\ nextId <= nextId' /\ nextId >= 1
  BY BoundAssumption DEF CommandsInv, TypeOK
<1>1. /\ files' \in [Path -> [id : Id \cup {0}, msgs : SUBSET Msg]]
      /\ recent' \in Seq(Path) /\ IsInjective(recent')
      /\ ToSet(recent') = {p \in Path : files'[p] # NoFile /\ Managed(p)}
      /\ files'[w] = s /\ s # NoFile /\ \A p \in Path : p # w => files'[p] = files[p]
  BY WriteIs DEF CommandsInv
<1>2. /\ shot'.path = shot.path /\ shot'.sid \in 1..(nextId' - 1) /\ shot'.msgs \subseteq shot.msgs
      /\ shot'.backed \in BOOLEAN
      /\ shot.path \in Path /\ shot.path.stem < nextId /\ shot.msgs \subseteq 1..(nextMsg - 1)
      /\ shot.msgs \subseteq Msg
  BY DEF CommandsInv, TypeOK, Generated, Spoken
<1>3. TypeOK'
  <2>1. shot' \in [path : Path \cup {NoPath}, sid : Id \cup {0}, msgs : SUBSET Msg, backed : BOOLEAN]
    <3>0. nextId' <= MaxId + 1
      BY <1>0
    <3>1. 1..(nextId' - 1) \subseteq Id
      BY <1>0, <3>0, IdsBefore
    <3> QED
      BY <1>2, <3>1
  <2>2. nextId' \in 1..(MaxId + 1)
    BY <1>0
  <2> QED
    BY <1>1, <2>1, <2>2 DEF CommandsInv, TypeOK, Exists
<1>4. Generated'
  <2>1. ASSUME NEW p \in Path, files'[p] # NoFile
        PROVE  p.stem < nextId' /\ files'[p].id \in 1..(nextId' - 1)
    <3>0. p.stem \in Nat
      BY <1>0 DEF Path, Id
    <3>1. CASE p = w
      <4>1. s.id \in Nat /\ s.id >= 1
        BY <1>0 DEF Sessions, Id
      <4> QED
        BY <1>0, <1>1, <3>0, <3>1, <4>1
    <3>2. CASE p # w
      <4>1. p.stem < nextId /\ files[p].id \in 1..(nextId - 1) /\ files'[p] = files[p]
        BY <1>1, <2>1, <3>2 DEF CommandsInv, Generated, Exists
      <4> QED
        BY <1>0, <3>0, <4>1
    <3> QED
      BY <3>1, <3>2
  <2>2. ASSUME NEW x \in Repl, repl[x].on
        PROVE  repl[x].path.stem < nextId' /\ repl[x].sid < nextId'
    <3>1. repl[x].path \in Path /\ repl[x].path.stem < nextId /\ repl[x].sid \in 1..(nextId - 1)
      BY <2>2, RunningIs
    <3>2. repl[x].path.stem \in Nat
      BY <1>0, <3>1 DEF Path, Id
    <3> QED
      BY <1>0, <3>1, <3>2
  <2>3. shot'.path \in Path /\ shot'.path.stem < nextId' /\ shot'.sid \in 1..(nextId' - 1)
    <3>1. shot.path.stem \in Nat
      BY <1>0, <1>2 DEF Path, Id
    <3> QED
      BY <1>0, <1>2, <3>1
  <2>4. ASSUME NEW i \in Id, parent[i] # 0 PROVE parent[i] < i /\ i < nextId'
    <3>1. i \in Nat /\ parent[i] < i /\ i < nextId
      BY <1>0, <2>4 DEF CommandsInv, Generated, Id
    <3> QED
      BY <1>0, <3>1
  <2>5. ASSUME NEW a \in acked
        PROVE  /\ a.path \in Path /\ a.path.stem < nextId'
               /\ a.sid \in 1..(nextId' - 1) /\ a.msg \in 1..(nextMsg - 1)
    <3>1. /\ a.path \in Path /\ a.path.stem < nextId /\ a.sid \in 1..(nextId - 1)
          /\ a.msg \in 1..(nextMsg - 1)
      BY DEF CommandsInv, Generated
    <3>2. a.path.stem \in Nat
      BY <1>0, <3>1 DEF Path, Id
    <3> QED
      BY <1>0, <3>1, <3>2
  <2>6. \A a, b \in acked : a.msg = b.msg => a = b
    BY DEF CommandsInv, Generated
  <2> QED
    BY <2>1, <2>2, <2>3, <2>4, <2>5, <2>6 DEF Generated, Exists
<1>5. Spoken'
  <2>1. \A p \in Path : files'[p].msgs \subseteq 1..(nextMsg - 1)
    BY <1>1, <1>2 DEF CommandsInv, Spoken
  <2> QED
    BY <1>2, <2>1 DEF CommandsInv, Spoken
<1>6. Alone' /\ HandleIsSession'
  BY <1>2 DEF CommandsInv, Alone, HandleIsSession
<1>7. DiskIsCurrent'
  <2> SUFFICES ASSUME NEW x \in Repl, repl[x].on, repl[x].path \notin mingled, files'[repl[x].path] # NoFile
               PROVE  files'[repl[x].path] = Session(repl[x])
    BY DEF DiskIsCurrent, Session, Exists
  <2>1. repl[x].path \in Path /\ repl[x].path # w
    BY RunningIs
  <2> QED
    BY <1>1, <2>1 DEF CommandsInv, DiskIsCurrent, Exists
<1>8. Lineage'
  <2>1. Descends' = Descends
    BY DEF Descends
  <2>2. \A t : Right(t) => RightNext(t)
    BY <2>1 DEF Right, RightNext
  <2>3. \A p \in Path : RightNext(files'[p])
    BY <1>1, <2>2 DEF CommandsInv, Lineage
  <2>4. \A x \in Repl : repl'[x].on => RightNext(Session(repl'[x]))
    BY <2>2 DEF CommandsInv, Lineage
  <2>5. RightNext(Session(shot'))
    <3>1. CASE shot'.msgs = {}
      BY <3>1 DEF RightNext, Session
    <3>2. CASE shot'.msgs # {}
      <4>1. shot'.msgs = shot.msgs /\ shot'.sid = shot.sid
        BY <3>2
      <4>2. Session(shot') = Session(shot)
        BY <4>1 DEF Session
      <4> QED
        BY <2>2, <4>2 DEF CommandsInv, Lineage
    <3> QED
      BY <3>1, <3>2
  <2> QED
    BY <2>3, <2>4, <2>5 DEF Lineage, Right, RightNext, Session
<1> QED
  BY <1>3, <1>4, <1>5, <1>6, <1>7, <1>8 DEF CommandsInv

\* What is known of the one-shot process while it works.
LEMMA ShotIs ==
  ASSUME CommandsInv, shot # Idle
  PROVE  /\ shot = [path |-> shot.path, sid |-> shot.sid, msgs |-> shot.msgs, backed |-> shot.backed]
         /\ shot.path \in Path /\ shot.path.stem < nextId /\ shot.sid \in 1..(nextId - 1)
         /\ shot.backed \in BOOLEAN
         /\ nextId \in Nat /\ nextId \in nextId..(MaxId + 1)
         /\ Session(shot) \in Sessions /\ Session(shot).id = shot.sid /\ Session(shot).msgs = shot.msgs
         /\ Right(Session(shot))
         /\ shot.path \notin mingled => \A x \in Repl : repl[x].on => repl[x].path # shot.path
         /\ shot.path.ext # "bak" => /\ Backup(shot.path) \in Path /\ Backup(shot.path) # shot.path
                                     /\ Backup(shot.path).stem = shot.path.stem
         /\ \A p \in Path : shot.path.ext # "bak" => Backup(p) # shot.path
<1>1. shot.path \in Path /\ shot.path.stem < nextId /\ shot.sid \in 1..(nextId - 1)
  BY DEF CommandsInv, Generated
<1>2. nextId \in Nat /\ nextId \in nextId..(MaxId + 1) /\ 1..(nextId - 1) \subseteq Id
  BY BoundAssumption DEF CommandsInv, TypeOK, Id
<1>3. shot \in [path : Path \cup {NoPath}, sid : Id \cup {0}, msgs : SUBSET Msg, backed : BOOLEAN]
  BY DEF CommandsInv, TypeOK
<1>4. Session(shot) \in Sessions /\ Session(shot).id = shot.sid /\ Session(shot).msgs = shot.msgs
  BY <1>1, <1>2, <1>3 DEF Session, Sessions
<1>5. shot.path \notin mingled => \A x \in Repl : repl[x].on => repl[x].path # shot.path
  BY <1>1 DEF CommandsInv, Alone
<1>6. \A p \in Path : Backup(p) \in Path /\ Backup(p).ext = "bak" /\ Backup(p).stem = p.stem
  BY DEF Backup, Path, Ext
<1>7. Right(Session(shot))
  BY DEF CommandsInv, Lineage
<1> QED
  BY <1>1, <1>2, <1>3, <1>4, <1>5, <1>6, <1>7

LEMMA ShotCompactKeeps ==
  ASSUME CommandsInv, ShotCompact
  PROVE  CommandsInv'
<1>1. /\ shot # Idle /\ ~shot.backed /\ Write(shot.path, Session(shot))
      /\ UNCHANGED <<repl, shot, nextId, nextMsg, parent, acked, removed, mingled>>
  BY DEF ShotCompact, Session
<1>2. PICK w \in Path : w = shot.path
  BY <1>1, ShotIs
<1>3. PICK s : s = Session(shot)
  OBVIOUS
<1>4. ShotWrites(w, s)
  <2>1. s.id < nextId'
    BY <1>1, <1>3, ShotIs
  <2>2. nextId' \in nextId..(MaxId + 1) /\ shot' \in [path : {shot.path}, sid : 1..(nextId' - 1), msgs : {{}, shot.msgs}, backed : BOOLEAN]
    BY <1>1, ShotIs
  <2>3. s \in Sessions /\ s.msgs = shot.msgs /\ Right(s) /\ w.stem < nextId
        /\ (w \notin mingled => \A x \in Repl : repl[x].on => repl[x].path # w)
    BY <1>1, <1>2, <1>3, ShotIs
  <2> QED
    BY <1>1, <1>2, <1>3, <2>1, <2>2, <2>3 DEF ShotWrites
<1>5. /\ files'[w] = s /\ s.msgs = shot.msgs /\ \A p \in Path : p # w => files'[p] = files[p]
  BY <1>1, <1>2, <1>3, WriteIs, ShotIs DEF CommandsInv
<1>6. ASSUME NEW p \in Path, NEW m, HeldAt(p, m) PROVE HeldAt(p, m)'
  <2>1. CASE p = w
    BY <1>1, <1>2, <1>5, <1>6, <2>1 DEF HeldAt
  <2>2. CASE p # w
    BY <1>1, <1>5, <1>6, <2>2 DEF HeldAt
  <2> QED
    BY <2>1, <2>2
<1>7. BackedUp'
  BY <1>1 DEF BackedUp
<1>8. Homes'
  <2> SUFFICES ASSUME NEW a \in acked, a.path \notin mingled, a.msg \notin removed
               PROVE  HeldAt(a.path, a.msg)' \/ HeldAt(Backup(a.path), a.msg)'
    BY <1>1 DEF Homes
  <2>1. HeldAt(a.path, a.msg) \/ HeldAt(Backup(a.path), a.msg)
    BY DEF CommandsInv, Homes
  <2>2. a.path \in Path /\ Backup(a.path) \in Path
    BY DEF CommandsInv, Generated, Backup, Path, Ext
  <2> QED
    BY <1>6, <2>1, <2>2
<1> QED
  BY <1>4, <1>7, <1>8, ShotWriterKeeps

LEMMA ShotBackupKeeps ==
  ASSUME CommandsInv, ShotBackup
  PROVE  CommandsInv'
<1>1. /\ shot # Idle /\ ~shot.backed /\ shot.path.ext # "bak" /\ Fresh(Backup(shot.path))
      /\ Write(Backup(shot.path), Session(shot)) /\ shot' = [shot EXCEPT !.backed = TRUE]
      /\ UNCHANGED <<repl, nextId, nextMsg, parent, acked, removed, mingled>>
  BY DEF ShotBackup, Session, Backup
<1>2. PICK w \in Path : w = Backup(shot.path) /\ w # shot.path /\ w.stem = shot.path.stem
  BY <1>1, ShotIs
<1>3. PICK s : s = Session(shot)
  OBVIOUS
<1>4. shot' = [path |-> shot.path, sid |-> shot.sid, msgs |-> shot.msgs, backed |-> TRUE]
  BY <1>1, ShotIs
<1>5. files[w] = NoFile /\ \A x \in Repl : repl[x].path # w
  BY <1>1, <1>2 DEF Fresh, Exists
<1>6. shot' # Idle /\ shot'.path = shot.path /\ shot'.msgs = shot.msgs /\ shot'.sid = shot.sid
  BY <1>4 DEF Idle
<1>7. ShotWrites(w, s)
  <2>1. s.id < nextId'
    BY <1>1, <1>3, ShotIs
  <2>2. nextId' \in nextId..(MaxId + 1) /\ shot' \in [path : {shot.path}, sid : 1..(nextId' - 1), msgs : {{}, shot.msgs}, backed : BOOLEAN]
    BY <1>1, <1>4, ShotIs
  <2>3. s \in Sessions /\ s.msgs = shot.msgs /\ Right(s) /\ w.stem < nextId
    BY <1>1, <1>2, <1>3, ShotIs
  <2> QED
    BY <1>1, <1>2, <1>3, <1>5, <1>6, <2>1, <2>2, <2>3 DEF ShotWrites
<1>8. /\ files'[w] = s /\ s.msgs = shot.msgs /\ \A p \in Path : p # w => files'[p] = files[p]
  BY <1>1, <1>2, <1>3, WriteIs, ShotIs DEF CommandsInv
<1>9. ASSUME NEW p \in Path, NEW m, HeldAt(p, m) PROVE HeldAt(p, m)'
  <2>1. p # w
    BY <1>5, <1>9 DEF HeldAt, NoFile
  <2> QED
    BY <1>1, <1>6, <1>8, <1>9, <2>1 DEF HeldAt
<1>10. BackedUp'
  <2> SUFFICES \A m \in shot.msgs : HeldAt(w, m)'
    <3>1. (Backup(shot.path))' = w
      BY <1>2, <1>6 DEF Backup
    <3> QED
      BY <1>1, <1>6, <3>1 DEF BackedUp
  <2> QED
    BY <1>1, <1>2, <1>5, <1>6, <1>8 DEF HeldAt
<1>11. Homes'
  <2> SUFFICES ASSUME NEW a \in acked, a.path \notin mingled, a.msg \notin removed
               PROVE  HeldAt(a.path, a.msg)' \/ HeldAt(Backup(a.path), a.msg)'
    BY <1>1 DEF Homes
  <2>1. HeldAt(a.path, a.msg) \/ HeldAt(Backup(a.path), a.msg)
    BY DEF CommandsInv, Homes
  <2>2. a.path \in Path /\ Backup(a.path) \in Path
    BY DEF CommandsInv, Generated, Backup, Path, Ext
  <2> QED
    BY <1>9, <2>1, <2>2
<1> QED
  BY <1>7, <1>10, <1>11, ShotWriterKeeps

LEMMA ShotClearKeeps ==
  ASSUME CommandsInv, ShotClear
  PROVE  CommandsInv'
<1>1. /\ shot.backed /\ nextId <= MaxId /\ nextId' = nextId + 1
      /\ Write(shot.path, [id |-> nextId, msgs |-> {}])
      /\ shot' = [shot EXCEPT !.sid = nextId, !.msgs = {}, !.backed = FALSE]
      /\ UNCHANGED <<repl, nextMsg, parent, acked, removed, mingled>>
  BY DEF ShotClear
<1>2. shot # Idle /\ shot.path.ext # "bak"
      /\ \A m \in shot.msgs : m \in removed \/ HeldAt(Backup(shot.path), m)
  BY <1>1 DEF CommandsInv, BackedUp
<1>3. PICK w \in Path : w = shot.path
  BY <1>2, ShotIs
<1>4. PICK s : s = [id |-> nextId, msgs |-> {}]
  OBVIOUS
<1>5. shot' = [path |-> shot.path, sid |-> nextId, msgs |-> {}, backed |-> FALSE]
  <2>1. shot = [path |-> shot.path, sid |-> shot.sid, msgs |-> shot.msgs, backed |-> shot.backed]
    BY <1>2, ShotIs
  <2> QED
    BY <1>1, <2>1
<1>6. /\ nextId \in Nat /\ nextId >= 1 /\ nextId \in Id /\ nextId' \in nextId..(MaxId + 1)
  BY <1>1, BoundAssumption DEF CommandsInv, TypeOK, Id
<1>7. /\ shot' # Idle /\ shot'.path = w /\ shot'.msgs = {} /\ ~shot'.backed
      /\ s \in Sessions /\ s.id = nextId /\ s.msgs = {}
  <2>1. nextId # 0
    BY <1>6
  <2> QED
    BY <1>3, <1>4, <1>5, <1>6, <2>1 DEF Idle, Sessions
<1>8. ShotWrites(w, s)
  <2>1. shot' \in [path : {shot.path}, sid : 1..(nextId' - 1), msgs : {{}, shot.msgs}, backed : BOOLEAN]
    <3>1. nextId \in 1..(nextId' - 1)
      BY <1>1, <1>6
    <3> QED
      BY <1>5, <3>1
  <2>2. w.stem < nextId /\ (w \notin mingled => \A x \in Repl : repl[x].on => repl[x].path # w)
    BY <1>2, <1>3, ShotIs
  <2>3. Right(s) /\ s.id < nextId'
    BY <1>1, <1>6, <1>7 DEF Right
  <2> QED
    BY <1>1, <1>2, <1>3, <1>4, <1>6, <1>7, <2>1, <2>2, <2>3 DEF ShotWrites
<1>9. \A p \in Path : p # w => files'[p] = files[p]
  BY <1>1, <1>3, <1>4, <1>7, WriteIs DEF CommandsInv
<1>10. ASSUME NEW p \in Path, NEW m, p # w, HeldAt(p, m) PROVE HeldAt(p, m)'
  BY <1>1, <1>7, <1>9, <1>10 DEF HeldAt
<1>11. BackedUp'
  BY <1>7 DEF BackedUp
<1>12. Homes'
  <2> SUFFICES ASSUME NEW a \in acked, a.path \notin mingled, a.msg \notin removed
               PROVE  HeldAt(a.path, a.msg)' \/ HeldAt(Backup(a.path), a.msg)'
    BY <1>1 DEF Homes
  <2>1. HeldAt(a.path, a.msg) \/ HeldAt(Backup(a.path), a.msg)
    BY DEF CommandsInv, Homes
  <2>2. a.path \in Path /\ Backup(a.path) \in Path /\ Backup(a.path) # w
    <3>1. a.path \in Path
      BY DEF CommandsInv, Generated
    <3> QED
      BY <1>2, <1>3, <3>1, ShotIs DEF Backup, Path, Ext
  <2>3. CASE HeldAt(Backup(a.path), a.msg)
    BY <1>10, <2>2, <2>3
  <2>4. CASE HeldAt(a.path, a.msg) /\ a.path # w
    BY <1>10, <2>2, <2>4
  <2>5. CASE HeldAt(a.path, a.msg) /\ a.path = w
    <3>1. a.msg \in shot.msgs
      BY <1>3, <2>5 DEF HeldAt
    <3>2. HeldAt(Backup(a.path), a.msg)
      BY <1>2, <1>3, <2>5, <3>1
    <3> QED
      BY <1>10, <2>2, <3>2
  <2> QED
    BY <2>1, <2>3, <2>4, <2>5
<1> QED
  BY <1>8, <1>11, <1>12, ShotWriterKeeps
-----------------------------------------------------------------------------
\* An order of as many files as there are has every one of them in it.
LEMMA OrderIsAll ==
  ASSUME NEW S, IsFiniteSet(S), NEW s \in [1..Cardinality(S) -> S], IsInjective(s)
  PROVE  s \in Seq(S) /\ ToSet(s) = S
<1> DEFINE c == Cardinality(S)
<1>1. c \in Nat /\ IsFiniteSet(1..c) /\ Cardinality(1..c) = c
  <2>1. c \in Nat
    BY FS_CardinalityType
  <2> HIDE DEF c
  <2>2. IsFiniteSet(1..c) /\ Cardinality(1..c) = IF 1 > c THEN 0 ELSE c - 1 + 1
    BY <2>1, FS_Interval
  <2> QED
    BY <2>1, <2>2
<1> HIDE DEF c
<1>2. s \in [1..c -> S]
  BY DEF c
<1>3. s \in Injection(1..c, S)
  BY <1>2 DEF Injection
<1>4. s \in Surjection(1..c, S)
  BY <1>1, <1>3, FS_Injection DEF c
<1>5. \A x \in S : \E i \in 1..c : s[i] = x
  BY <1>4 DEF Surjection
<1>6. s \in Seq(S)
  BY <1>1, <1>2
<1>7. DOMAIN s = 1..c
  BY <1>2
<1> QED
  BY <1>2, <1>5, <1>6, <1>7 DEF ToSet

LEMMA CommandsInit == Init => CommandsInv
<1> SUFFICES ASSUME Init PROVE CommandsInv
  OBVIOUS
<1>0. MaxId \in Nat /\ MaxMsg \in Nat /\ nextId \in 1..MaxId /\ nextId \in Nat /\ nextId >= 1 /\ nextMsg = 1
  BY BoundAssumption DEF Init
<1>1. PICK ext \in [1..(nextId - 1) -> {"jsonl", "json"}] :
        LET o == {[stem |-> i, ext |-> ext[i]] : i \in 1..(nextId - 1)}
        IN  /\ files = [p \in Path |-> IF p \in o THEN [id |-> p.stem, msgs |-> {}] ELSE NoFile]
            /\ recent \in {s \in [1..Cardinality(o) -> o] : IsInjective(s)}
  BY DEF Init
<1> DEFINE old == {[stem |-> i, ext |-> ext[i]] : i \in 1..(nextId - 1)}
<1>2. /\ files = [p \in Path |-> IF p \in old THEN [id |-> p.stem, msgs |-> {}] ELSE NoFile]
      /\ recent \in [1..Cardinality(old) -> old] /\ IsInjective(recent)
  BY <1>1
<1>3. /\ old \subseteq Path
      /\ \A p \in old : Managed(p) /\ p.stem \in 1..(nextId - 1) /\ p.stem \in Id
  BY <1>0 DEF Path, Id, Ext, Managed
<1>4. IsFiniteSet(old)
  <2> DEFINE f == [i \in 1..(nextId - 1) |-> [stem |-> i, ext |-> ext[i]]]
  <2>1. f \in Surjection(1..(nextId - 1), old)
    BY DEF Surjection
  <2>2. nextId - 1 \in Int
    BY <1>0
  <2>3. IsFiniteSet(1..(nextId - 1))
    BY <2>2, FS_Interval
  <2> HIDE DEF f, old
  <2> QED
    BY <2>1, <2>3, FS_Surjection
<1> HIDE DEF old
<1>5. recent \in Seq(old) /\ ToSet(recent) = old
  BY <1>2, <1>4, OrderIsAll
<1>6. recent \in Seq(Path)
  BY <1>3, <1>5
<1>7. /\ \A p \in Path : files[p].msgs = {} /\ (files[p] # NoFile <=> p \in old)
      /\ \A p \in old : files[p].id = p.stem
      /\ files \in [Path -> [id : Id \cup {0}, msgs : SUBSET Msg]]
  <2>1. \A p \in old : p.stem # 0
    BY <1>3, <1>0
  <2>2. \A p \in Path : files[p] = IF p \in old THEN [id |-> p.stem, msgs |-> {}] ELSE [id |-> 0, msgs |-> {}]
    BY <1>2 DEF NoFile
  <2>3. \A p \in old : [id |-> p.stem, msgs |-> {}] \in [id : Id \cup {0}, msgs : SUBSET Msg]
    BY <1>3
  <2>4. files \in [Path -> [id : Id \cup {0}, msgs : SUBSET Msg]]
    <3> DEFINE T == [id : Id \cup {0}, msgs : SUBSET Msg]
    <3>1. [id |-> 0, msgs |-> {}] \in T
      OBVIOUS
    <3>2. \A p \in old : [id |-> p.stem, msgs |-> {}] \in T
      BY <2>3
    <3> HIDE DEF T
    <3>3. \A p \in Path : files[p] \in T
      BY <2>2, <3>1, <3>2
    <3>4. files = [p \in Path |-> files[p]]
      BY <1>2
    <3>5. files \in [Path -> T]
      BY <3>3, <3>4
    <3> QED
      BY <3>5 DEF T
  <2> QED
    BY <1>3, <2>1, <2>2, <2>4 DEF NoFile
<1>8. /\ repl = [r \in Repl |-> Off] /\ shot = Idle /\ parent = [i \in Id |-> 0]
      /\ acked = {} /\ removed = {} /\ mingled = {}
  BY DEF Init
<1>9. /\ ~Off.on /\ Off.msgs = {} /\ Off.id = Off.sid /\ Off.path = Off.spath
      /\ ~Idle.backed /\ Idle.msgs = {} /\ Idle.path = NoPath
      /\ Idle \in [path : Path \cup {NoPath}, sid : Id \cup {0}, msgs : SUBSET Msg, backed : BOOLEAN]
  BY DEF Off, Idle
<1>10. TypeOK
  <2>1. ToSet(recent) = {p \in Path : files[p] # NoFile /\ Managed(p)}
    BY <1>3, <1>5, <1>7
  <2>2. repl \in [Repl -> {Off} \cup Running]
    BY <1>8
  <2>3. nextId \in 1..(MaxId + 1) /\ nextMsg \in 1..(MaxMsg + 1)
    BY <1>0
  <2> QED
    BY <1>2, <1>6, <1>7, <1>8, <1>9, <2>1, <2>2, <2>3 DEF TypeOK, Exists, Running
<1>11. Generated
  <2>1. ASSUME NEW p \in Path, files[p] # NoFile PROVE p.stem < nextId /\ files[p].id \in 1..(nextId - 1)
    <3>1. p \in old /\ files[p].id = p.stem /\ p.stem \in 1..(nextId - 1)
      BY <1>3, <1>7, <2>1
    <3> QED
      BY <1>0, <3>1
  <2>2. /\ \A r \in Repl : ~repl[r].on
        /\ \A i \in Id : parent[i] = 0
    BY <1>8, <1>9
  <2> QED
    BY <1>8, <2>1, <2>2 DEF Generated, Exists
<1>12. Spoken
  BY <1>7, <1>8, <1>9 DEF Spoken
<1>13. Alone /\ HandleIsSession /\ DiskIsCurrent /\ BackedUp /\ Homes
  BY <1>8, <1>9 DEF Alone, HandleIsSession, DiskIsCurrent, BackedUp, Homes
<1>14. Lineage
  BY <1>8 DEF Lineage, Right
<1> QED
  BY <1>10, <1>11, <1>12, <1>13, <1>14 DEF CommandsInv

\* What holds of a workspace's sessions whatever the REPLs and the one-shot
\* process do: every id and message is one generated, an unshared file has one
\* writer and is what that writer has in memory, every message is where it was
\* said or in that file's backup, and only with those who descend from it.
THEOREM CommandsInvariant == Spec => []CommandsInv
<1>1. CommandsInv /\ [Next]_vars => CommandsInv'
  <2> SUFFICES ASSUME CommandsInv, [Next]_vars PROVE CommandsInv'
    OBVIOUS
  <2>1. ASSUME NEW r \in Repl, Start(r) \/ Clear(r) PROVE CommandsInv'
    BY <2>1, StartKeeps
  <2>2. ASSUME NEW r \in Repl, Turn(r) PROVE CommandsInv'
    BY <2>2, TurnKeeps
  <2>3. ASSUME NEW r \in Repl, Persist(r) PROVE CommandsInv'
    BY <2>3, PersistKeeps
  <2>4. ASSUME NEW r \in Repl, Fork(r) PROVE CommandsInv'
    BY <2>4, ForkKeeps
  <2>5. ASSUME NEW r \in Repl, Die(r) PROVE CommandsInv'
    BY <2>5, EndKeeps DEF Die
  <2>6. ASSUME NEW r \in Repl, NEW ref \in Resolved, Resume(r, ref) PROVE CommandsInv'
    BY <2>6, ResumeKeeps
  <2>7. ASSUME NEW r \in Repl, NEW ref \in Resolved, Delete(r, ref) PROVE CommandsInv'
    BY <2>7, DeleteKeeps
  <2>8. ASSUME NEW ref \in Resolved, ShotLoad(ref) PROVE CommandsInv'
    BY <2>8, ShotLoadKeeps
  <2>9. CASE ShotCompact
    BY <2>9, ShotCompactKeeps
  <2>10. CASE ShotBackup
    BY <2>10, ShotBackupKeeps
  <2>11. CASE ShotClear
    BY <2>11, ShotClearKeeps
  <2>12. CASE ShotExit
    BY <2>12, EndKeeps DEF ShotExit
  <2>13. CASE UNCHANGED vars
    BY <2>13, EndKeeps DEF vars
  <2> QED
    BY <2>1, <2>2, <2>3, <2>4, <2>5, <2>6, <2>7, <2>8, <2>9, <2>10, <2>11, <2>12, <2>13 DEF Next
<1> QED
  BY CommandsInit, <1>1, PTL DEF Spec

\* A message a turn put on record is in some session file until the user deletes
\* its session, whatever /clear, /resume, forks, deletions, crashes and one-shot
\* commands come after (main.rs, session_control.rs).
THEOREM MessagesStay == Spec => []NothingLost
<1>1. CommandsInv => NothingLost
  <2> SUFFICES ASSUME CommandsInv, NEW a \in acked, a.path \notin mingled, a.msg \notin removed
               PROVE  \E p \in Path : a.msg \in files[p].msgs
    BY DEF NothingLost
  <2>1. a.path \in Path /\ Backup(a.path) \in Path
    BY DEF CommandsInv, Generated, Backup, Path, Ext
  <2>2. HeldAt(a.path, a.msg) \/ HeldAt(Backup(a.path), a.msg)
    BY DEF CommandsInv, Homes
  <2> QED
    BY <2>1, <2>2 DEF HeldAt
<1> QED
  BY <1>1, CommandsInvariant, PTL

\* No command mixes conversations: a message is only in files of the session it
\* was said in and of those forked from it, at whatever depth (fork_session).
THEOREM ConversationsApart == Spec => []NoMixing
<1>1. CommandsInv => NoMixing
  BY DEF CommandsInv, Lineage, Right, NoMixing
<1> QED
  BY <1>1, CommandsInvariant, PTL

\* The session a REPL shows is the one in its memory and, while no other process
\* is on its file, what the file holds.
THEOREM ShownSession == Spec => []ShownIsOnDisk
<1>1. CommandsInv => ShownIsOnDisk
  BY DEF CommandsInv, ShownIsOnDisk
<1> QED
  BY <1>1, CommandsInvariant, PTL
-----------------------------------------------------------------------------
(***************************************************************************)
(* Skills (Skills), for any directories, entries, installers and names.    *)
(* Both crates' lists of directories are sequences, however many the       *)
(* ancestors are, and the one that skills are installed in is always       *)
(* among those of the Skill tool.                                          *)
(***************************************************************************)
\* A set of naturals has a least element.
LEMMA LeastOf ==
  ASSUME NEW S, S # {}, S \subseteq Nat
  PROVE  Min(S) \in S /\ \A y \in S : Min(S) <= y
<1>1. PICK m \in S : \A y \in S : <<y, m>> \notin OpToRel(<, Nat)
  BY NatLessThanWellFounded, WFMin
<1>2. ASSUME NEW y \in S PROVE m <= y
  <2>1. y \in Nat /\ m \in Nat
    OBVIOUS
  <2>2. y < m => <<y, m>> \in OpToRel(<, Nat)
    BY <2>1 DEF OpToRel
  <2>3. ~(y < m)
    BY <1>1, <2>2, Zenon
  <2> QED
    BY <2>1, <2>3
<1> QED
  BY <1>2 DEF Min

\* The directories a list names: where, of which tool, and what they hold.
Anywhere == ToSet(Ancestors) \cup {"home", "CLAW_CONFIG_HOME", "CODEX_HOME", "CLAUDE_CONFIG_DIR"}
ToolDir == {"", ".claw", ".omc", ".agents", ".codex", ".claude", ".config/opencode"}
Leaf == {"skills", "commands", "skills/omc-learned"}
Dirs == Anywhere \X ToolDir \X Leaf

LEMMA DirIs ==
  ASSUME NEW place \in Anywhere, NEW dir \in ToolDir, NEW leaf \in Leaf
  PROVE  <<place, dir, leaf>> \in Dirs
BY DEF Dirs

\* The lists that discover_skill_roots and skill_lookup_roots are made of.
LEMMA LeavesType ==
  ASSUME NEW place \in Anywhere, NEW dirs \in Seq(ToolDir), NEW leaf \in Leaf
  PROVE  Leaves(place, dirs, leaf) \in Seq(Dirs) /\ Len(Leaves(place, dirs, leaf)) = Len(dirs)
<1> DEFINE item(i) == <<place, dirs[i], leaf>>
<1>1. \A i \in 1..Len(dirs) : item(i) \in Dirs
  BY DirIs
<1>2. Leaves(place, dirs, leaf) = [i \in 1..Len(dirs) |-> item(i)] /\ Len(dirs) \in Nat
  BY DEF Leaves
<1> HIDE DEF item
<1> QED
  BY <1>1, <1>2

LEMMA PrefixedType ==
  ASSUME NEW place \in Anywhere, NEW dirs \in Seq(ToolDir)
  PROVE  /\ Prefixed(place, dirs) \in Seq(Dirs) /\ Len(Prefixed(place, dirs)) = 2 * Len(dirs)
         /\ \A i \in 1..Len(dirs) : Prefixed(place, dirs)[2 * i - 1] = <<place, dirs[i], "skills">>
<1> DEFINE item(k) == <<place, dirs[(k + 1) \div 2], IF k % 2 = 1 THEN "skills" ELSE "commands">>
<1>1. ASSUME NEW k \in 1..(2 * Len(dirs)) PROVE item(k) \in Dirs
  <2>1. (k + 1) \div 2 \in 1..Len(dirs)
    OBVIOUS
  <2>2. dirs[(k + 1) \div 2] \in ToolDir
    BY <2>1
  <2> QED
    BY <2>2, DirIs DEF Leaf
<1>2. ASSUME NEW i \in 1..Len(dirs)
      PROVE  /\ 2 * i - 1 \in 1..(2 * Len(dirs))
             /\ ((2 * i - 1) + 1) \div 2 = i /\ (2 * i - 1) % 2 = 1
  OBVIOUS
<1>3. Prefixed(place, dirs) = [k \in 1..(2 * Len(dirs)) |-> item(k)]
  BY DEF Prefixed
<1>4. 2 * Len(dirs) \in Nat
  OBVIOUS
<1>5. ASSUME NEW i \in 1..Len(dirs) PROVE Prefixed(place, dirs)[2 * i - 1] = <<place, dirs[i], "skills">>
  BY <1>2, <1>3
<1> HIDE DEF item
<1>6. Prefixed(place, dirs) \in Seq(Dirs) /\ Len(Prefixed(place, dirs)) = 2 * Len(dirs)
  BY <1>1, <1>3, <1>4
<1> QED
  BY <1>5, <1>6

LEMMA EachType ==
  ASSUME NEW f, NEW many \in {8, 10}, NEW places, NEW S, places \in Seq(S),
         \A i \in DOMAIN places : f[places[i]] \in Seq(Dirs) /\ Len(f[places[i]]) = many
  PROVE  Each(f, many, places) \in Seq(Dirs)
<1> DEFINE item(k) == f[places[((k - 1) \div many) + 1]][((k - 1) % many) + 1]
<1>1. ASSUME NEW k \in 1..(many * Len(places)) PROVE item(k) \in Dirs
  <2> DEFINE i == ((k - 1) \div many) + 1
  <2> DEFINE d == ((k - 1) % many) + 1
  <2>1. i \in 1..Len(places) /\ d \in 1..many
    <3>1. CASE many = 8
      BY <3>1
    <3>2. CASE many = 10
      BY <3>2
    <3> QED
      BY <3>1, <3>2
  <2> HIDE DEF i, d
  <2>2. f[places[i]] \in Seq(Dirs) /\ Len(f[places[i]]) = many
    BY <2>1
  <2>3. f[places[i]][d] \in Dirs
    BY <2>1, <2>2
  <2> QED
    BY <2>3 DEF i, d
<1>2. many * Len(places) \in Nat
  OBVIOUS
<1>3. Each(f, many, places) = [k \in 1..(many * Len(places)) |-> item(k)]
  BY DEF Each
<1> HIDE DEF item
<1> QED
  BY <1>1, <1>2, <1>3

LEMMA OfVariableType ==
  ASSUME NEW var \in Anywhere
  PROVE  /\ OfVariable(var) \in Seq(Dirs)
         /\ var \in Env => Len(OfVariable(var)) = 2 /\ OfVariable(var)[1] = <<var, "", "skills">>
<1> DEFINE one == <<var, "", "skills">>
<1> DEFINE two == <<var, "", "commands">>
<1>1. one \in Dirs /\ two \in Dirs
  BY DirIs DEF ToolDir, Leaf
<1>2. OfVariable(var) = IF var \in Env THEN <<one, two>> ELSE <<>>
  BY DEF OfVariable
<1>3. /\ OfVariable(var) \in Seq(Dirs)
      /\ var \in Env => Len(OfVariable(var)) = 2 /\ OfVariable(var)[1] = one
  <2> HIDE DEF one, two
  <2> QED
    BY <1>1, <1>2
<1> QED
  BY <1>3

LEMMA LearnedType ==
  ASSUME NEW place \in Anywhere, NEW dir \in ToolDir
  PROVE  LearnedOf(place, dir) \in Seq(Dirs)
<1>1. <<place, dir, "skills/omc-learned">> \in Dirs
  BY DirIs DEF Leaf
<1> QED
  BY <1>1 DEF LearnedOf

LEMMA ClaudeType == ClaudeConfigRoots \in Seq(Dirs)
<1> DEFINE one == << <<"CLAUDE_CONFIG_DIR", "", "skills">> >>
<1> DEFINE two == LearnedOf("CLAUDE_CONFIG_DIR", "")
<1> DEFINE three == << <<"CLAUDE_CONFIG_DIR", "", "commands">> >>
<1>1. one \in Seq(Dirs) /\ two \in Seq(Dirs) /\ three \in Seq(Dirs)
  <2>1. <<"CLAUDE_CONFIG_DIR", "", "skills">> \in Dirs /\ <<"CLAUDE_CONFIG_DIR", "", "commands">> \in Dirs
    BY DirIs DEF Anywhere, ToolDir, Leaf
  <2>2. LearnedOf("CLAUDE_CONFIG_DIR", "") \in Seq(Dirs)
    BY LearnedType DEF Anywhere, ToolDir
  <2>3. \A d \in Dirs : <<d>> \in Seq(Dirs)
    OBVIOUS
  <2> QED
    BY <2>1, <2>2, <2>3
<1>2. ClaudeConfigRoots = IF "CLAUDE_CONFIG_DIR" \in Env THEN one \o two \o three ELSE <<>>
  BY DEF ClaudeConfigRoots
<1> HIDE DEF one, two, three
<1> QED
  BY <1>1, <1>2

LEMMA ProjectTypes ==
  ASSUME NEW i \in DOMAIN Ancestors
  PROVE  /\ ProjectRoots[Ancestors[i]] \in Seq(Dirs) /\ Len(ProjectRoots[Ancestors[i]]) = 8
         /\ LookupProjectRoots[Ancestors[i]] \in Seq(Dirs) /\ Len(LookupProjectRoots[Ancestors[i]]) = 10
<1> DEFINE a == Ancestors[i]
<1> DEFINE five == <<".claw", ".omc", ".agents", ".codex", ".claude">>
<1> DEFINE three == <<".claw", ".codex", ".claude">>
<1> DEFINE order == <<".omc", ".agents", ".claw", ".codex", ".claude">>
<1>1. a \in ToSet(Ancestors) /\ a \in Anywhere
  BY DEF ToSet, Anywhere
<1>2. /\ five \in Seq(ToolDir) /\ Len(five) = 5 /\ three \in Seq(ToolDir) /\ Len(three) = 3
      /\ order \in Seq(ToolDir) /\ Len(order) = 5
  BY DEF ToolDir
<1>3. "skills" \in Leaf /\ "commands" \in Leaf
  BY DEF Leaf
<1>4. ProjectRoots[a] = Leaves(a, five, "skills") \o Leaves(a, three, "commands")
  BY <1>1 DEF ProjectRoots
<1>5. LookupProjectRoots[a] = Prefixed(a, order)
  BY <1>1 DEF LookupProjectRoots
<1> HIDE DEF a, five, three, order
<1>6. /\ Leaves(a, five, "skills") \in Seq(Dirs) /\ Len(Leaves(a, five, "skills")) = 5
      /\ Leaves(a, three, "commands") \in Seq(Dirs) /\ Len(Leaves(a, three, "commands")) = 3
  BY <1>1, <1>2, <1>3, LeavesType
<1>7. Prefixed(a, order) \in Seq(Dirs) /\ Len(Prefixed(a, order)) = 2 * Len(order)
  BY <1>1, <1>2, PrefixedType, Zenon
<1>8. 2 * Len(order) = 10
  BY <1>2
<1>9. LookupProjectRoots[a] \in Seq(Dirs) /\ Len(LookupProjectRoots[a]) = 10
  BY <1>5, <1>7, <1>8, Zenon
<1>10. PICK s, t : s = Leaves(a, five, "skills") /\ t = Leaves(a, three, "commands")
  OBVIOUS
<1>11. s \in Seq(Dirs) /\ t \in Seq(Dirs) /\ Len(s) = 5 /\ Len(t) = 3
  BY <1>6, <1>10, Zenon
<1>12. s \o t \in Seq(Dirs) /\ Len(s \o t) = 8
  <2>1. s \o t \in Seq(Dirs) /\ Len(s \o t) = Len(s) + Len(t)
    BY <1>11, ConcatProperties, Zenon
  <2>2. Len(s) + Len(t) = 8
    BY <1>11
  <2> QED
    BY <2>1, <2>2, Zenon
<1>13. ProjectRoots[a] \in Seq(Dirs) /\ Len(ProjectRoots[a]) = 8
  BY <1>4, <1>10, <1>12, Zenon
<1> QED
  BY <1>9, <1>13 DEF a

LEMMA HomeTypes == HomeRoots \in Seq(Dirs) /\ LookupHomeRoots \in Seq(Dirs)
<1> DEFINE L(dirs, leaf) == Leaves("home", dirs, leaf)
<1> DEFINE four == <<".omc", ".claw", ".codex", ".claude">>
<1>1. "home" \in Anywhere /\ "skills" \in Leaf /\ "commands" \in Leaf
  BY DEF Anywhere, Leaf
<1>2. /\ <<".claw", ".omc">> \in Seq(ToolDir) /\ <<".claw">> \in Seq(ToolDir) /\ <<".codex">> \in Seq(ToolDir)
      /\ <<".claude">> \in Seq(ToolDir) /\ <<".agents", ".config/opencode">> \in Seq(ToolDir) /\ four \in Seq(ToolDir)
      /\ ".claude" \in ToolDir
  BY DEF ToolDir
<1>3. /\ L(<<".claw", ".omc">>, "skills") \in Seq(Dirs) /\ L(<<".claw">>, "commands") \in Seq(Dirs)
      /\ L(<<".codex">>, "skills") \in Seq(Dirs) /\ L(<<".codex">>, "commands") \in Seq(Dirs)
      /\ L(<<".claude">>, "skills") \in Seq(Dirs) /\ L(<<".claude">>, "commands") \in Seq(Dirs)
      /\ L(<<".agents", ".config/opencode">>, "skills") \in Seq(Dirs)
  BY <1>1, <1>2, LeavesType
<1>4. LearnedOf("home", ".claude") \in Seq(Dirs) /\ Prefixed("home", four) \in Seq(Dirs)
  BY <1>1, <1>2, LearnedType, PrefixedType
<1>5. HomeRoots = L(<<".claw", ".omc">>, "skills") \o L(<<".claw">>, "commands") \o L(<<".codex">>, "skills")
                  \o L(<<".codex">>, "commands") \o L(<<".claude">>, "skills") \o LearnedOf("home", ".claude")
                  \o L(<<".claude">>, "commands")
  BY DEF HomeRoots
<1>6. LookupHomeRoots = Prefixed("home", four) \o L(<<".agents", ".config/opencode">>, "skills")
                        \o LearnedOf("home", ".claude")
  BY DEF LookupHomeRoots
<1> HIDE DEF L, four
<1> QED
  BY <1>3, <1>4, <1>5, <1>6

LEMMA VariableTypes == OfVariable("CLAW_CONFIG_HOME") \in Seq(Dirs) /\ OfVariable("CODEX_HOME") \in Seq(Dirs)
<1>1. "CLAW_CONFIG_HOME" \in Anywhere /\ "CODEX_HOME" \in Anywhere
  BY DEF Anywhere
<1> QED
  BY <1>1, OfVariableType

LEMMA EachTypes ==
  Each(ProjectRoots, 8, Ancestors) \in Seq(Dirs) /\ Each(LookupProjectRoots, 10, Ancestors) \in Seq(Dirs)
<1>1. Ancestors \in Seq(ToSet(Ancestors))
  BY OrdersAssumption
<1>2. Each(ProjectRoots, 8, Ancestors) \in Seq(Dirs)
  BY <1>1, ProjectTypes, EachType
<1>3. Each(LookupProjectRoots, 10, Ancestors) \in Seq(Dirs)
  BY <1>1, ProjectTypes, EachType
<1> QED
  BY <1>2, <1>3

LEMMA ListTypes == DiscoverSkillRoots \in Seq(Dirs) /\ SkillLookupRoots \in Seq(Dirs)
BY EachTypes, VariableTypes, HomeTypes, ClaudeType DEF DiscoverSkillRoots, SkillLookupRoots

Lists(roots, root) == \E i \in DOMAIN roots : roots[i] = root
LEMMA ListsEither ==
  ASSUME NEW S, NEW s \in Seq(S), NEW t \in Seq(S), NEW root, Lists(s, root) \/ Lists(t, root)
  PROVE  Lists(s \o t, root)
<1>1. CASE Lists(s, root)
  <2>1. PICK i \in DOMAIN s : s[i] = root
    BY <1>1 DEF Lists
  <2>2. i \in DOMAIN (s \o t) /\ (s \o t)[i] = root
    BY <2>1
  <2> QED
    BY <2>2 DEF Lists
<1>2. CASE Lists(t, root)
  <2>1. PICK i \in DOMAIN t : t[i] = root
    BY <1>2 DEF Lists
  <2>2. i + Len(s) \in DOMAIN (s \o t) /\ (s \o t)[i + Len(s)] = root
    BY <2>1
  <2> QED
    BY <2>2 DEF Lists
<1> QED
  BY <1>1, <1>2

\* The directory that skills are installed in is among those of the Skill tool.
LEMMA InstallRootListed == InstallRoot \in Dirs /\ Lists(SkillLookupRoots, InstallRoot)
<1> DEFINE each == Each(LookupProjectRoots, 10, Ancestors)
<1> DEFINE claw == OfVariable("CLAW_CONFIG_HOME")
<1> DEFINE codex == OfVariable("CODEX_HOME")
<1>1. "CLAW_CONFIG_HOME" \in Anywhere /\ "CODEX_HOME" \in Anywhere /\ "home" \in Anywhere
  BY DEF Anywhere
<1>2. "" \in ToolDir /\ ".claw" \in ToolDir /\ "skills" \in Leaf
  BY DEF ToolDir, Leaf
<1>3. InstallRoot \in Dirs
  BY <1>1, <1>2, DirIs DEF InstallRoot
<1>4. SkillLookupRoots = (((each \o claw) \o codex) \o LookupHomeRoots) \o ClaudeConfigRoots
  BY DEF SkillLookupRoots
<1>5. ASSUME NEW var \in Anywhere, var \in Env PROVE Lists(OfVariable(var), <<var, "", "skills">>)
  <2>1. PICK f : f = OfVariable(var) /\ f \in Seq(Dirs) /\ Len(f) = 2 /\ f[1] = <<var, "", "skills">>
    BY <1>5, OfVariableType, Zenon
  <2>2. f \in Seq(Dirs) /\ Len(f) = 2
    BY <2>1, Zenon
  <2>3. 1 \in DOMAIN f
    BY <2>2
  <2> QED
    BY <2>1, <2>3, Zenon DEF Lists
<1>6. /\ "CLAW_CONFIG_HOME" \in Env => Lists(claw, InstallRoot)
      /\ "CLAW_CONFIG_HOME" \notin Env /\ "CODEX_HOME" \in Env => Lists(codex, InstallRoot)
  BY <1>1, <1>5, Zenon DEF InstallRoot
<1>7. "CLAW_CONFIG_HOME" \notin Env /\ "CODEX_HOME" \notin Env => Lists(LookupHomeRoots, InstallRoot)
  <2> DEFINE four == <<".omc", ".claw", ".codex", ".claude">>
  <2> DEFINE rest == Leaves("home", <<".agents", ".config/opencode">>, "skills") \o LearnedOf("home", ".claude")
  <2>1. four \in Seq(ToolDir) /\ Len(four) = 4 /\ four[2] = ".claw"
    BY DEF ToolDir
  <2>2. <<".agents", ".config/opencode">> \in Seq(ToolDir) /\ ".claude" \in ToolDir
    BY DEF ToolDir
  <2>3. /\ Leaves("home", <<".agents", ".config/opencode">>, "skills") \in Seq(Dirs)
        /\ LearnedOf("home", ".claude") \in Seq(Dirs)
    BY <1>1, <1>2, <2>2, LeavesType, LearnedType
  <2>4. LookupHomeRoots = Prefixed("home", four) \o Leaves("home", <<".agents", ".config/opencode">>, "skills")
                          \o LearnedOf("home", ".claude")
    BY DEF LookupHomeRoots
  <2> HIDE DEF four
  <2>5. /\ Prefixed("home", four) \in Seq(Dirs) /\ Len(Prefixed("home", four)) = 8
        /\ Prefixed("home", four)[3] = <<"home", ".claw", "skills">>
    <3>1. 2 \in 1..Len(four)
      BY <2>1
    <3>2. Prefixed("home", four)[2 * 2 - 1] = <<"home", four[2], "skills">>
      BY <1>1, <2>1, <3>1, PrefixedType
    <3>3. Prefixed("home", four) \in Seq(Dirs) /\ Len(Prefixed("home", four)) = 2 * Len(four)
      BY <1>1, <2>1, PrefixedType, Zenon
    <3>4. 2 * Len(four) = 8 /\ 2 * 2 - 1 = 3
      BY <2>1
    <3> QED
      BY <2>1, <3>2, <3>3, <3>4
  <2>6. Lists(Prefixed("home", four), <<"home", ".claw", "skills">>)
    <3>1. 3 \in DOMAIN Prefixed("home", four)
      BY <2>5
    <3> QED
      BY <2>5, <3>1, Zenon DEF Lists
  <2>7. Lists(LookupHomeRoots, <<"home", ".claw", "skills">>)
    <3>1. Lists(Prefixed("home", four) \o Leaves("home", <<".agents", ".config/opencode">>, "skills"),
                <<"home", ".claw", "skills">>)
      BY <2>3, <2>5, <2>6, ListsEither
    <3>2. Prefixed("home", four) \o Leaves("home", <<".agents", ".config/opencode">>, "skills") \in Seq(Dirs)
      BY <2>3, <2>5
    <3> QED
      BY <2>3, <2>4, <3>1, <3>2, ListsEither
  <2> QED
    BY <2>7 DEF InstallRoot
<1>8. /\ each \in Seq(Dirs) /\ claw \in Seq(Dirs) /\ codex \in Seq(Dirs)
      /\ LookupHomeRoots \in Seq(Dirs) /\ ClaudeConfigRoots \in Seq(Dirs)
  BY EachTypes, VariableTypes, HomeTypes, ClaudeType
<1> HIDE DEF each, claw, codex
<1>9. each \o claw \in Seq(Dirs) /\ (each \o claw) \o codex \in Seq(Dirs)
      /\ ((each \o claw) \o codex) \o LookupHomeRoots \in Seq(Dirs)
  BY <1>8
<1>10. Lists(claw, InstallRoot) => Lists(each \o claw, InstallRoot)
  BY <1>8, ListsEither
<1>11. Lists(each \o claw, InstallRoot) \/ Lists(codex, InstallRoot) => Lists((each \o claw) \o codex, InstallRoot)
  BY <1>8, <1>9, ListsEither
<1>12. Lists((each \o claw) \o codex, InstallRoot) \/ Lists(LookupHomeRoots, InstallRoot)
         => Lists(((each \o claw) \o codex) \o LookupHomeRoots, InstallRoot)
  BY <1>8, <1>9, ListsEither
<1>13. Lists(((each \o claw) \o codex) \o LookupHomeRoots, InstallRoot) => Lists(SkillLookupRoots, InstallRoot)
  BY <1>4, <1>8, <1>9, ListsEither
<1> QED
  BY <1>3, <1>5, <1>6, <1>7, <1>10, <1>11, <1>12, <1>13

LEMMA FirstIs ==
  ASSUME NEW roots \in Seq(Dirs), NEW dirs
  PROVE  \/ First(roots, dirs) = None /\ \A i \in DOMAIN roots : roots[i] \notin dirs
         \/ \E i \in DOMAIN roots : /\ First(roots, dirs) = roots[i] /\ roots[i] \in dirs /\ roots[i] # None
                                    /\ \A j \in DOMAIN roots : j < i => roots[j] \notin dirs
<1> DEFINE at == {i \in DOMAIN roots : roots[i] \in dirs}
<1>1. First(roots, dirs) = IF at = {} THEN None ELSE roots[Min(at)]
  BY DEF First
<1>2. CASE at = {}
  BY <1>1, <1>2
<1>3. CASE at # {}
  <2>1. at \subseteq Nat
    OBVIOUS
  <2> HIDE DEF at
  <2>2. PICK i : i = Min(at) /\ i \in at /\ \A j \in at : i <= j
    BY <1>3, <2>1, LeastOf
  <2> USE DEF at
  <2>3. i \in DOMAIN roots /\ i \in Nat /\ roots[i] \in dirs
    BY <2>2
  <2>4. ASSUME NEW j \in DOMAIN roots, j < i PROVE roots[j] \notin dirs
    <3>1. j \in Nat /\ ~(i <= j)
      BY <2>3, <2>4
    <3> QED
      BY <2>2, <3>1, Zenon
  <2>5. roots[i] # None
    <3>1. roots[i] \in Dirs
      BY <2>3
    <3>2. \A d \in Dirs : Len(d) = 3
      BY DEF Dirs
    <3>3. Len(None) = 0
      BY DEF None
    <3> QED
      BY <3>1, <3>2, <3>3
  <2> QED
    BY <1>1, <1>3, <2>2, <2>3, <2>4, <2>5
<1> QED
  BY <1>2, <1>3
-----------------------------------------------------------------------------
(* Names and the order of entries.                                         *)

NamedDisk == \A root \in DOMAIN disk : \A e \in disk[root] : Named(e)

LEMMA PlaceIs ==
  ASSUME NEW n \in Names
  PROVE  Place(n) \in Nat /\ ByteOrder[Place(n)] = n
<1>1. PICK i \in DOMAIN ByteOrder : ByteOrder[i] = n
  BY DEF Names, ToSet
<1>2. Place(n) \in DOMAIN ByteOrder /\ ByteOrder[Place(n)] = n
  BY <1>1, Zenon DEF Place
<1>3. DOMAIN ByteOrder \subseteq Nat
  BY OrdersAssumption
<1> QED
  BY <1>2, <1>3

LEMMA NameIs ==
  ASSUME NEW root, NEW e, Named(e)
  PROVE  Name(root, e) \in Names /\ e.entry \in Names
BY NamesAssumption, Zenon DEF Name, Named

LEMMA EarliestIs ==
  ASSUME NEW root, NEW E, E # {}, \A e \in E : Named(e)
  PROVE  Earliest(root, E) \in E /\ \A other \in E : ~Before(root, other, Earliest(root, E))
<1> DEFINE P(e) == Place(Name(root, e))
<1> DEFINE Q(e) == Place(e.entry)
<1>1. \A e \in E : P(e) \in Nat /\ Q(e) \in Nat
  BY NameIs, PlaceIs
<1>2. \A e, f \in E : Name(root, e) = Name(root, f) => P(e) = P(f)
  OBVIOUS
<1>3. \A e, f \in E : Before(root, e, f) => P(e) < P(f) \/ (P(e) = P(f) /\ Q(e) < Q(f))
  BY <1>2 DEF Before
<1> HIDE DEF P, Q
<1> DEFINE S == {P(e) : e \in E}
<1>4. PICK p : p = Min(S) /\ p \in S /\ \A y \in S : p <= y
  <2>1. S # {} /\ S \subseteq Nat
    BY <1>1
  <2> HIDE DEF S
  <2> QED
    BY <2>1, LeastOf
<1> DEFINE T == {Q(e) : e \in {f \in E : P(f) = p}}
<1>5. PICK q : q = Min(T) /\ q \in T /\ \A y \in T : q <= y
  <2>1. T # {} /\ T \subseteq Nat
    BY <1>1, <1>4
  <2> HIDE DEF T
  <2> QED
    BY <2>1, LeastOf
<1>6. PICK e \in E : P(e) = p /\ Q(e) = q
  BY <1>5
<1>7. ASSUME NEW f \in E PROVE ~Before(root, f, e)
  <2>1. P(f) \in Nat /\ Q(f) \in Nat /\ P(e) \in Nat /\ Q(e) \in Nat
    BY <1>1
  <2>2. P(e) <= P(f)
    BY <1>4, <1>6
  <2>3. P(f) = P(e) => Q(e) <= Q(f)
    BY <1>5, <1>6
  <2> QED
    BY <1>3, <2>1, <2>2, <2>3
<1> QED
  BY <1>7, Zenon DEF Earliest

LEMMA EarliestOnly ==
  ASSUME NEW root, NEW e, NEW f, Named(e), Named(f), ~Before(root, e, f), ~Before(root, f, e)
  PROVE  e.entry = f.entry
<1>1. /\ Name(root, e) \in Names /\ Name(root, f) \in Names
      /\ e.entry \in Names /\ f.entry \in Names
  BY NameIs
<1>2. /\ Place(Name(root, e)) \in Nat /\ Place(Name(root, f)) \in Nat
      /\ Place(e.entry) \in Nat /\ Place(f.entry) \in Nat
  BY <1>1, PlaceIs
<1>3. Place(Name(root, e)) = Place(Name(root, f))
  BY <1>2 DEF Before
<1>4. Name(root, e) = Name(root, f)
  BY <1>1, <1>3, PlaceIs, Zenon
<1>5. Place(e.entry) = Place(f.entry)
  BY <1>2, <1>4 DEF Before
<1> QED
  BY <1>1, <1>5, PlaceIs, Zenon
-----------------------------------------------------------------------------
(* What is listed as active is what runs.                                  *)

LEMMA ListedRuns ==
  ASSUME NamedDisk, LoadSkills.ok, NEW s \in LoadSkills.active
  PROVE  ResolveSkillPath(s.name) = s.path /\ ToolRuns(s.name) = {s.path}
<1> DEFINE roots == DiscoverSkillRoots
<1> DEFINE read == {i \in DOMAIN roots : roots[i] \in DOMAIN disk}
<1> DEFINE Shadowed(j, y) == \E i \in read : \E x \in Prompts(roots[i]) :
                                /\ i < j \/ (i = j /\ Before(roots[i], x, y))
                                /\ SameName(Name(roots[i], x), Name(roots[j], y))
<1> DEFINE Active(j) == {y \in Prompts(roots[j]) : ~Shadowed(j, y)}
<1>1. LoadSkills = [ok |-> \A i \in read : AllReadable(roots[i]),
                    active |-> UNION {{[name |-> Name(roots[j], y), path |-> <<roots[j], y.entry>>] : y \in Active(j)} : j \in read}]
  BY DEF LoadSkills
<1>2. \A i \in read : AllReadable(roots[i])
  BY <1>1
<1>0. PICK j \in read : s \in {[name |-> Name(roots[j], y), path |-> <<roots[j], y.entry>>] : y \in Active(j)}
  BY <1>1
<1>3. PICK y \in Prompts(roots[j]) :
         ~Shadowed(j, y) /\ s = [name |-> Name(roots[j], y), path |-> <<roots[j], y.entry>>]
  BY <1>0
<1> DEFINE n == Name(roots[j], y)
<1> DEFINE dirs == {r \in DOMAIN disk : ~AllReadable(r) \/ Called(r, n) # {}}
<1>4. roots \in Seq(Dirs)
  BY ListTypes
<1>5. y \in Called(roots[j], n)
  BY <1>3 DEF Called, SameName
<1>6. j \in DOMAIN roots /\ roots[j] \in dirs
  BY <1>3, <1>5
<1>7. PICK i \in DOMAIN roots : /\ First(roots, dirs) = roots[i] /\ roots[i] \in dirs /\ roots[i] # None
                                /\ \A k \in DOMAIN roots : k < i => roots[k] \notin dirs
  <2> HIDE DEF roots, dirs
  <2> QED
    BY <1>4, <1>6, FirstIs, Zenon
<1>8. i \in read /\ AllReadable(roots[i])
  BY <1>2, <1>7
<1>9. PICK x \in Prompts(roots[i]) : SameName(Name(roots[i], x), n)
  BY <1>7, <1>8 DEF Called
<1>10. i = j
  <2>1. i \in Nat /\ j \in Nat
    BY <1>4, <1>6, <1>7
  <2>2. ~(j < i)
    BY <1>6, <1>7
  <2>3. ~(i < j)
    BY <1>3, <1>8, <1>9
  <2> QED
    BY <2>1, <2>2, <2>3
<1> DEFINE r == roots[j]
<1> DEFINE c == Called(r, n)
<1>11. c \subseteq Prompts(r) /\ Prompts(r) \subseteq disk[r] /\ r \in DOMAIN disk
  BY <1>3 DEF Called, Prompts
<1>12. \A e \in c : Named(e)
  BY <1>11 DEF NamedDisk
<1>13. PICK e : e = Earliest(r, c) /\ e \in c /\ \A other \in c : ~Before(r, other, e)
  <2>1. c # {}
    BY <1>5
  <2> HIDE DEF c, r
  <2> QED
    BY <1>12, <2>1, EarliestIs, Zenon
<1>14. ~Before(r, e, y)
  BY <1>3, <1>13 DEF Called
<1>15. e.entry = y.entry
  <2>1. ~Before(r, y, e)
    BY <1>5, <1>13
  <2> HIDE DEF c, r
  <2> QED
    BY <1>5, <1>12, <1>13, <1>14, <2>1, EarliestOnly DEF c, r
<1>16. ResolveSkillPath(n) = <<r, e.entry>>
  BY <1>7, <1>8, <1>10, <1>13 DEF ResolveSkillPath
<1>17. ResolveSkillPath(s.name) = s.path
  BY <1>3, <1>15, <1>16
<1>18. s.path # None
  BY <1>3 DEF None
<1> QED
  BY <1>17, <1>18 DEF ToolRuns

LEMMA CalledAnswers ==
  ASSUME NEW root, NEW name, NEW e \in Called(root, name), e.readable
  PROVE  Answers(root, e, name)
BY Zenon DEF Called, Name, Answers, SameName

Usable(name) == \E e \in At(name) : e.state = "whole" /\ e.dir

\* What an installation leaves is found by the tool, and by no other name.
LEMMA UsableRuns ==
  ASSUME NamedDisk, NEW name, Usable(name)
  PROVE  /\ ToolRuns(name) # {}
         /\ (\A root \in DOMAIN disk : \A e \in disk[root] :
                Answers(root, e, name) => root = InstallRoot /\ e.entry = name)
               => ToolRuns(name) = {<<InstallRoot, name>>}
<1> DEFINE dirs == {r \in DOMAIN disk : InRoot(r, name) # {}}
<1> DEFINE roots == SkillLookupRoots
<1>1. InstallRoot \in dirs
  <2>1. PICK e \in At(name) : e.state = "whole" /\ e.dir
    BY DEF Usable
  <2>2. InstallRoot \in DOMAIN disk /\ e \in disk[InstallRoot] /\ e.entry = name
    BY <2>1 DEF At, Installed
  <2>3. e \in Prompts(InstallRoot)
    BY <2>1, <2>2 DEF Prompts
  <2>4. Direct(InstallRoot, name) # {}
    BY <2>2, <2>3 DEF Direct
  <2> QED
    BY <2>2, <2>4 DEF InRoot
<1>2. PICK i \in DOMAIN roots : First(roots, dirs) = roots[i] /\ roots[i] \in dirs /\ roots[i] # None
  <2>1. PICK k \in DOMAIN roots : roots[k] = InstallRoot
    BY InstallRootListed DEF Lists
  <2>2. roots \in Seq(Dirs)
    BY ListTypes
  <2> HIDE DEF roots, dirs
  <2> QED
    BY <1>1, <2>1, <2>2, FirstIs, Zenon
<1>3. FromCompatRoots(name) = {<<roots[i], e.entry>> : e \in InRoot(roots[i], name)}
  BY <1>2 DEF FromCompatRoots
<1>4. FromCompatRoots(name) # {}
  BY <1>2, <1>3
<1>5. ToolRuns(name) # {}
  BY <1>4 DEF ToolRuns
<1>6. ASSUME \A root \in DOMAIN disk : \A e \in disk[root] :
                Answers(root, e, name) => root = InstallRoot /\ e.entry = name
      PROVE  ToolRuns(name) = {<<InstallRoot, name>>}
  <2>1. FromCompatRoots(name) = {<<InstallRoot, name>>}
    <3>1. roots[i] \in DOMAIN disk /\ InRoot(roots[i], name) # {}
      BY <1>2
    <3>2. ASSUME NEW e \in InRoot(roots[i], name) PROVE roots[i] = InstallRoot /\ e.entry = name
      <4>1. e \in Prompts(roots[i]) /\ (e.entry = name \/ Answers(roots[i], e, name))
        BY <3>2 DEF InRoot, Direct
      <4>2. e \in disk[roots[i]]
        BY <4>1 DEF Prompts
      <4>3. Answers(roots[i], e, name)
        BY <4>1 DEF Answers, SameName
      <4> QED
        BY <1>6, <3>1, <4>2, <4>3
    <3> HIDE DEF roots
    <3> QED
      BY <1>3, <3>1, <3>2
  <2> DEFINE stops == {r \in DOMAIN disk : ~AllReadable(r) \/ Called(r, name) # {}}
  <2> DEFINE root == First(DiscoverSkillRoots, stops)
  <2>2. ResolveSkillPath(name) = IF root = None \/ ~AllReadable(root) THEN None
                                 ELSE <<root, Earliest(root, Called(root, name)).entry>>
    BY DEF ResolveSkillPath
  <2>3. CASE root = None \/ ~AllReadable(root)
    BY <2>1, <2>2, <2>3 DEF ToolRuns
  <2>4. CASE ~(root = None \/ ~AllReadable(root))
    <3>1. root \in stops
      <4>1. DiscoverSkillRoots \in Seq(Dirs)
        BY ListTypes
      <4> HIDE DEF stops
      <4>2. First(DiscoverSkillRoots, stops) = None \/ First(DiscoverSkillRoots, stops) \in stops
        <5>1. ASSUME NEW listed, listed \in Seq(Dirs)
              PROVE  First(listed, stops) = None \/ First(listed, stops) \in stops
          BY <5>1, FirstIs
        <5> QED
          BY <4>1, <5>1
      <4> QED
        BY <2>4, <4>2
    <3>2. root \in DOMAIN disk /\ AllReadable(root) /\ Called(root, name) # {}
      BY <2>4, <3>1
    <3> HIDE DEF root
    <3>3. Called(root, name) \subseteq Prompts(root) /\ Prompts(root) \subseteq disk[root]
      BY DEF Called, Prompts
    <3>4. PICK e : e = Earliest(root, Called(root, name)) /\ e \in Called(root, name)
      <4>1. \A x \in Called(root, name) : Named(x)
        BY <3>2, <3>3 DEF NamedDisk
      <4> QED
        BY <3>2, <4>1, EarliestIs
    <3>5. e.readable
      BY <3>2, <3>3, <3>4 DEF AllReadable
    <3>6. Answers(root, e, name)
      BY <3>4, <3>5, CalledAnswers
    <3>7. root = InstallRoot /\ e.entry = name
      BY <1>6, <3>2, <3>3, <3>4, <3>6
    <3>8. ResolveSkillPath(name) = <<InstallRoot, name>>
      BY <2>2, <2>4, <3>4, <3>7
    <3>9. <<InstallRoot, name>> # None
      BY DEF None
    <3> QED
      BY <3>8, <3>9 DEF ToolRuns
  <2> QED
    BY <2>3, <2>4
<1> QED
  BY <1>5, <1>6
-----------------------------------------------------------------------------
(***************************************************************************)
(* Skills that are installed (Skills), for any installers, names and       *)
(* directories: two processes install under one name only when one of them *)
(* started while the other was under way, which is what contended records; *)
(* so nobody is at a name that was reported and is not contended, and the  *)
(* whole directory of that name stays.                                     *)
(***************************************************************************)
InstallNames == {InstallName(s) : s \in SkillSource} \cup {"none"}
Installation == [pc : {"idle", "create", "copy", "undo"}, source : SkillSource \cup {None}, name : InstallNames]
Together(p, q) == install[p].pc # "idle" /\ install[q].pc # "idle" /\ install[p].name = install[q].name
InstalledUsable == \A name \in told \ contended : Usable(name)
InstallInv ==
    /\ install \in [Installer -> Installation]
    /\ \A p, q \in Installer : p # q /\ Together(p, q) => install[p].name \in contended
    /\ \A name \in told \ contended : \A p \in Installer : install[p].pc # "idle" => install[p].name # name
    /\ InstalledUsable

LEMMA InstallStart == SkillsInit => InstallInv
<1> SUFFICES ASSUME SkillsInit PROVE InstallInv
    OBVIOUS
<1>1. NoInstall \in Installation
    BY DEF NoInstall, Installation, InstallNames
<1> QED
    BY <1>1 DEF SkillsInit, InstallInv, Together, InstalledUsable, NoInstall

LEMMA InstallStep == InstallInv /\ [SkillsNext]_skillVars => InstallInv'
<1> SUFFICES ASSUME InstallInv, [SkillsNext]_skillVars PROVE InstallInv'
    OBVIOUS
<1>0. NoInstall \in Installation /\ NoInstall.pc = "idle"
    BY DEF NoInstall, Installation, InstallNames
<1> USE DEF InstallInv
<1>1. ASSUME NEW p \in Installer, NEW source \in SkillSource, StartInstall(p, source) PROVE InstallInv'
  <2> DEFINE n == InstallName(source)
  <2>1. /\ install[p].pc = "idle" /\ At(n) = {}
        /\ install' = [install EXCEPT ![p] = [pc |-> "create", source |-> source, name |-> n]]
        /\ contended' = contended \cup {install[q].name : q \in {r \in Installer : install[r].name = n}}
        /\ UNCHANGED <<disk, told>>
    BY <1>1 DEF StartInstall
  <2>2. n \in InstallNames
    BY DEF InstallNames
  <2>3. install' \in [Installer -> Installation]
    BY <2>1, <2>2 DEF Installation
  <2> HIDE DEF n
  <2>4. \A q \in Installer : q # p => install'[q] = install[q]
    BY <2>1
  <2>5. install'[p].pc = "create" /\ install'[p].name = n
    BY <2>1
  <2>6. \A q \in Installer : install[q].name = n => n \in contended'
    BY <2>1
  <2>7. contended \subseteq contended'
    BY <2>1
  <2>8. InstalledUsable'
    BY <2>1, <2>7 DEF InstalledUsable, Usable, At, Installed, InstallRoot
  <2>9. n \notin told' \ contended'
    BY <2>1, <2>7 DEF InstalledUsable, Usable
  <2>10. ASSUME NEW q \in Installer, NEW r \in Installer, q # r, Together(q, r)' PROVE install'[q].name \in contended'
    BY <2>10, <2>4, <2>5, <2>6, <2>7 DEF Together
  <2>11. ASSUME NEW name \in told' \ contended', NEW q \in Installer, install'[q].pc # "idle"
         PROVE install'[q].name # name
    BY <2>11, <2>1, <2>4, <2>5, <2>7, <2>9
  <2> QED
    BY <2>3, <2>8, <2>10, <2>11
<1>2. ASSUME NEW p \in Installer, install[p].pc # "idle", NEW n, n = install[p].name,
             \/ install' = [install EXCEPT ![p] = NoInstall]
             \/ \E pc \in {"copy", "undo"} : Goto(p, pc),
             UNCHANGED contended, told' \subseteq told \cup {n},
             \A name \in told' \ contended' : name # n => At(name) \subseteq At(name)',
             told' # told => /\ install'[p].pc = "idle"
                             /\ \E e \in At(n)' : e.state = "whole" /\ e.dir
      PROVE  InstallInv'
  <2>1. \A q \in Installer : q # p => install'[q] = install[q]
    BY <1>2 DEF Goto
  <2>2. install' \in [Installer -> Installation]
    BY <1>2, <1>0 DEF Goto, Installation
  <2>3. install'[p].pc # "idle" => install'[p].name = n
    BY <1>2, <1>0 DEF Goto, Installation
  <2>4. n \notin told \ contended
    BY <1>2
  <2>5. ASSUME NEW q \in Installer, NEW r \in Installer, q # r, Together(q, r)' PROVE install'[q].name \in contended'
    <3>1. Together(q, r) /\ install'[q].name = install[q].name
      BY <2>5, <2>1, <2>3, <1>2 DEF Together
    <3> QED
      BY <3>1, <2>5, <1>2
  <2>6. ASSUME NEW name \in told' \ contended', NEW q \in Installer, install'[q].pc # "idle"
        PROVE  install'[q].name # name
    <3>1. CASE name \in told
      BY <3>1, <2>6, <2>1, <2>3, <1>2
    <3>2. CASE name \notin told
      <4>1. name = n /\ install'[p].pc = "idle"
        BY <3>2, <1>2, <2>6
      <4>2. q # p /\ install[q].pc # "idle" /\ install'[q].name = install[q].name
        BY <4>1, <2>6, <2>1
      <4>3. install[q].name = n => n \in contended
        BY <4>2, <1>2 DEF Together
      <4> QED
        BY <4>1, <4>2, <4>3, <2>6, <1>2
    <3> QED
      BY <3>1, <3>2
  <2>7. InstalledUsable'
    <3> SUFFICES ASSUME NEW name \in told' \ contended' PROVE \E e \in At(name)' : e.state = "whole" /\ e.dir
      BY DEF InstalledUsable, Usable
    <3>1. CASE name = n
      BY <3>1, <2>4, <1>2
    <3>2. CASE name # n
      <4>1. name \in told \ contended
        BY <3>2, <1>2
      <4>2. At(name) \subseteq At(name)'
        BY <3>2, <1>2
      <4> QED
        BY <4>1, <4>2 DEF InstalledUsable, Usable
    <3> QED
      BY <3>1, <3>2
  <2> QED
    BY <2>2, <2>5, <2>6, <2>7
<1>3. ASSUME NEW p \in Installer, CreateDir(p) PROVE InstallInv'
  <2>1. Installed \subseteq Installed'
    <3>1. CASE UNCHANGED disk
      BY <3>1 DEF Installed, InstallRoot
    <3>2. CASE BecomesInstalled(Installed \cup {[Skill(install[p].name, "none") EXCEPT !.state = "empty"]})
      BY <3>2 DEF Installed, InstallRoot, BecomesInstalled
    <3> QED
      BY <1>3, <3>1, <3>2 DEF CreateDir
  <2>2. \A name \in told' \ contended' : At(name) \subseteq At(name)'
    BY <2>1 DEF At
  <2> QED
    BY <1>2, <1>3, <2>2 DEF CreateDir
<1>4. ASSUME NEW p \in Installer, CopyFile(p) PROVE InstallInv'
  <2> DEFINE Put(n, state) ==
               (Installed \ At(n)) \cup {[Skill(n, install[p].source.name) EXCEPT !.state = state]}
  <2>1. PICK n : n = install[p].name
    OBVIOUS
  <2>2. ASSUME NEW state, BecomesInstalled(Put(n, state))
        PROVE  /\ \A name : name # n => At(name) \subseteq At(name)'
               /\ \E e \in At(n)' : e.state = state /\ e.dir
    <3>1. Installed' = Put(n, state)
      BY <2>2 DEF BecomesInstalled, Installed, InstallRoot
    <3> DEFINE e == [Skill(n, install[p].source.name) EXCEPT !.state = state]
    <3>2. e.entry = n /\ e.state = state /\ e.dir
      BY DEF Skill
    <3>3. e \in Put(n, state)
      OBVIOUS
    <3> HIDE DEF e
    <3>4. PICK f : f = e
      OBVIOUS
    <3>5. f \in At(n)' /\ f.state = state /\ f.dir
      BY <3>1, <3>2, <3>3, <3>4 DEF At
    <3>6. ASSUME NEW name, name # n PROVE At(name) \subseteq At(name)'
      BY <3>1, <3>6 DEF At
    <3> QED
      BY <3>5, <3>6
  <2>3. CASE BecomesInstalled(Put(n, "part")) /\ UNCHANGED <<install, told>>
    <3>1. n \notin told \ contended
      BY <1>4, <2>1 DEF CopyFile
    <3>2. InstalledUsable'
      BY <1>4, <2>2, <2>3, <3>1 DEF InstalledUsable, Usable, CopyFile
    <3> QED
      BY <1>4, <2>3, <3>2 DEF CopyFile, Together
  <2>4. CASE /\ BecomesInstalled(Put(n, "whole"))
             /\ install' = [install EXCEPT ![p] = NoInstall] /\ told' = told \cup {n}
    <3>1. install'[p].pc = "idle" /\ install[p].pc # "idle" /\ UNCHANGED contended
      BY <1>0, <1>4, <2>4 DEF CopyFile
    <3> QED
      BY <1>2, <2>1, <2>2, <2>4, <3>1
  <2> QED
    BY <1>4, <2>1, <2>3, <2>4 DEF CopyFile
<1>5. ASSUME NEW p \in Installer, CopyFails(p) PROVE InstallInv'
  <2>1. \A name \in told' \ contended' : At(name) \subseteq At(name)'
    BY <1>5 DEF CopyFails, At, Installed, InstallRoot
  <2> QED
    BY <1>2, <1>5, <2>1 DEF CopyFails
<1>6. ASSUME NEW p \in Installer, RemoveDir(p) PROVE InstallInv'
  <2>1. Installed' = Installed \ At(install[p].name)
    BY <1>6 DEF RemoveDir, BecomesInstalled, Installed, InstallRoot
  <2>2. \A name \in told' \ contended' : name # install[p].name => At(name) \subseteq At(name)'
    BY <2>1 DEF At
  <2> QED
    BY <1>2, <1>6, <2>2 DEF RemoveDir
<1>7. ASSUME NEW p \in Installer, Dies(p) PROVE InstallInv'
  <2>1. \A name \in told' \ contended' : At(name) \subseteq At(name)'
    BY <1>7 DEF Dies, At, Installed, InstallRoot
  <2> QED
    BY <1>2, <1>7, <2>1 DEF Dies
<1>8. CASE UNCHANGED skillVars
  BY <1>8 DEF skillVars, Together, InstalledUsable, Usable, At, Installed, InstallRoot
<1> QED
  BY <1>1, <1>3, <1>4, <1>5, <1>6, <1>7, <1>8 DEF SkillsNext
-----------------------------------------------------------------------------
\* Every name on disk and under way has its place in the order of names.
NamesInv == /\ NamedDisk
            /\ \A p \in Installer : install[p].pc # "idle" =>
                  install[p].name \in Names /\ install[p].source.name \in Names \cup {"none"}

LEMMA BecomesNamed ==
  ASSUME NamedDisk, NEW entries, \A e \in entries : Named(e), BecomesInstalled(entries)
  PROVE  NamedDisk'
BY DEF NamedDisk, BecomesInstalled, Named, Names

LEMMA InstalledNamed ==
  ASSUME NamedDisk
  PROVE  \A e \in Installed : Named(e)
BY DEF NamedDisk, Installed

LEMMA NamesStart == SkillsInit => NamesInv
<1> SUFFICES ASSUME SkillsInit PROVE NamesInv
    OBVIOUS
<1>1. NamedDisk
  BY NamesAssumption DEF SkillsInit, NamedDisk
<1> QED
  BY <1>1 DEF SkillsInit, NamesInv, NoInstall

LEMMA NamesStep == NamesInv /\ install \in [Installer -> Installation] /\ [SkillsNext]_skillVars => NamesInv'
<1> SUFFICES ASSUME NamesInv, install \in [Installer -> Installation], [SkillsNext]_skillVars PROVE NamesInv'
    OBVIOUS
<1> USE DEF NamesInv
<1>0. NoInstall.pc = "idle"
    BY DEF NoInstall
<1>1. UNCHANGED disk => NamedDisk'
  BY DEF NamedDisk
<1>2. ASSUME NEW p \in Installer, NEW source \in SkillSource, StartInstall(p, source) PROVE NamesInv'
  <2>1. InstallName(source) \in Names /\ source.name \in Names \cup {"none"}
    BY NamesAssumption
  <2>2. PICK n : n = InstallName(source)
    OBVIOUS
  <2>3. install' = [install EXCEPT ![p] = [pc |-> "create", source |-> source, name |-> n]] /\ UNCHANGED disk
    BY <1>2, <2>2 DEF StartInstall
  <2>4. ASSUME NEW q \in Installer, install'[q].pc # "idle"
        PROVE  install'[q].name \in Names /\ install'[q].source.name \in Names \cup {"none"}
    <3>1. CASE q = p
      <4>1. install'[q].name = n /\ install'[q].source = source
        BY <2>3, <3>1
      <4> QED
        BY <2>1, <2>2, <4>1
    <3>2. CASE q # p
      <4>1. install'[q] = install[q]
        BY <2>3, <3>2
      <4> QED
        BY <2>4, <4>1
    <3> QED
      BY <3>1, <3>2
  <2> QED
    BY <1>1, <2>3, <2>4 DEF Names
<1>3. ASSUME NEW p \in Installer, install[p].pc # "idle", NamedDisk',
             \/ UNCHANGED install
             \/ install' = [install EXCEPT ![p] = NoInstall]
             \/ \E pc \in {"copy", "undo"} : Goto(p, pc)
      PROVE  NamesInv'
  <2>1. ASSUME NEW q \in Installer, install'[q].pc # "idle"
        PROVE  install[q].pc # "idle" /\ install'[q].name = install[q].name /\ install'[q].source = install[q].source
    <3>1. CASE UNCHANGED install
      BY <2>1, <3>1
    <3>2. CASE install' = [install EXCEPT ![p] = NoInstall]
      BY <1>0, <2>1, <3>2
    <3>3. ASSUME NEW pc, Goto(p, pc)
          PROVE  install[q].pc # "idle" /\ install'[q].name = install[q].name /\ install'[q].source = install[q].source
      BY <1>3, <2>1, <3>3 DEF Goto, Installation
    <3> QED
      BY <1>3, <3>1, <3>2, <3>3
  <2> QED
    BY <1>3, <2>1 DEF Names
<1>4. ASSUME NEW p \in Installer, install[p].pc # "idle", NEW state, NEW name \in Names \cup {"none"},
             NEW kept, kept \subseteq Installed,
             BecomesInstalled(kept \cup {[Skill(install[p].name, name) EXCEPT !.state = state]})
      PROVE  NamedDisk'
  <2> DEFINE new == [Skill(install[p].name, name) EXCEPT !.state = state]
  <2>1. new.entry = install[p].name /\ new.name = name
    BY DEF Skill
  <2>2. Named(new)
    BY <1>4, <2>1 DEF Named
  <2> HIDE DEF new
  <2>3. \A e \in kept \cup {new} : Named(e)
    BY <1>4, <2>2, InstalledNamed
  <2>4. BecomesInstalled(kept \cup {new})
    BY <1>4 DEF new
  <2> QED
    BY <2>3, <2>4, BecomesNamed
<1>5. ASSUME NEW p \in Installer, CreateDir(p) PROVE NamesInv'
  <2>1. install[p].pc # "idle" /\ Goto(p, "copy")
    BY <1>5 DEF CreateDir
  <2>2. \/ UNCHANGED disk
        \/ BecomesInstalled(Installed \cup {[Skill(install[p].name, "none") EXCEPT !.state = "empty"]})
    BY <1>5 DEF CreateDir
  <2>3. NamedDisk'
    BY <1>1, <1>4, <2>1, <2>2
  <2> QED
    BY <1>3, <2>1, <2>3
<1>6. ASSUME NEW p \in Installer, CopyFile(p) PROVE NamesInv'
  <2>1. install[p].pc # "idle" /\ (UNCHANGED install \/ install' = [install EXCEPT ![p] = NoInstall])
    BY <1>6 DEF CopyFile
  <2>2. \E state : BecomesInstalled((Installed \ At(install[p].name))
                                    \cup {[Skill(install[p].name, install[p].source.name) EXCEPT !.state = state]})
    BY <1>6 DEF CopyFile
  <2>3. install[p].source.name \in Names \cup {"none"}
    BY <2>1
  <2>4. NamedDisk'
    <3>1. PICK state :
             BecomesInstalled((Installed \ At(install[p].name))
                              \cup {[Skill(install[p].name, install[p].source.name) EXCEPT !.state = state]})
      BY <2>2
    <3>2. (Installed \ At(install[p].name)) \subseteq Installed
      OBVIOUS
    <3> QED
      BY <1>4, <2>1, <2>3, <3>1, <3>2, Zenon
  <2> QED
    BY <1>3, <2>1, <2>4
<1>7. ASSUME NEW p \in Installer, CopyFails(p) PROVE NamesInv'
  BY <1>1, <1>3, <1>7 DEF CopyFails
<1>8. ASSUME NEW p \in Installer, RemoveDir(p) PROVE NamesInv'
  <2>1. install[p].pc # "idle" /\ install' = [install EXCEPT ![p] = NoInstall]
        /\ BecomesInstalled(Installed \ At(install[p].name))
    BY <1>8 DEF RemoveDir
  <2>2. \A e \in Installed \ At(install[p].name) : Named(e)
    BY InstalledNamed
  <2>3. NamedDisk'
    BY <2>1, <2>2, BecomesNamed
  <2> QED
    BY <1>3, <2>1, <2>3
<1>9. ASSUME NEW p \in Installer, Dies(p) PROVE NamesInv'
  BY <1>1, <1>3, <1>9 DEF Dies
<1>10. CASE UNCHANGED skillVars
  BY <1>1, <1>10 DEF skillVars, Names
<1> QED
  BY <1>2, <1>5, <1>6, <1>7, <1>8, <1>9, <1>10 DEF SkillsNext
-----------------------------------------------------------------------------
LEMMA SkillsMeet == NamesInv /\ InstallInv => SkillRunsAsListed
<1> SUFFICES ASSUME NamesInv, InstallInv PROVE SkillRunsAsListed
    OBVIOUS
<1>1. NamedDisk /\ InstalledUsable
  BY DEF NamesInv, InstallInv
<1>2. LoadSkills.ok => \A s \in LoadSkills.active :
         ResolveSkillPath(s.name) = s.path /\ ToolRuns(s.name) = {s.path}
  BY <1>1, ListedRuns
<1>3. InstalledWhole
  BY <1>1 DEF InstalledWhole, InstalledUsable, Usable
<1>4. ASSUME NEW name \in told \ contended
      PROVE  /\ ToolRuns(name) # {}
             /\ (\A root \in DOMAIN disk : \A e \in disk[root] :
                    Answers(root, e, name) => root = InstallRoot /\ e.entry = name)
                   => ToolRuns(name) = {<<InstallRoot, name>>}
  <2>1. Usable(name)
    BY <1>1 DEF InstalledUsable
  <2> QED
    BY <1>1, <2>1, UsableRuns
<1> QED
  BY <1>2, <1>3, <1>4, Zenon DEF SkillRunsAsListed

(***************************************************************************)
(* The skill that is listed as active is the one that runs, whether the    *)
(* user or the model asks for it, and a skill reported as installed is     *)
(* there in full and runs, however many directories there are, whatever    *)
(* they hold and wherever the installations of any processes break off.    *)
(***************************************************************************)
THEOREM SkillsRun == SkillsSpec => []SkillRunsAsListed
<1>1. SkillsInit => NamesInv /\ InstallInv
  BY NamesStart, InstallStart
<1>2. (NamesInv /\ InstallInv) /\ [SkillsNext]_skillVars => (NamesInv /\ InstallInv)'
  BY NamesStep, InstallStep DEF InstallInv
<1> QED
  BY <1>1, <1>2, SkillsMeet, PTL DEF SkillsSpec
-----------------------------------------------------------------------------
(***************************************************************************)
(* The command line.  The table of slash commands, its parser and the      *)
(* three that run what was parsed agree.                                   *)
(***************************************************************************)
LEMMA KnownIsListed == Known \subseteq SpecNames
<1>1. Bare \subseteq SpecNames
  BY DEF Bare, SpecNames, ResumeSupported, Groups, Specs, SessionSpecs, AccountSpecs, ViewSpecs, ControlSpecs,
         ModelSpecs, ProjectSpecs, CodeSpecs
<1>2. AnyArgs \subseteq SpecNames
  BY DEF AnyArgs, SpecNames, ResumeSupported, Groups, Specs, SessionSpecs, AccountSpecs, ViewSpecs, ControlSpecs,
         ModelSpecs, ProjectSpecs, CodeSpecs
<1>3. DOMAIN OneOf \cup {"teleport", "resume", "model", "history", "agents", "session", "mcp", "plugin"}
         \subseteq SpecNames
  BY DEF OneOf, SpecNames, ResumeSupported, Groups, Specs, SessionSpecs, AccountSpecs, ViewSpecs, ControlSpecs,
         ModelSpecs, ProjectSpecs, CodeSpecs
<1> QED
  BY <1>1, <1>2, <1>3 DEF Known

LEMMA ResumedIsListed ==
  ASSUME NEW command, RunsResumed(command)
  PROVE  RunsInRepl(command) /\ command.name \in ResumeSupported
<1>1. command.name \in {"help", "compact", "clear", "status", "sandbox", "cost", "config", "mcp", "memory",
                         "init", "diff", "version", "export", "agents", "skills", "doctor", "history"}
  BY DEF RunsResumed
<1>2. RunsInRepl(command)
  BY <1>1 DEF RunsInRepl
<1>3. command.name \in ResumeSupported
  BY <1>1 DEF ResumeSupported, Groups, Specs, SessionSpecs, AccountSpecs, ViewSpecs, ControlSpecs,
         ModelSpecs, ProjectSpecs, CodeSpecs
<1> QED
  BY <1>2, <1>3

\* What is a command has a name that is known, and words that go with it.
LEMMA CommandIs ==
  ASSUME NEW line, Parse(line).is = "command"
  PROVE  /\ line # <<>> /\ line[1] \in DOMAIN Slash
         /\ Parse(line).name = Canonical(Slash[line[1]]) /\ Parse(line).name \in Known
         /\ TakesArgs(Parse(line).name, Tail(line))
         /\ Parse(line).args = ParsedArgs(Parse(line).name, Tail(line))
BY DEF Parse

LEMMA McpWords ==
  ASSUME NEW Word, NEW args \in Seq(Word), McpArgs(args)
  PROVE  LET carried == SlashCommand("mcp", args) IN McpReport(carried.action \o carried.target) = McpReport(args)
<1> DEFINE carried == SlashCommand("mcp", args)
<1>1. CASE args = <<>>
  <2>1. carried.action = <<>> /\ carried.target = <<>>
    BY <1>1 DEF SlashCommand
  <2>2. carried.action \o carried.target = args
    BY <1>1, <2>1
  <2> QED
    BY <2>2
<1>2. CASE args # <<>> /\ args[1] \in HelpArgs /\ Len(args) = 1
  <2>1. carried.action = <<"help">> /\ carried.target = <<>>
    BY <1>2 DEF SlashCommand
  <2>2. Len(<<"help">>) = 1 /\ <<"help">> \o <<>> = <<"help">> /\ <<"help">> \notin {<<>>, <<"list">>}
    OBVIOUS
  <2>3. args \notin {<<>>, <<"list">>}
    BY <1>2 DEF HelpArgs
  <2>4. carried.action \o carried.target = <<"help">>
    BY <2>1, <2>2
  <2>5. ASSUME NEW words, words \notin {<<>>, <<"list">>}, Len(words) = 1
        PROVE  McpReport(words) = [shows |-> "usage", of |-> ""]
    BY <2>5 DEF McpReport
  <2>6. McpReport(<<"help">>) = [shows |-> "usage", of |-> ""]
    BY <2>2, <2>5
  <2>7. McpReport(args) = [shows |-> "usage", of |-> ""]
    BY <1>2, <2>3, <2>5
  <2> QED
    BY <2>4, <2>6, <2>7
<1>3. CASE args # <<>> /\ args[1] \notin HelpArgs
  <2>1. carried.action = <<args[1]>> /\ carried.target = Tail(args)
    BY <1>3 DEF SlashCommand
  <2>2. <<args[1]>> \o Tail(args) = args
    BY <1>3
  <2> QED
    BY <2>1, <2>2
<1>4. args # <<>> /\ args[1] \in HelpArgs => Len(args) = 1
  BY DEF McpArgs, HelpArgs
<1> QED
  BY <1>1, <1>2, <1>3, <1>4

LEMMA LinesAgree ==
  ASSUME NEW Word, Asked("line") => question.line \in Seq(Word)
  PROVE  LineAgrees
<1> SUFFICES ASSUME Asked("line"), NEW line \in Seq(Word), line = question.line,
                    NEW command, command = Parse(line), command.is = "command"
             PROVE  /\ command.name \in SpecNames
                    /\ RunsResumed(command) => RunsInRepl(command) /\ command.name \in ResumeSupported
                    /\ command.name = "mcp" =>
                          LET carried == SlashCommand("mcp", command.args)
                          IN  McpReport(carried.action \o carried.target) = McpReport(command.args)
  BY DEF LineAgrees
<1>1. command.name \in Known /\ TakesArgs(command.name, Tail(line)) /\ command.args = ParsedArgs(command.name, Tail(line))
      /\ line # <<>>
  BY CommandIs
<1>2. ASSUME command.name = "mcp" PROVE command.args \in Seq(Word) /\ McpArgs(command.args)
  <2>1. command.args = Tail(line) /\ Tail(line) \in Seq(Word)
    BY <1>1, <1>2 DEF ParsedArgs
  <2>2. McpArgs(Tail(line))
    BY <1>1, <1>2 DEF TakesArgs, Bare, AnyArgs, OneOf
  <2> QED
    BY <2>1, <2>2
<1>3. command.name = "mcp" =>
          LET carried == SlashCommand("mcp", command.args)
          IN  McpReport(carried.action \o carried.target) = McpReport(command.args)
  BY <1>2, McpWords
<1> QED
  BY <1>1, <1>3, KnownIsListed, ResumedIsListed
-----------------------------------------------------------------------------
(* Words read one by one: a function from the number read to what was made *)
(* of them.                                                                *)

Steps(N, A) == [1..N -> [A -> A]]
Iterates(f, N, A, start, step) ==
    f \in [0..N -> A] /\ f[0] = start /\ \A n \in 1..N : f[n] = step[n][f[n - 1]]
LEMMA Iterated ==
  ASSUME NEW N \in Nat, NEW A, NEW start \in A, NEW step \in Steps(N, A)
  PROVE  \E f : Iterates(f, N, A, start, step)
<1> USE DEF Steps
<1> DEFINE Part(f, m) == f \in [0..m -> A] /\ f[0] = start /\ \A n \in 1..m : f[n] = step[n][f[n - 1]]
           S == {m \in Nat : m <= N => \E f : Part(f, m)}
<1>1. 0 \in S
  <2> DEFINE f == [m \in 0..0 |-> start]
  <2>1. Part(f, 0)
    OBVIOUS
  <2> QED
    BY <2>1
<1>2. ASSUME NEW m \in Nat, m \in S PROVE m + 1 \in S
  <2> SUFFICES ASSUME m + 1 <= N PROVE \E f : Part(f, m + 1)
    OBVIOUS
  <2>1. PICK f : Part(f, m)
    BY <1>2
  <2> DEFINE h == [i \in 0..(m + 1) |-> IF i = m + 1 THEN step[m + 1][f[m]] ELSE f[i]]
  <2>2. step[m + 1] \in [A -> A] /\ f[m] \in A
    BY <2>1
  <2>3. h \in [0..(m + 1) -> A] /\ h[0] = start
    BY <2>1, <2>2
  <2>4. ASSUME NEW n \in 1..(m + 1) PROVE h[n] = step[n][h[n - 1]]
    <3>1. h[n - 1] = f[n - 1]
      OBVIOUS
    <3>2. CASE n = m + 1
      BY <3>1, <3>2
    <3>3. CASE n # m + 1
      BY <2>1, <3>1, <3>3
    <3> QED
      BY <3>2, <3>3
  <2> HIDE DEF h
  <2> QED
    BY <2>3, <2>4
<1> HIDE DEF S
<1>3. N \in S
  BY <1>1, <1>2, Induction
<1> QED
  BY <1>3 DEF S, Iterates

\* FlattenSeq appends one sequence after the other.
LEMMA FlattenIs ==
  ASSUME NEW Word, NEW given \in Seq(Seq(Word))
  PROVE  \E f \in [0..Len(given) -> Seq(Word)] :
            /\ f[0] = <<>> /\ \A n \in 1..Len(given) : f[n] = f[n - 1] \o given[n]
            /\ FlattenSeq(given) = f[Len(given)]
<1> DEFINE N == Len(given)
           step == [n \in 1..N |-> [s \in Seq(Word) |-> s \o given[n]]]
<1>1. N \in Nat /\ \A n \in 1..N : given[n] \in Seq(Word)
  OBVIOUS
<1>2. step \in Steps(N, Seq(Word)) /\ <<>> \in Seq(Word)
  BY <1>1 DEF Steps
<1>3. PICK f \in [0..N -> Seq(Word)] : f[0] = <<>> /\ \A n \in 1..N : f[n] = step[n][f[n - 1]]
  <2> HIDE DEF N, step
  <2>1. \E f : Iterates(f, N, Seq(Word), <<>>, step)
    BY <1>1, <1>2, Iterated
  <2> QED
    BY <2>1 DEF Iterates
<1>4. ASSUME NEW n \in 1..N PROVE f[n] = f[n - 1] \o given[n]
  <2>1. n - 1 \in 0..N
    OBVIOUS
  <2>2. f[n - 1] \in Seq(Word)
    BY <2>1
  <2>3. step[n] = [s \in Seq(Word) |-> s \o given[n]]
    OBVIOUS
  <2> HIDE DEF step
  <2>4. step[n][f[n - 1]] = f[n - 1] \o given[n]
    BY <2>2, <2>3
  <2> QED
    BY <1>3, <2>4
<1> HIDE DEF step
<1>5. FlattenSeq(given) = f[N]
  <2>1. CASE N = 0
    BY <1>3, <2>1 DEF FlattenSeq
  <2>2. CASE N # 0
    <3> DEFINE Is(e) == e = [i \in 1..N |-> IF i = 1 THEN given[i] ELSE e[i - 1] \o given[i]]
               t == [i \in 1..N |-> f[i]]
    <3>1. FlattenSeq(given) = (CHOOSE e : Is(e))[N]
      BY <2>2 DEF FlattenSeq
    <3>2. \A i \in 1..N : t[i] = IF i = 1 THEN given[i] ELSE t[i - 1] \o given[i]
      <4> SUFFICES ASSUME NEW i \in 1..N PROVE t[i] = IF i = 1 THEN given[i] ELSE t[i - 1] \o given[i]
        OBVIOUS
      <4>1. f[i] = f[i - 1] \o given[i]
        BY <1>4
      <4>2. CASE i = 1
        <5>1. given[1] \in Seq(Word)
          BY <1>1, <4>2
        <5>2. f[0] \o given[1] = given[1]
          BY <1>3, <5>1, ConcatEmptySeq
        <5>3. i - 1 = 0
          BY <4>2
        <5>4. f[i] = given[i]
          BY <4>1, <4>2, <5>2, <5>3
        <5> QED
          BY <4>2, <5>4
      <4>3. CASE i # 1
        <5>1. i - 1 \in 1..N
          BY <4>3
        <5>2. t[i - 1] = f[i - 1] /\ t[i] = f[i]
          BY <5>1
        <5> QED
          BY <4>1, <4>3, <5>2
      <4> QED
        BY <4>2, <4>3
    <3>3. t = [i \in 1..N |-> IF i = 1 THEN given[i] ELSE t[i - 1] \o given[i]]
      <4> DEFINE g == [i \in 1..N |-> IF i = 1 THEN given[i] ELSE t[i - 1] \o given[i]]
      <4>1. t = [i \in 1..N |-> t[i]]
        OBVIOUS
      <4>2. \A i \in 1..N : t[i] = g[i]
        BY <3>2
      <4>3. g = [i \in 1..N |-> g[i]]
        OBVIOUS
      <4> HIDE DEF g, t
      <4>4. t = g
        BY <4>1, <4>2, <4>3
      <4> QED
        BY <4>4 DEF g
    <3>4. \E e : Is(e)
      BY <3>3
    <3> DEFINE e == CHOOSE e : Is(e)
    <3>5. Is(e)
      BY <3>4
    <3> HIDE DEF Is, t
    <3>6. e = [i \in 1..N |-> IF i = 1 THEN given[i] ELSE e[i - 1] \o given[i]]
      BY <3>5 DEF Is
    <3> HIDE DEF e
    <3> DEFINE S == {m \in Nat : m + 1 \in 1..N => e[m + 1] = f[m + 1]}
    <3>7. 0 \in S
      <4>1. e[1] = given[1]
        BY <2>2, <3>6, <1>1
      <4>2. f[1] = f[0] \o given[1] /\ f[0] \o given[1] = given[1]
        <5>1. 1 \in 1..N /\ 1 - 1 = 0 /\ given[1] \in Seq(Word)
          BY <1>1, <2>2
        <5>2. f[1] = f[1 - 1] \o given[1]
          BY <1>4, <5>1
        <5> QED
          BY <1>3, <5>1, <5>2, ConcatEmptySeq
      <4> QED
        BY <4>1, <4>2
    <3>8. ASSUME NEW m \in Nat, m \in S PROVE m + 1 \in S
      <4> SUFFICES ASSUME m + 2 \in 1..N PROVE e[m + 2] = f[m + 2]
        OBVIOUS
      <4>1. e[m + 1] = f[m + 1]
        BY <3>8
      <4>2. e[m + 2] = e[m + 1] \o given[m + 2]
        <5>1. m + 2 # 1 /\ (m + 2) - 1 = m + 1
          OBVIOUS
        <5> QED
          BY <3>6, <5>1
      <4>3. f[m + 2] = f[m + 1] \o given[m + 2]
        <5>1. (m + 2) - 1 = m + 1
          OBVIOUS
        <5> QED
          BY <1>4, <5>1
      <4> QED
        BY <4>1, <4>2, <4>3
    <3>9. N - 1 \in S
      <4> HIDE DEF S
      <4>1. N - 1 \in Nat
        BY <1>1, <2>2
      <4> QED
        BY <3>7, <3>8, <4>1, Induction
    <3>10. e[N] = f[N]
      BY <1>1, <2>2, <3>9
    <3> QED
      BY <3>1, <3>10 DEF e, Is
  <2> QED
    BY <2>1, <2>2
<1> QED
  BY <1>3, <1>4, <1>5
-----------------------------------------------------------------------------
(* parse_resume_args: the words after the session come out as the commands *)
(* that were given.                                                        *)
Accs(Word) == [ok : BOOLEAN, commands : Seq(Seq(Word)), current : Seq(Word)]
Begun == [ok |-> TRUE, commands |-> <<>>, current |-> <<>>]

LEMMA GroupWordType ==
  ASSUME NEW Word, NEW acc \in Accs(Word), NEW word \in Word
  PROVE  GroupWord(acc, word) \in Accs(Word)
<1>1. Push(acc) \in Seq(Seq(Word))
  BY DEF Push, Accs
<1>2. Append(acc.current, word) \in Seq(Word) /\ <<word>> \in Seq(Word)
  BY DEF Accs
<1> QED
  BY <1>1, <1>2 DEF GroupWord, Accs

LEMMA GroupedIs ==
  ASSUME NEW Word, NEW words \in Seq(Word)
  PROVE  \E g \in [0..Len(words) -> Accs(Word)] :
            /\ g[0] = Begun /\ \A n \in 1..Len(words) : g[n] = GroupWord(g[n - 1], words[n])
            /\ Grouped(words) = g[Len(words)]
<1> DEFINE N == Len(words)
           A == Accs(Word)
           step == [n \in 1..N |-> [acc \in A |-> GroupWord(acc, words[n])]]
           Is(e) == e = [n \in 0..N |-> IF n = 0 THEN Begun ELSE GroupWord(e[n - 1], words[n])]
<1>1. N \in Nat /\ \A n \in 1..N : words[n] \in Word
  OBVIOUS
<1>2. step \in Steps(N, A) /\ Begun \in A
  <2>1. Begun \in A
    BY DEF Begun, Accs
  <2>2. \A n \in 1..N, acc \in A : GroupWord(acc, words[n]) \in A
    BY <1>1, GroupWordType
  <2> HIDE DEF A, N
  <2> QED
    BY <2>1, <2>2 DEF Steps
<1>3. PICK f \in [0..N -> A] : f[0] = Begun /\ \A n \in 1..N : f[n] = step[n][f[n - 1]]
  <2> HIDE DEF N, A, step
  <2>1. \E f : Iterates(f, N, A, Begun, step)
    BY <1>1, <1>2, Iterated
  <2> QED
    BY <2>1 DEF Iterates
<1>4. ASSUME NEW n \in 1..N PROVE f[n] = GroupWord(f[n - 1], words[n])
  <2> HIDE DEF A
  <2>1. n - 1 \in 0..N
    OBVIOUS
  <2>2. f[n - 1] \in A
    BY <2>1
  <2>3. step[n] = [acc \in A |-> GroupWord(acc, words[n])]
    OBVIOUS
  <2> HIDE DEF step
  <2>4. step[n][f[n - 1]] = GroupWord(f[n - 1], words[n])
    BY <2>2, <2>3
  <2> QED
    BY <1>3, <2>4
<1>5. \E e : Is(e)
  <2> DEFINE g == [n \in 0..N |-> IF n = 0 THEN Begun ELSE GroupWord(f[n - 1], words[n])]
  <2>1. \A n \in 0..N : f[n] = g[n]
    BY <1>1, <1>3, <1>4
  <2>2. f = [n \in 0..N |-> f[n]] /\ g = [n \in 0..N |-> g[n]]
    BY <1>3
  <2> HIDE DEF g
  <2>3. f = g
    BY <2>1, <2>2
  <2>4. Is(f)
    BY <2>3 DEF g
  <2> QED
    BY <2>4
<1> DEFINE h == CHOOSE e : Is(e)
<1>6. Grouped(words) = h[N]
  BY DEF Grouped, Begun
<1>7. Is(h)
  BY <1>5
<1> HIDE DEF h
<1>8. \A n \in 0..N : h[n] = IF n = 0 THEN Begun ELSE GroupWord(h[n - 1], words[n])
  BY <1>7
<1> HIDE DEF A
<1>9. h \in [0..N -> A]
  <2> DEFINE S == {m \in Nat : m <= N => h[m] = f[m]}
  <2>1. 0 \in S
    BY <1>1, <1>3, <1>8
  <2>2. ASSUME NEW m \in Nat, m \in S PROVE m + 1 \in S
    <3> SUFFICES ASSUME m + 1 <= N PROVE h[m + 1] = f[m + 1]
      OBVIOUS
    <3>1. h[m + 1] = GroupWord(h[m], words[m + 1])
      BY <1>1, <1>8
    <3>2. f[m + 1] = GroupWord(f[m], words[m + 1])
      BY <1>1, <1>4
    <3>3. h[m] = f[m]
      BY <2>2
    <3> QED
      BY <3>1, <3>2, <3>3
  <2> HIDE DEF S
  <2>3. Nat \subseteq S
    BY <2>1, <2>2, Induction
  <2>4. \A m \in 0..N : h[m] = f[m]
    BY <1>1, <2>3 DEF S
  <2>5. h = [n \in 0..N |-> h[n]]
    BY <1>7
  <2> HIDE DEF Is
  <2> QED
    BY <1>3, <2>4, <2>5
<1>10. \A n \in 1..N : h[n] = GroupWord(h[n - 1], words[n])
  BY <1>1, <1>8
<1>11. h[0] = Begun
  BY <1>1, <1>8
<1> HIDE DEF Is
<1> QED
  BY <1>6, <1>9, <1>10, <1>11 DEF A

LEMMA GroupedAppend ==
  ASSUME NEW Word, NEW words \in Seq(Word), NEW word \in Word
  PROVE  /\ Grouped(words) \in Accs(Word)
         /\ Grouped(Append(words, word)) = GroupWord(Grouped(words), word)
<1> DEFINE more == Append(words, word)
           N == Len(words)
<1>1. more \in Seq(Word) /\ Len(more) = N + 1 /\ more[N + 1] = word /\ N \in Nat /\ \A n \in 1..N : more[n] = words[n]
  OBVIOUS
<1>2. PICK g \in [0..N -> Accs(Word)] :
         /\ g[0] = Begun /\ \A n \in 1..N : g[n] = GroupWord(g[n - 1], words[n])
         /\ Grouped(words) = g[N]
  BY GroupedIs
<1> HIDE DEF more
<1>3. PICK h \in [0..(N + 1) -> Accs(Word)] :
         /\ h[0] = Begun /\ \A n \in 1..(N + 1) : h[n] = GroupWord(h[n - 1], more[n])
         /\ Grouped(more) = h[N + 1]
  <2>1. Len(more) = N + 1
    BY <1>1
  <2>2. \E h \in [0..Len(more) -> Accs(Word)] :
           /\ h[0] = Begun /\ \A n \in 1..Len(more) : h[n] = GroupWord(h[n - 1], more[n])
           /\ Grouped(more) = h[Len(more)]
    BY <1>1, GroupedIs, Zenon
  <2> QED
    BY <2>1, <2>2, Zenon
<1> DEFINE S == {m \in Nat : m <= N => h[m] = g[m]}
<1>4. 0 \in S
  BY <1>2, <1>3
<1>5. ASSUME NEW m \in Nat, m \in S PROVE m + 1 \in S
  <2> SUFFICES ASSUME m + 1 <= N PROVE h[m + 1] = g[m + 1]
    OBVIOUS
  <2>1. h[m + 1] = GroupWord(h[m], more[m + 1])
    BY <1>1, <1>3
  <2>2. g[m + 1] = GroupWord(g[m], words[m + 1])
    BY <1>1, <1>2
  <2>3. h[m] = g[m] /\ more[m + 1] = words[m + 1]
    BY <1>1, <1>5
  <2> QED
    BY <2>1, <2>2, <2>3
<1>6. N \in S
  <2> HIDE DEF S
  <2> QED
    BY <1>1, <1>4, <1>5, Induction
<1>7. h[N + 1] = GroupWord(h[N], more[N + 1])
  BY <1>1, <1>3
<1>8. h[N] = g[N]
  BY <1>1, <1>6
<1>9. g[N] \in Accs(Word)
  BY <1>1, <1>2
<1> QED
  BY <1>1, <1>2, <1>3, <1>7, <1>8, <1>9 DEF more
\* A command as SplitAgrees asks for it: the word it begins with is in the table, and of
\* those that follow only the path of /export begins with a slash.
Plain(command) ==
    /\ LooksLikeSlashCommand(command[1])
    /\ \A j \in 2..Len(command) :
          command[j] \in DOMAIN Slash => Slash[command[1]] = "export" /\ j = 2 /\ ~LooksLikeSlashCommand(command[j])

LEMMA ExportParsed ==
  ASSUME NEW word \in DOMAIN Slash, Slash[word] = "export"
  PROVE  Parse(<<word>>).is = "command" /\ Parse(<<word>>).name = "export" /\ Parse(<<word>>).args = <<>>
<1> DEFINE line == <<word>>
<1>1. line # <<>> /\ line[1] = word /\ Tail(line) = <<>>
  OBVIOUS
<1>2. Canonical("export") = "export" /\ "export" \in Known /\ ParsedArgs("export", <<>>) = <<>>
  BY DEF Canonical, Known, AnyArgs, ParsedArgs
<1>3. TakesArgs("export", <<>>)
  BY DEF TakesArgs, AnyArgs
<1> HIDE DEF line
<1>4. Parse(line) = [is |-> "command", name |-> "export", args |-> <<>>]
  BY <1>1, <1>2, <1>3 DEF Parse
<1> QED
  BY <1>4 DEF line

\* The words of one command, after whole commands.
LEMMA GroupsCommand ==
  ASSUME NEW Word, NEW before \in Seq(Word), NEW command \in Seq(Word), command # <<>>, Plain(command),
         Grouped(before).ok
  PROVE  /\ Grouped(before \o command).ok
         /\ Grouped(before \o command).commands = Push(Grouped(before))
         /\ Grouped(before \o command).current = command
<1> DEFINE N == Len(command)
           Read(j) == before \o SubSeq(command, 1, j)
           Is(j) == Grouped(Read(j)) = [ok |-> TRUE, commands |-> Push(Grouped(before)), current |-> SubSeq(command, 1, j)]
           S == {m \in Nat : m + 1 \in 1..N => Is(m + 1)}
<1>1. N \in Nat /\ N >= 1 /\ \A j \in 1..N : command[j] \in Word
  OBVIOUS
<1>2. \A j \in 0..N : /\ SubSeq(command, 1, j) \in Seq(Word) /\ Len(SubSeq(command, 1, j)) = j
                      /\ \A i \in 1..j : SubSeq(command, 1, j)[i] = command[i]
  BY <1>1
<1>3. ASSUME NEW j \in 0..N, j + 1 \in 1..N
      PROVE  /\ SubSeq(command, 1, j + 1) = Append(SubSeq(command, 1, j), command[j + 1])
             /\ Read(j) \in Seq(Word) /\ Read(j + 1) = Append(Read(j), command[j + 1])
  <2>1. SubSeq(command, 1, j) \in Seq(Word) /\ command[j + 1] \in Word
    <3> HIDE DEF N
    <3> QED
      BY <1>1, <1>2, <1>3
  <2>2. SubSeq(command, 1, j + 1) = Append(SubSeq(command, 1, j), command[j + 1])
    BY <1>1, <1>3
  <2>3. \A s \in Seq(Word), w \in Word : before \o Append(s, w) = Append(before \o s, w) /\ before \o s \in Seq(Word)
    OBVIOUS
  <2> QED
    BY <2>1, <2>2, <2>3
<1> HIDE DEF N, Read
<1>4. SubSeq(command, 1, 0) = <<>> /\ Read(0) = before
  BY DEF Read
<1>5. Grouped(before) \in Accs(Word)
  BY <1>1, GroupedAppend
<1>6. Is(1)
  <2> DEFINE w == command[1]
  <2>1. w \in Word /\ w \in DOMAIN Slash /\ LooksLikeSlashCommand(w)
    BY <1>1 DEF Plain, LooksLikeSlashCommand
  <2>2. Read(1) = Append(before, w) /\ SubSeq(command, 1, 1) = <<w>>
    <3>1. 0 \in 0..N /\ 0 + 1 \in 1..N /\ 0 + 1 = 1
      BY <1>1
    <3>2. SubSeq(command, 1, 1) = Append(<<>>, w) /\ Read(1) = Append(Read(0), w)
      BY <1>3, <1>4, <3>1
    <3> QED
      BY <1>4, <3>2
  <2>3. Grouped(Read(1)) = GroupWord(Grouped(before), w)
    BY <2>1, <2>2, GroupedAppend
  <2>4. ~Absorbs(Grouped(before).current, w)
    BY <2>1 DEF Absorbs
  <2>5. GroupWord(Grouped(before), w) = [ok |-> TRUE, commands |-> Push(Grouped(before)), current |-> <<w>>]
    BY <1>5, <2>1, <2>4 DEF GroupWord, Accs
  <2> QED
    BY <2>2, <2>3, <2>5
<1>7. ASSUME NEW m \in Nat, m \in S PROVE m + 1 \in S
  <2> SUFFICES ASSUME (m + 1) + 1 \in 1..N PROVE Is((m + 1) + 1)
    OBVIOUS
  <2> DEFINE j == m + 1
             w == command[j + 1]
             current == SubSeq(command, 1, j)
  <2>1. j \in Nat /\ j >= 1 /\ j \in 0..N /\ j + 1 \in 1..N /\ j + 1 \in 2..N /\ j \in 1..N
    BY <1>1
  <2>2. Is(j)
    BY <1>7, <2>1
  <2> HIDE DEF j, S
  <2>3. w \in Word /\ current \in Seq(Word) /\ Len(current) = j /\ current[1] = command[1]
    BY <1>1, <1>2, <2>1
  <2>4. /\ SubSeq(command, 1, j + 1) = Append(current, w)
        /\ Read(j) \in Seq(Word) /\ Read(j + 1) = Append(Read(j), w)
    BY <1>3, <2>1
  <2>5. Grouped(Read(j + 1)) = GroupWord(Grouped(Read(j)), w)
    BY <2>3, <2>4, GroupedAppend
  <2>6. current # <<>>
    BY <2>1, <2>3
  <2>7. w \in DOMAIN Slash => Absorbs(current, w)
    <3> SUFFICES ASSUME w \in DOMAIN Slash PROVE Absorbs(current, w)
      OBVIOUS
    <3>1. Slash[command[1]] = "export" /\ j + 1 = 2 /\ ~LooksLikeSlashCommand(w) /\ command[1] \in DOMAIN Slash
      BY <2>1 DEF Plain, LooksLikeSlashCommand, N
    <3>2. current = <<command[1]>>
      <4>1. j = 1
        BY <2>1, <3>1
      <4>2. Len(current) = 1 /\ current[1] = command[1] /\ current \in Seq(Word)
        BY <2>3, <4>1
      <4> HIDE DEF current
      <4> QED
        BY <4>2
    <3> QED
      BY <2>6, <3>1, <3>2, ExportParsed DEF Absorbs
  <2>8. GroupWord([ok |-> TRUE, commands |-> Push(Grouped(before)), current |-> current], w)
        = [ok |-> TRUE, commands |-> Push(Grouped(before)), current |-> Append(current, w)]
    <3> HIDE DEF current, w
    <3> QED
      BY <2>6, <2>7 DEF GroupWord
  <2>9. Is(j + 1)
    BY <2>2, <2>4, <2>5, <2>8
  <2> QED
    BY <2>9 DEF j
<1>8. Is(N)
  <2>1. 0 \in S
    BY <1>6
  <2> HIDE DEF S, Is
  <2>2. N - 1 \in Nat
    BY <1>1
  <2>3. N - 1 \in S
    BY <1>7, <2>1, <2>2, Induction
  <2> QED
    BY <1>1, <2>2, <2>3 DEF S
<1>9. SubSeq(command, 1, N) = command
  BY DEF N
<1>10. Grouped(Read(N)) = [ok |-> TRUE, commands |-> Push(Grouped(before)), current |-> command]
  BY <1>8, <1>9
<1>11. Read(N) = before \o command
  BY <1>9 DEF Read
<1> HIDE DEF S, Is
<1> QED
  BY <1>10, <1>11

LEMMA SplitsAgree ==
  ASSUME NEW Word, Asked("resume") => question.commands \in Seq(Seq(Word) \ {<<>>})
  PROVE  SplitAgrees
<1> SUFFICES ASSUME Asked("resume"), NEW given, given = question.commands, given \in Seq(Seq(Word) \ {<<>>}),
                    \A i \in DOMAIN given : Plain(given[i])
             PROVE  Split(FlattenSeq(given)) = [ok |-> TRUE, commands |-> given]
  BY DEF SplitAgrees, Plain
<1> DEFINE N == Len(given)
<1>1. /\ N \in Nat /\ given \in Seq(Seq(Word)) /\ DOMAIN given = 1..N
      /\ \A i \in 1..N : given[i] \in Seq(Word) /\ given[i] # <<>>
  OBVIOUS
<1>2. PICK f \in [0..N -> Seq(Word)] :
         /\ f[0] = <<>> /\ \A n \in 1..N : f[n] = f[n - 1] \o given[n]
         /\ FlattenSeq(given) = f[N]
  BY <1>1, FlattenIs
<1> DEFINE Done(n) == Grouped(f[n]).ok /\ Push(Grouped(f[n])) = SubSeq(given, 1, n)
           S == {n \in Nat : n <= N => Done(n)}
<1>3. 0 \in S
  <2>1. Grouped(<<>>) = Begun
    <3>1. <<>> \in Seq(Word) /\ Len(<<>>) = 0
      OBVIOUS
    <3> QED
      BY <3>1, GroupedIs
  <2>2. Push(Begun) = <<>> /\ Begun.ok
    BY DEF Push, Begun
  <2>3. SubSeq(given, 1, 0) = <<>>
    OBVIOUS
  <2> QED
    BY <1>2, <2>1, <2>2, <2>3
<1>4. ASSUME NEW n \in Nat, n \in S PROVE n + 1 \in S
  <2> SUFFICES ASSUME n + 1 <= N PROVE Done(n + 1)
    OBVIOUS
  <2>1. Done(n) /\ n \in 0..N /\ n + 1 \in 1..N /\ (n + 1) - 1 = n
    BY <1>1, <1>4
  <2>2. f[n] \in Seq(Word) /\ f[n + 1] = f[n] \o given[n + 1]
    BY <1>2, <2>1
  <2>3. given[n + 1] \in Seq(Word) /\ given[n + 1] # <<>> /\ Plain(given[n + 1])
    BY <1>1, <2>1
  <2>4. SubSeq(given, 1, n + 1) = Append(SubSeq(given, 1, n), given[n + 1])
    BY <1>1, <2>1
  <2> HIDE DEF N, S
  <2>5. /\ Grouped(f[n + 1]).ok /\ Grouped(f[n + 1]).commands = SubSeq(given, 1, n)
        /\ Grouped(f[n + 1]).current = given[n + 1]
    BY <2>1, <2>2, <2>3, GroupsCommand
  <2>6. Push(Grouped(f[n + 1])) = Append(SubSeq(given, 1, n), given[n + 1])
    BY <2>3, <2>5 DEF Push
  <2> QED
    BY <2>4, <2>5, <2>6
<1>5. Done(N)
  <2> HIDE DEF S, Done
  <2>1. N \in S
    BY <1>1, <1>3, <1>4, Induction
  <2> QED
    BY <1>1, <2>1 DEF S
<1>6. SubSeq(given, 1, N) = given
  BY <1>1
<1>7. Grouped(f[N]).ok = TRUE
  <2>1. f[N] \in Seq(Word)
    <3>1. N \in 0..N
      BY <1>1
    <3> HIDE DEF N
    <3> QED
      BY <1>2, <3>1
  <2>2. PICK g \in [0..Len(f[N]) -> Accs(Word)] : Grouped(f[N]) = g[Len(f[N])]
    BY <2>1, GroupedIs
  <2>3. Grouped(f[N]) \in Accs(Word)
    BY <2>1, <2>2
  <2> QED
    BY <1>5, <2>3 DEF Accs
<1> QED
  BY <1>2, <1>5, <1>6, <1>7 DEF Split
-----------------------------------------------------------------------------
(* The loop of resume_session.                                             *)
MessagesTelling(Thing) == [summary : BOOLEAN, tells : SUBSET Thing]
SessionsTelling(Thing) == [id : Nat, messages : Seq(MessagesTelling(Thing))]
Said == [of : {Canonical(Slash[word]) : word \in DOMAIN Slash}, removed : Int, json : BOOLEAN]
BackupSets(Thing, Time) == UNION {[times -> SessionsTelling(Thing)] : times \in SUBSET Time}
Chains(Thing, Time) ==
    [session : SessionsTelling(Thing), file : SessionsTelling(Thing), backups : BackupSets(Thing, Time), printed : Seq(Said),
     exit : {0, 2}, json : BOOLEAN]

LEMMA OneBefore ==
  ASSUME NEW M, NEW one \in M, NEW s \in Seq(M)
  PROVE  /\ <<one>> \o s \in Seq(M) /\ Len(<<one>> \o s) = 1 + Len(s) /\ (<<one>> \o s)[1] = one
         /\ \A i \in 1..Len(s) : (<<one>> \o s)[i + 1] = s[i]
OBVIOUS

LEMMA Later ==
  ASSUME NEW M, NEW s \in Seq(M), NEW n \in Nat, n <= Len(s)
  PROVE  /\ SubSeq(s, n + 1, Len(s)) \in Seq(M) /\ Len(SubSeq(s, n + 1, Len(s))) = Len(s) - n
         /\ \A i \in 1..(Len(s) - n) : SubSeq(s, n + 1, Len(s))[i] = s[n + i]
OBVIOUS

\* Compaction tells what was told, and counts what it takes out.
LEMMA CompactTells ==
  ASSUME NEW Thing, NEW session \in SessionsTelling(Thing)
  PROVE  /\ \A large : CompactSession(session, large).session \in SessionsTelling(Thing)
         /\ \A large : CompactSession(session, large).removed \in Int
         /\ \A large : Told(CompactSession(session, large).session) = Told(session)
         /\ \A large : CompactSession(session, large).removed = 0 => CompactSession(session, large).session = session
         /\ \A large : ~large => CompactSession(session, large).removed = 0
<1> DEFINE ms == session.messages
           prefix == SubSeq(ms, 1, IF ms # <<>> /\ ms[1].summary THEN 1 ELSE 0)
           keepFrom == Len(ms) - PreserveRecent
           Tells(s) == UNION {s[i].tells : i \in DOMAIN s}
           kept == SubSeq(ms, keepFrom + 1, Len(ms))
           headed == [summary |-> TRUE, tells |-> Tells(SubSeq(ms, 1, keepFrom))]
           after == [session EXCEPT !.messages = <<headed>> \o kept]
           Small(large) == ~large \/ Len(ms) - Len(prefix) <= PreserveRecent
<1>1. ms \in Seq(MessagesTelling(Thing)) /\ Len(ms) \in Nat /\ DOMAIN ms = 1..Len(ms)
  BY DEF SessionsTelling
<1>2. \A i \in 1..Len(ms) : ms[i] \in MessagesTelling(Thing) /\ ms[i].tells \subseteq Thing
  <2> HIDE DEF ms
  <2>1. \A i \in 1..Len(ms) : ms[i] \in MessagesTelling(Thing)
    BY <1>1
  <2> QED
    BY <2>1 DEF MessagesTelling
<1>3. Len(prefix) \in Nat
  BY <1>1
<1>4. keepFrom \in Int /\ PreserveRecent \in Nat
  BY <1>1, PreserveAssumption
<1> HIDE DEF prefix
<1>5. \A large : ~Small(large) => keepFrom - Len(prefix) > 0 /\ keepFrom > 0 /\ keepFrom <= Len(ms)
  BY <1>1, <1>3, PreserveAssumption
<1>6. \A large : CompactSession(session, large) =
         IF Small(large) THEN [session |-> session, removed |-> 0]
         ELSE [session |-> after, removed |-> keepFrom - Len(prefix)]
  <2> HIDE DEF keepFrom
  <2> QED
    BY DEF CompactSession, prefix, keepFrom
<1>7. ASSUME NEW large, ~Small(large)
      PROVE  after \in SessionsTelling(Thing) /\ Told(after) = Told(session)
  <2>1. keepFrom > 0 /\ keepFrom <= Len(ms)
    BY <1>5, <1>7
  <2> HIDE DEF ms, keepFrom, Small
  <2>2. /\ SubSeq(ms, 1, keepFrom) \in Seq(MessagesTelling(Thing)) /\ Len(SubSeq(ms, 1, keepFrom)) = keepFrom
        /\ \A i \in 1..keepFrom : SubSeq(ms, 1, keepFrom)[i] = ms[i]
    BY <1>1, <1>4, <2>1
  <2>3. /\ kept \in Seq(MessagesTelling(Thing)) /\ Len(kept) = Len(ms) - keepFrom
        /\ \A i \in 1..(Len(ms) - keepFrom) : kept[i] = ms[keepFrom + i]
    <3>1. keepFrom \in Nat
      BY <1>4, <2>1
    <3> QED
      BY <1>1, <2>1, <3>1, Later
  <2>4. headed \in MessagesTelling(Thing) /\ headed.tells = UNION {ms[i].tells : i \in 1..keepFrom}
    <3> DEFINE first == SubSeq(ms, 1, keepFrom)
    <3>1. DOMAIN first = 1..keepFrom
      BY <1>4, <2>1, <2>2
    <3>2. Tells(first) = UNION {ms[i].tells : i \in 1..keepFrom}
      <4> HIDE DEF first
      <4>1. \A i \in 1..keepFrom : first[i].tells = ms[i].tells
        BY <2>2 DEF first
      <4> QED
        BY <3>1, <4>1
    <3>3. UNION {ms[i].tells : i \in 1..keepFrom} \subseteq Thing
      BY <1>2, <1>4, <2>1
    <3> HIDE DEF first, Tells
    <3> QED
      BY <3>2, <3>3 DEF MessagesTelling, first
  <2> DEFINE new == <<headed>> \o kept
  <2> HIDE DEF headed, kept
  <2>6. new \in Seq(MessagesTelling(Thing)) /\ Len(new) = 1 + (Len(ms) - keepFrom) /\ new[1] = headed
        /\ \A i \in 1..(Len(ms) - keepFrom) : new[i + 1] = ms[keepFrom + i]
    <3> HIDE DEF new
    <3>1. new = <<headed>> \o kept
      BY DEF new
    <3>2. /\ <<headed>> \o kept \in Seq(MessagesTelling(Thing)) /\ Len(<<headed>> \o kept) = 1 + Len(kept) /\ (<<headed>> \o kept)[1] = headed
          /\ \A i \in 1..Len(kept) : (<<headed>> \o kept)[i + 1] = kept[i]
      BY <2>3, <2>4, OneBefore
    <3> QED
      BY <2>3, <3>1, <3>2
  <2> HIDE DEF new
  <2>7. after \in SessionsTelling(Thing) /\ after.messages = new
    <3>1. after = [session EXCEPT !.messages = new]
      BY DEF new
    <3> QED
      BY <2>6, <3>1 DEF SessionsTelling
  <2>8. Told(after) = UNION {new[i].tells : i \in DOMAIN new} /\ Told(session) = UNION {ms[i].tells : i \in DOMAIN ms}
    BY <2>7 DEF Told, ms
  <2>9. DOMAIN new = 1..(1 + (Len(ms) - keepFrom))
    BY <2>6
  <2>10. ASSUME NEW x, NEW i \in DOMAIN new, x \in new[i].tells PROVE \E j \in DOMAIN ms : x \in ms[j].tells
    <3>1. CASE i = 1
      <4>1. x \in UNION {ms[j].tells : j \in 1..keepFrom}
        BY <2>4, <2>6, <2>10, <3>1
      <4>2. PICK j \in 1..keepFrom : x \in ms[j].tells
        BY <4>1
      <4>3. j \in DOMAIN ms
        BY <1>1, <1>4, <2>1
      <4> QED
        BY <4>2, <4>3
    <3>2. CASE i # 1
      <4> DEFINE k == i - 1
      <4>1. k \in 1..(Len(ms) - keepFrom) /\ k + 1 = i /\ keepFrom + k \in DOMAIN ms
        BY <1>1, <1>4, <2>1, <2>9, <3>2
      <4> HIDE DEF k
      <4>2. new[i] = ms[keepFrom + k]
        BY <2>6, <4>1
      <4> QED
        BY <2>10, <4>1, <4>2
    <3> QED
      BY <3>1, <3>2
  <2>11. ASSUME NEW x, NEW j \in DOMAIN ms, x \in ms[j].tells PROVE \E i \in DOMAIN new : x \in new[i].tells
    <3>1. CASE j <= keepFrom
      <4>1. j \in 1..keepFrom
        BY <1>1, <1>4, <2>1, <3>1
      <4>2. x \in new[1].tells
        BY <2>4, <2>6, <2>11, <4>1
      <4>3. 1 \in DOMAIN new
        BY <1>1, <1>4, <2>1, <2>9
      <4> QED
        BY <4>2, <4>3
    <3>2. CASE ~(j <= keepFrom)
      <4> DEFINE k == j - keepFrom
      <4>1. k \in 1..(Len(ms) - keepFrom) /\ keepFrom + k = j /\ k + 1 \in DOMAIN new
        BY <1>1, <1>4, <2>1, <2>9, <3>2
      <4> HIDE DEF k
      <4>2. new[k + 1] = ms[j]
        BY <2>6, <4>1
      <4> QED
        BY <2>11, <4>1, <4>2
    <3> QED
      BY <3>1, <3>2
  <2>12. Told(after) = Told(session)
    <3> HIDE DEF after
    <3> QED
      BY <2>8, <2>10, <2>11
  <2> QED
    BY <2>7, <2>12
<1> HIDE DEF Small, after, keepFrom
<1>8. \A large : CompactSession(session, large).session \in SessionsTelling(Thing)
  BY <1>6, <1>7
<1>9. \A large : CompactSession(session, large).removed \in Int
  BY <1>3, <1>4, <1>6
<1>10. \A large : Told(CompactSession(session, large).session) = Told(session)
  BY <1>6, <1>7
<1>11. \A large : CompactSession(session, large).removed = 0 => CompactSession(session, large).session = session
  BY <1>3, <1>4, <1>5, <1>6
<1>12. \A large : ~large => CompactSession(session, large).removed = 0
  BY <1>6 DEF Small
<1> QED
  BY <1>8, <1>9, <1>10, <1>11, <1>12
LEMMA ClearIs ==
  ASSUME NEW line, Clears(line)
  PROVE  Parse(line).is = "command" /\ Parse(line).name = "clear" /\ RunsResumed(Parse(line))
<1>1. line # <<>> /\ line[1] = "/clear" /\ Tail(line) = <<"--confirm">>
  BY DEF Clears
<1>2. "/clear" \in DOMAIN Slash /\ Slash["/clear"] = "clear"
  BY SlashAssumption
<1>3. Canonical("clear") = "clear" /\ "clear" \in Known /\ "clear" # ""
  BY DEF Canonical, Known, OneOf
<1>4. TakesArgs("clear", <<"--confirm">>)
  <2>1. Len(<<"--confirm">>) = 1 /\ <<"--confirm">>[1] = "--confirm"
    OBVIOUS
  <2>2. "clear" \in DOMAIN OneOf /\ OneOf["clear"] = {"--confirm"}
    BY DEF OneOf
  <2> QED
    BY <2>1, <2>2 DEF TakesArgs
<1>5. Parse(line).is = "command" /\ Parse(line).name = "clear"
  BY <1>1, <1>2, <1>3, <1>4 DEF Parse
<1> QED
  BY <1>5 DEF RunsResumed

LEMMA ClearWords ==
  ASSUME NEW Word, NEW line \in Seq(Word), Parse(line).is = "command", Parse(line).name = "clear"
  PROVE  SlashCommand("clear", Parse(line).args).confirm <=> Clears(line)
<1> DEFINE args == Tail(line)
<1>1. line # <<>> /\ line[1] \in DOMAIN Slash /\ Canonical(Slash[line[1]]) = "clear" /\ TakesArgs("clear", args)
      /\ Parse(line).args = ParsedArgs("clear", args)
  BY CommandIs
<1>2. Parse(line).args = args
  BY <1>1 DEF ParsedArgs
<1>3. SlashCommand("clear", args).confirm <=> args # <<>>
  BY DEF SlashCommand
<1>4. line[1] = "/clear"
  BY <1>1, SlashAssumption DEF Canonical
<1>5. args = <<>> \/ (Len(args) = 1 /\ args[1] = "--confirm")
  BY <1>1 DEF TakesArgs, Bare, AnyArgs, OneOf
<1>6. args \in Seq(Word) /\ Len(line) = Len(args) + 1 /\ \A i \in 1..Len(args) : args[i] = line[i + 1]
  BY <1>1
<1> HIDE DEF args
<1>7. ASSUME Clears(line) PROVE args # <<>>
  <2>1. Len(line) = 2
    BY <1>7 DEF Clears
  <2> QED
    BY <1>6, <2>1
<1>8. ASSUME args # <<>> PROVE Clears(line)
  <2>1. Len(args) = 1 /\ args[1] = "--confirm"
    BY <1>5, <1>8
  <2>2. Len(line) = 2 /\ line[1] = "/clear" /\ line[2] = "--confirm"
    BY <1>4, <1>6, <2>1
  <2>3. line = <<line[1], line[2]>>
    BY <2>2
  <2> QED
    BY <2>2, <2>3 DEF Clears
<1> QED
  BY <1>2, <1>3, <1>7, <1>8

Alike(handled, before, after) ==
    handled # <<>> => handled[1].session = IF handled[1].message = "compacted" THEN after ELSE before

\* What one command of the chain does.
WithBackup(acc, at) == [t \in {at} \cup DOMAIN acc.backups |-> IF t = at THEN acc.session ELSE acc.backups[t]]
Stepped(acc, line, at, failing, r) ==
    /\ acc.exit # 0 => r = acc
    /\ acc.exit = 0 =>
         /\ r.exit = 0 <=> Succeeds(line, failing)
         /\ r.exit # 0 => r.printed = acc.printed
         /\ r.exit = 0 => \E said \in Said : said.of = Parse(line).name /\ r.printed = Append(acc.printed, said)
         /\ r.exit = 0 => \A large : Alike(HandleSlashCommand(line, acc.session, large), acc.session, r.session)
    /\ acc.file = acc.session => r.file = r.session
    /\ \/ r.backups = acc.backups /\ Told(r.session) = Told(acc.session)
       \/ Clears(line) /\ r.backups = WithBackup(acc, at) /\ Told(r.session) \in {Told(acc.session), {}}

\* What is handled without being resumed has a compaction in it or nothing.
LEMMA HandledAlike ==
  ASSUME NEW Thing, NEW line, NEW session \in SessionsTelling(Thing), Parse(line).is = "command", NEW large
  PROVE  /\ Parse(line).name # "compact" => \A after : Alike(HandleSlashCommand(line, session, large), session, after)
         /\ Parse(line).name = "compact" =>
               Alike(HandleSlashCommand(line, session, large), session, CompactSession(session, TRUE).session)
<1> DEFINE command == Parse(line)
           result == CompactSession(session, large)
<1> HIDE DEF command, result
<1>1. command.is = "command" /\ HandleSlashCommand(line, session, large) = HandleParsed(command, session, large)
  BY DEF HandleSlashCommand, command
<1>2. CASE command.name = "help"
  <2>1. HandleParsed(command, session, large) = <<[message |-> "help", session |-> session]>>
    BY <1>1, <1>2 DEF HandleParsed
  <2>2. \A after : Alike(<<[message |-> "help", session |-> session]>>, session, after)
    BY DEF Alike
  <2> QED
    BY <1>1, <1>2, <2>1, <2>2 DEF command
<1>3. CASE command.name = "compact"
  <2>1. HandleParsed(command, session, large) =
           <<[message |-> IF result.removed = 0 THEN "skipped" ELSE "compacted", session |-> result.session]>>
    BY <1>1, <1>3 DEF HandleParsed, result
  <2>2. result.removed = 0 => result.session = session
    BY CompactTells DEF result
  <2>3. result.removed # 0 => result.session = CompactSession(session, TRUE).session
    <3>1. CASE large
      BY <3>1 DEF result, CompactSession
    <3>2. CASE ~large
      BY <3>2, CompactTells DEF result
    <3> QED
      BY <3>1, <3>2
  <2>4. Alike(<<[message |-> IF result.removed = 0 THEN "skipped" ELSE "compacted", session |-> result.session]>>,
              session, CompactSession(session, TRUE).session)
    BY <2>2, <2>3 DEF Alike
  <2> QED
    BY <1>1, <1>3, <2>1, <2>4 DEF command
<1>4. CASE command.name \notin {"help", "compact"}
  <2>1. HandleParsed(command, session, large) = <<>>
    BY <1>1, <1>4 DEF HandleParsed
  <2> QED
    BY <1>1, <1>4, <2>1 DEF Alike, command
<1> QED
  BY <1>2, <1>3, <1>4

LEMMA RunStep ==
  ASSUME NEW Word, NEW Thing, NEW Time, NEW acc \in Chains(Thing, Time), NEW line \in Seq(Word), NEW at \in Time,
         NEW failing \in 0..2
  PROVE  /\ RunResumeCommand(acc, line, at, failing) \in Chains(Thing, Time)
         /\ Stepped(acc, line, at, failing, RunResumeCommand(acc, line, at, failing))
<1> DEFINE command == Parse(line)
           runs == command.is = "command" /\ RunsResumed(command)
           Say(count) == Says(command.name, count, acc.json)
           stopped == [acc EXCEPT !.exit = 2]
           backed == [acc EXCEPT !.backups = WithBackup(acc, at)]
           confirmed == command.name = "clear" /\ SlashCommand("clear", command.args).confirm
           to == CompactSession(acc.session, TRUE)
           r == RunResumeCommand(acc, line, at, failing)
           Holds(x) == x \in Chains(Thing, Time) /\ Stepped(acc, line, at, failing, x)
<1> HIDE DEF command
<1>1. r = RunParsed(acc, command, at, failing)
  BY DEF RunResumeCommand, command
<1> HIDE DEF r, confirmed
<1>2. /\ acc.session \in SessionsTelling(Thing) /\ acc.file \in SessionsTelling(Thing) /\ acc.exit \in {0, 2} /\ acc.json \in BOOLEAN
      /\ acc.printed \in Seq(Said) /\ acc.backups \in BackupSets(Thing, Time)
      /\ acc = [session |-> acc.session, file |-> acc.file, backups |-> acc.backups, printed |-> acc.printed,
                exit |-> acc.exit, json |-> acc.json]
  BY DEF Chains
<1>3. stopped \in Chains(Thing, Time)
  BY DEF Chains
<1>4. WithBackup(acc, at) \in BackupSets(Thing, Time)
  <2>1. PICK times \in SUBSET Time : acc.backups \in [times -> SessionsTelling(Thing)]
    BY <1>2 DEF BackupSets
  <2>2. WithBackup(acc, at) \in [{at} \cup times -> SessionsTelling(Thing)]
    BY <1>2, <2>1 DEF WithBackup
  <2>3. {at} \cup times \in SUBSET Time
    OBVIOUS
  <2> QED
    BY <2>2, <2>3 DEF BackupSets
<1>5. ASSUME runs, NEW count \in Int PROVE Say(count) \in Said /\ Say(count).of = Parse(line).name
  <2>1. command.name \in {Canonical(Slash[word]) : word \in DOMAIN Slash}
    BY <1>5, CommandIs DEF command
  <2> QED
    BY <1>2, <2>1 DEF Says, Said, command
<1>6. runs /\ command.name = "clear" => (confirmed <=> Clears(line))
  BY ClearWords DEF command, confirmed
<1>7. Clears(line) => runs /\ command.name = "clear"
  BY ClearIs DEF command
<1>8. Succeeds(line, failing) <=> runs /\ (failing = 0 \/ (failing = 2 /\ ~Clears(line)))
  BY DEF Succeeds, command
<1>9. runs => \A large : /\ command.name # "compact" =>
                               \A after : Alike(HandleSlashCommand(line, acc.session, large), acc.session, after)
                         /\ command.name = "compact" =>
                               Alike(HandleSlashCommand(line, acc.session, large), acc.session, to.session)
  BY <1>2, HandledAlike DEF command
<1>10. CASE acc.exit # 0
  <2>1. r = acc
    BY <1>1, <1>10 DEF RunParsed
  <2> QED
    BY <1>10, <2>1 DEF Stepped, r
<1>11. ASSUME acc.exit = 0, r = stopped, ~Succeeds(line, failing) PROVE Holds(r)
  <2>1. stopped.exit = 2 /\ stopped.printed = acc.printed /\ stopped.backups = acc.backups
        /\ stopped.file = acc.file /\ stopped.session = acc.session
    BY <1>2
  <2> HIDE DEF stopped
  <2> QED
    BY <1>3, <1>11, <2>1 DEF Stepped
<1>12. CASE acc.exit = 0 /\ ~runs
  <2>1. r = stopped
    BY <1>1, <1>12 DEF RunParsed
  <2> QED
    BY <1>8, <1>11, <1>12, <2>1 DEF r
<1>13. CASE acc.exit = 0 /\ runs /\ failing = 1
  <2>1. r = stopped
    BY <1>1, <1>13 DEF RunParsed, confirmed
  <2> QED
    BY <1>8, <1>11, <1>13, <2>1 DEF r
<1>14. CASE acc.exit = 0 /\ runs /\ failing # 1 /\ command.name = "compact"
  <2> DEFINE end == [session |-> to.session, file |-> to.session, backups |-> acc.backups,
                     printed |-> Append(acc.printed, Say(to.removed)), exit |-> 0, json |-> acc.json]
  <2>1. r = end
    <3>1. r = [[acc EXCEPT !.session = to.session, !.file = to.session] EXCEPT !.printed = Append(@, Say(to.removed))]
      BY <1>1, <1>14 DEF RunParsed
    <3> HIDE DEF to, Say
    <3> QED
      BY <1>2, <1>14, <3>1
  <2>2. to.session \in SessionsTelling(Thing) /\ to.removed \in Int /\ Told(to.session) = Told(acc.session)
    BY <1>2, CompactTells
  <2>3. Say(to.removed) \in Said /\ Say(to.removed).of = Parse(line).name
    BY <1>5, <1>14, <2>2
  <2>4. Succeeds(line, failing)
    BY <1>7, <1>8, <1>14
  <2> HIDE DEF to, Say
  <2>5. end \in Chains(Thing, Time)
    BY <1>2, <2>2, <2>3 DEF Chains
  <2>6. \A large : Alike(HandleSlashCommand(line, acc.session, large), acc.session, to.session)
    BY <1>9, <1>14
  <2>7. Stepped(acc, line, at, failing, end)
    BY <1>14, <2>2, <2>3, <2>4, <2>6 DEF Stepped
  <2> QED
    BY <2>1, <2>5, <2>7 DEF r
<1>15. CASE acc.exit = 0 /\ runs /\ failing = 2 /\ confirmed
  <2> DEFINE end == [session |-> acc.session, file |-> acc.file, backups |-> WithBackup(acc, at),
                     printed |-> acc.printed, exit |-> 2, json |-> acc.json]
  <2>1. r = end
    <3>1. command.name = "clear" /\ SlashCommand("clear", command.args).confirm
      BY <1>15 DEF confirmed
    <3>2. r = [[acc EXCEPT !.backups = WithBackup(acc, at)] EXCEPT !.exit = 2]
      BY <1>1, <1>2, <1>15, <3>1 DEF RunParsed, WithBackup
    <3> QED
      BY <1>2, <3>2
  <2>2. Clears(line)
    BY <1>6, <1>15 DEF confirmed
  <2>3. ~Succeeds(line, failing)
    BY <1>8, <1>15, <2>2
  <2>4. end \in Chains(Thing, Time)
    BY <1>2, <1>4 DEF Chains
  <2>5. Stepped(acc, line, at, failing, end)
    BY <1>15, <2>2, <2>3 DEF Stepped
  <2> QED
    BY <2>1, <2>4, <2>5 DEF r
<1>16. CASE acc.exit = 0 /\ runs /\ failing = 0 /\ confirmed
  <2> DEFINE end == [session |-> Cleared(acc.session), file |-> Cleared(acc.session), backups |-> WithBackup(acc, at),
                     printed |-> Append(acc.printed, Say(0)), exit |-> 0, json |-> acc.json]
  <2>1. r = end
    <3>1. command.name = "clear" /\ SlashCommand("clear", command.args).confirm
      BY <1>16 DEF confirmed
    <3>2. r = [[[acc EXCEPT !.backups = WithBackup(acc, at)]
                    EXCEPT !.session = Cleared(acc.session), !.file = Cleared(acc.session)]
                  EXCEPT !.printed = Append(@, Say(0))]
      BY <1>1, <1>2, <1>16, <3>1 DEF RunParsed, WithBackup
    <3> HIDE DEF Say
    <3> QED
      BY <1>2, <1>16, <3>2
  <2>2. Clears(line)
    BY <1>6, <1>16 DEF confirmed
  <2>3. Succeeds(line, failing)
    BY <1>8, <1>16
  <2>4. Cleared(acc.session) \in SessionsTelling(Thing) /\ Told(Cleared(acc.session)) = {}
    BY <1>2 DEF Cleared, SessionsTelling, Told
  <2>5. Say(0) \in Said /\ Say(0).of = Parse(line).name
    BY <1>5, <1>16
  <2> HIDE DEF Say
  <2>6. end \in Chains(Thing, Time)
    BY <1>2, <1>4, <2>4, <2>5 DEF Chains
  <2>7. \A large, after : Alike(HandleSlashCommand(line, acc.session, large), acc.session, after)
    BY <1>9, <1>16 DEF confirmed
  <2>8. Stepped(acc, line, at, failing, end)
    BY <1>16, <2>2, <2>3, <2>4, <2>5, <2>7 DEF Stepped
  <2> QED
    BY <2>1, <2>6, <2>8 DEF r
<1>17. CASE acc.exit = 0 /\ runs /\ failing # 1 /\ command.name # "compact" /\ ~confirmed
  <2> DEFINE end == [session |-> acc.session, file |-> acc.file, backups |-> acc.backups,
                     printed |-> Append(acc.printed, Say(0)), exit |-> 0, json |-> acc.json]
  <2>1. r = end
    <3>1. r = [acc EXCEPT !.printed = Append(@, Say(0))]
      BY <1>1, <1>17 DEF RunParsed, confirmed
    <3> HIDE DEF Say
    <3> QED
      BY <1>2, <1>17, <3>1
  <2>2. ~Clears(line)
    BY <1>6, <1>7, <1>17
  <2>3. Succeeds(line, failing)
    BY <1>8, <1>17, <2>2
  <2>4. Say(0) \in Said /\ Say(0).of = Parse(line).name
    BY <1>5, <1>17
  <2> HIDE DEF Say
  <2>5. end \in Chains(Thing, Time)
    BY <1>2, <2>4 DEF Chains
  <2>6. \A large, after : Alike(HandleSlashCommand(line, acc.session, large), acc.session, after)
    BY <1>9, <1>17
  <2>7. Stepped(acc, line, at, failing, end)
    BY <1>17, <2>3, <2>4, <2>6 DEF Stepped
  <2> QED
    BY <2>1, <2>5, <2>7 DEF r
<1>18. failing = 0 \/ failing = 1 \/ failing = 2
  OBVIOUS
<1>19. confirmed => command.name # "compact"
  BY DEF confirmed
<1> QED
  BY <1>10, <1>12, <1>13, <1>14, <1>15, <1>16, <1>17, <1>18, <1>19
\* A session resumed with commands, and the chain of what they make of it.
Resumable(q, Word, Thing, Time) ==
    /\ q.session \in SessionsTelling(Thing) /\ q.lines \in Seq(Seq(Word)) /\ q.json \in BOOLEAN
    /\ q.times \in [DOMAIN q.lines -> Time] /\ q.failing \in [DOMAIN q.lines -> 0..2]
Linked(chain, q, Thing, Time) ==
    /\ chain \in [0..Len(q.lines) -> Chains(Thing, Time)]
    /\ chain[0] = [session |-> q.session, file |-> q.session, backups |-> <<>>, printed |-> <<>>, exit |-> 0,
                   json |-> q.json]
    /\ \A n \in 1..Len(q.lines) : Stepped(chain[n - 1], q.lines[n], q.times[n], q.failing[n], chain[n])

LEMMA ChainIs ==
  ASSUME NEW Word, NEW Thing, NEW Time, NEW q, Resumable(q, Word, Thing, Time)
  PROVE  Linked(ResumeSession(q.session, q.lines, q.times, q.failing, q.json), q, Thing, Time)
<1>0. PICK session, lines, times, failing, json :
          /\ session = q.session /\ lines = q.lines /\ times = q.times /\ failing = q.failing /\ json = q.json
          /\ session \in SessionsTelling(Thing) /\ lines \in Seq(Seq(Word)) /\ json \in BOOLEAN
          /\ times \in [DOMAIN lines -> Time] /\ failing \in [DOMAIN lines -> 0..2]
  BY DEF Resumable
<1> DEFINE N == Len(lines)
           A == Chains(Thing, Time)
           opened == [session |-> session, file |-> session, backups |-> <<>>, printed |-> <<>>, exit |-> 0, json |-> json]
           Run(acc, n) == RunResumeCommand(acc, lines[n], times[n], failing[n])
           step == [n \in 1..N |-> [acc \in A |-> Run(acc, n)]]
           Is(e) == e = [n \in 0..N |-> IF n = 0 THEN opened ELSE Run(e[n - 1], n)]
           chain == ResumeSession(session, lines, times, failing, json)
<1>1. /\ N \in Nat /\ DOMAIN lines = 1..N
      /\ \A n \in 1..N : lines[n] \in Seq(Word) /\ times[n] \in Time /\ failing[n] \in 0..2
  BY <1>0
<1>2. \A n \in 1..N, acc \in A : Run(acc, n) \in A /\ Stepped(acc, lines[n], times[n], failing[n], Run(acc, n))
  BY <1>1, RunStep
<1>3. opened \in A
  <2>1. <<>> \in [{} -> SessionsTelling(Thing)] /\ {} \in SUBSET Time
    OBVIOUS
  <2>2. <<>> \in BackupSets(Thing, Time)
    BY <2>1 DEF BackupSets
  <2> QED
    BY <1>0, <2>2 DEF Chains
<1> HIDE DEF A, opened
<1>4. step \in Steps(N, A)
  <2> HIDE DEF N, Run
  <2> QED
    BY <1>2 DEF Steps
<1>5. PICK f : Iterates(f, N, A, opened, step)
  <2> HIDE DEF N, step
  <2> QED
    BY <1>1, <1>3, <1>4, Iterated
<1> HIDE DEF Run
<1>6. f \in [0..N -> A] /\ f[0] = opened /\ \A n \in 1..N : f[n] = Run(f[n - 1], n)
  <2>1. f \in [0..N -> A] /\ f[0] = opened /\ \A n \in 1..N : f[n] = step[n][f[n - 1]]
    BY <1>5 DEF Iterates
  <2>2. ASSUME NEW n \in 1..N PROVE f[n] = Run(f[n - 1], n)
    <3>1. n - 1 \in 0..N
      BY <1>1
    <3>2. f[n - 1] \in A
      BY <2>1, <3>1
    <3>3. step[n] = [acc \in A |-> Run(acc, n)]
      OBVIOUS
    <3> HIDE DEF step
    <3>4. step[n][f[n - 1]] = Run(f[n - 1], n)
      BY <3>2, <3>3
    <3> QED
      BY <2>1, <3>4
  <2> QED
    BY <2>1, <2>2
<1>7. \E e : Is(e)
  <2> DEFINE g == [n \in 0..N |-> IF n = 0 THEN opened ELSE Run(f[n - 1], n)]
  <2>1. \A n \in 0..N : f[n] = g[n]
    BY <1>1, <1>6
  <2>2. f = [n \in 0..N |-> f[n]] /\ g = [n \in 0..N |-> g[n]]
    BY <1>6
  <2> HIDE DEF g
  <2>3. f = g
    BY <2>1, <2>2
  <2>4. Is(f)
    BY <2>3 DEF g
  <2> QED
    BY <2>4
<1>8. chain = CHOOSE e : Is(e)
  BY DEF ResumeSession, opened, Run
<1> HIDE DEF chain
<1>9. Is(chain)
  BY <1>7, <1>8
<1>10. chain[0] = opened /\ \A n \in 1..N : chain[n] = Run(chain[n - 1], n)
  <2>1. \A n \in 0..N : chain[n] = IF n = 0 THEN opened ELSE Run(chain[n - 1], n)
    BY <1>9
  <2>2. 0 \in 0..N /\ \A n \in 1..N : n \in 0..N /\ n # 0
    BY <1>1
  <2> QED
    BY <2>1, <2>2
<1>11. chain \in [0..N -> A]
  <2> DEFINE S == {m \in Nat : m <= N => chain[m] \in A}
  <2>1. 0 \in S
    BY <1>3, <1>10
  <2>2. ASSUME NEW m \in Nat, m \in S PROVE m + 1 \in S
    <3> SUFFICES ASSUME m + 1 <= N PROVE chain[m + 1] \in A
      OBVIOUS
    <3>1. chain[m + 1] = Run(chain[m], m + 1)
      BY <1>1, <1>10
    <3>2. chain[m] \in A
      BY <2>2
    <3>3. m + 1 \in 1..N
      BY <1>1
    <3> HIDE DEF N
    <3> QED
      BY <1>2, <3>1, <3>2, <3>3 DEF Run
  <2> HIDE DEF S
  <2>3. Nat \subseteq S
    BY <2>1, <2>2, Induction
  <2>4. \A m \in 0..N : chain[m] \in A
    BY <1>1, <2>3 DEF S
  <2>5. chain = [n \in 0..N |-> chain[n]]
    BY <1>9
  <2> HIDE DEF Is
  <2> QED
    BY <2>4, <2>5
<1>12. ASSUME NEW n \in 1..N PROVE Stepped(chain[n - 1], lines[n], times[n], failing[n], chain[n])
  <2>1. n - 1 \in 0..N
    BY <1>1
  <2>2. chain[n - 1] \in A /\ chain[n] = Run(chain[n - 1], n)
    BY <1>10, <1>11, <2>1
  <2> HIDE DEF N
  <2> QED
    BY <1>2, <2>2 DEF Run
<1> QED
  BY <1>0, <1>10, <1>11, <1>12 DEF chain, A, opened, Linked

LEMMA ChainsAgree ==
  ASSUME NEW Word, NEW Thing, NEW Time,
         Asked("resumed") => Resumable(question, Word, Thing, Time)
  PROVE  ChainAgrees
<1> SUFFICES ASSUME Asked("resumed") PROVE ChainAgrees
  BY DEF ChainAgrees
<1> DEFINE q == question
           lines == q.lines
           N == Len(lines)
           chain == ResumeSession(q.session, q.lines, q.times, q.failing, q.json)
           apart == \A i, j \in DOMAIN lines : i # j /\ Clears(lines[i]) /\ Clears(lines[j]) => q.times[i] # q.times[j]
           Good(i) == Succeeds(lines[i], q.failing[i])
           Stored(c) == UNION {Told(c.backups[t]) : t \in DOMAIN c.backups}
           After(n, c) ==
              /\ c.file = c.session
              /\ c.exit = 0 <=> \A i \in 1..n : Good(i)
              /\ Len(c.printed) <= n /\ (c.exit = 0 => Len(c.printed) = n)
              /\ \A i \in 1..Len(c.printed) : (\A k \in 1..i : Good(k)) /\ c.printed[i].of = Parse(lines[i]).name
              /\ \A t \in DOMAIN c.backups : \E i \in 1..n : Clears(lines[i]) /\ t = q.times[i]
              /\ apart => Told(q.session) = Told(c.session) \cup Stored(c)
           S == {n \in Nat : n <= N => After(n, chain[n])}
<1>1. /\ lines \in Seq(Seq(Word)) /\ N \in Nat /\ DOMAIN lines = 1..N
      /\ q.times \in [1..N -> Time] /\ q.failing \in [1..N -> 0..2]
  BY DEF Resumable
<1>2. /\ chain \in [0..N -> Chains(Thing, Time)]
      /\ chain[0] = [session |-> q.session, file |-> q.session, backups |-> <<>>, printed |-> <<>>, exit |-> 0, json |-> q.json]
      /\ \A n \in 1..N : Stepped(chain[n - 1], lines[n], q.times[n], q.failing[n], chain[n])
  <2>1. Linked(chain, q, Thing, Time)
    <3> HIDE DEF q
    <3>1. Resumable(q, Word, Thing, Time)
      BY DEF q
    <3> QED
      BY <3>1, ChainIs
  <2> HIDE DEF chain
  <2> QED
    BY <2>1 DEF Linked
<1> HIDE DEF chain, Good
<1>3. 0 \in S
  <2> DEFINE c == chain[0]
  <2>1. c.file = q.session /\ c.session = q.session /\ c.backups = <<>> /\ c.printed = <<>> /\ c.exit = 0
    BY <1>2
  <2>2. DOMAIN c.backups = {} /\ Len(c.printed) = 0
    BY <2>1
  <2> HIDE DEF c
  <2>3. After(0, c)
    BY <2>1, <2>2
  <2> QED
    BY <2>3 DEF c
<1>4. ASSUME NEW n \in Nat, n \in S PROVE n + 1 \in S
  <2> SUFFICES ASSUME n + 1 <= N PROVE After(n + 1, chain[n + 1])
    OBVIOUS
  <2> DEFINE c == chain[n]
             d == chain[n + 1]
             at == q.times[n + 1]
  <2>1. n \in 0..N /\ n + 1 \in 1..N /\ (n + 1) - 1 = n /\ n + 1 \in 0..N
    BY <1>1
  <2>2. Stepped(c, lines[n + 1], at, q.failing[n + 1], d) /\ c \in Chains(Thing, Time) /\ d \in Chains(Thing, Time)
    BY <1>2, <2>1
  <2>3. After(n, c)
    <3> HIDE DEF After, N
    <3> QED
      BY <1>1, <1>4, <2>1
  <2>4. c.printed \in Seq(Said) /\ c.exit \in {0, 2} /\ c.backups \in BackupSets(Thing, Time)
    BY <2>2 DEF Chains
  <2> HIDE DEF c, d, N, S
  <2>5. d.file = d.session
    BY <2>2, <2>3 DEF Stepped
  <2>6. d.exit = 0 <=> c.exit = 0 /\ Good(n + 1)
    BY <2>2 DEF Stepped, Good
  <2>7. d.exit = 0 <=> \A i \in 1..(n + 1) : Good(i)
    BY <2>3, <2>6
  <2>8. /\ Len(d.printed) <= n + 1 /\ (d.exit = 0 => Len(d.printed) = n + 1)
        /\ \A i \in 1..Len(d.printed) : (\A k \in 1..i : Good(k)) /\ d.printed[i].of = Parse(lines[i]).name
    <3>1. CASE d.exit # 0
      <4>1. d.printed = c.printed
        BY <2>2, <3>1 DEF Stepped
      <4>2. Len(c.printed) \in Nat
        BY <2>4
      <4> QED
        BY <2>3, <3>1, <4>1, <4>2
    <3>2. CASE d.exit = 0
      <4>1. c.exit = 0
        BY <2>6, <3>2
      <4>2. PICK said \in Said : said.of = Parse(lines[n + 1]).name /\ d.printed = Append(c.printed, said)
        BY <2>2, <3>2, <4>1 DEF Stepped
      <4>3. Len(c.printed) = n
        BY <2>3, <4>1
      <4>4. Len(d.printed) = n + 1 /\ d.printed[n + 1] = said /\ \A i \in 1..n : d.printed[i] = c.printed[i]
        BY <2>4, <4>2, <4>3
      <4> HIDE DEF lines
      <4>5. ASSUME NEW i \in 1..(n + 1) PROVE (\A k \in 1..i : Good(k)) /\ d.printed[i].of = Parse(lines[i]).name
        <5>1. \A k \in 1..i : k \in 1..(n + 1)
          OBVIOUS
        <5>2. CASE i = n + 1
          BY <2>7, <3>2, <4>2, <4>4, <5>1, <5>2
        <5>3. CASE i # n + 1
          <6>1. i \in 1..n
            BY <5>3
          <6>2. d.printed[i] = c.printed[i] /\ c.printed[i].of = Parse(lines[i]).name
            BY <2>3, <4>3, <4>4, <6>1
          <6> QED
            BY <2>7, <3>2, <5>1, <6>2
        <5> QED
          BY <5>2, <5>3
      <4> QED
        BY <4>4, <4>5
    <3> QED
      BY <3>1, <3>2
  <2>9. /\ \A t \in DOMAIN d.backups : \E i \in 1..(n + 1) : Clears(lines[i]) /\ t = q.times[i]
        /\ apart => Told(q.session) = Told(d.session) \cup Stored(d)
    <3>1. CASE d.backups = c.backups /\ Told(d.session) = Told(c.session)
      <4>1. \A i \in 1..n : i \in 1..(n + 1)
        OBVIOUS
      <4>2. Stored(d) = Stored(c)
        BY <3>1
      <4> HIDE DEF Stored, apart, lines
      <4> QED
        BY <2>3, <3>1, <4>1, <4>2
    <3>2. CASE /\ Clears(lines[n + 1]) /\ d.backups = WithBackup(c, at)
               /\ Told(d.session) \in {Told(c.session), {}}
      <4>1. DOMAIN d.backups = {at} \cup DOMAIN c.backups
        BY <3>2 DEF WithBackup
      <4>2. \A t \in {at} \cup DOMAIN c.backups : d.backups[t] = IF t = at THEN c.session ELSE c.backups[t]
        BY <3>2 DEF WithBackup
      <4>3. ASSUME NEW t \in DOMAIN d.backups PROVE \E i \in 1..(n + 1) : Clears(lines[i]) /\ t = q.times[i]
        <5>1. CASE t = at
          BY <3>2, <5>1
        <5>2. CASE t # at
          <6>1. PICK i \in 1..n : Clears(lines[i]) /\ t = q.times[i]
            BY <2>3, <4>1, <5>2
          <6>2. i \in 1..(n + 1)
            OBVIOUS
          <6> QED
            BY <6>1, <6>2
        <5> QED
          BY <5>1, <5>2
      <4>4. ASSUME apart PROVE Told(q.session) = Told(d.session) \cup Stored(d)
        <5>1. at \notin DOMAIN c.backups
          <6> SUFFICES ASSUME at \in DOMAIN c.backups PROVE FALSE
            OBVIOUS
          <6>1. PICK i \in 1..n : Clears(lines[i]) /\ at = q.times[i]
            BY <2>3
          <6>2. i \in DOMAIN lines /\ n + 1 \in DOMAIN lines /\ i # n + 1
            BY <1>1, <2>1
          <6> HIDE DEF lines
          <6> QED
            BY <3>2, <4>4, <6>1, <6>2
        <5>2. Stored(d) = Told(c.session) \cup Stored(c)
          <6>1. d.backups[at] = c.session /\ \A t \in DOMAIN c.backups : d.backups[t] = c.backups[t]
            BY <4>2, <5>1
          <6> HIDE DEF at
          <6>2. \A t \in DOMAIN d.backups : Told(d.backups[t]) \subseteq Told(c.session) \cup Stored(c)
            BY <4>1, <6>1
          <6>3. Told(c.session) \subseteq Stored(d) /\ \A t \in DOMAIN c.backups : Told(c.backups[t]) \subseteq Stored(d)
            BY <4>1, <6>1
          <6> QED
            BY <6>2, <6>3
        <5>3. Told(q.session) = Told(c.session) \cup Stored(c)
          BY <2>3, <4>4
        <5> HIDE DEF Stored
        <5> QED
          BY <3>2, <5>2, <5>3
      <4> QED
        BY <4>3, <4>4
    <3> QED
      BY <2>2, <3>1, <3>2 DEF Stepped
  <2> HIDE DEF apart, lines, Stored
  <2> QED
    BY <2>5, <2>7, <2>8, <2>9 DEF d
<1>5. \A n \in 0..N : After(n, chain[n])
  <2> HIDE DEF S, After
  <2>1. Nat \subseteq S
    BY <1>3, <1>4, Induction
  <2> QED
    BY <1>1, <2>1 DEF S
<1> DEFINE end == chain[N]
<1>6. After(N, end) /\ end.printed \in Seq(Said) /\ DOMAIN end.printed = 1..Len(end.printed)
  <2>1. N \in 0..N
    BY <1>1
  <2>2. end \in Chains(Thing, Time)
    BY <1>2, <2>1
  <2>3. end.printed \in Seq(Said)
    BY <2>2 DEF Chains
  <2> HIDE DEF end, After
  <2>4. After(N, end)
    BY <1>5, <2>1 DEF end
  <2> QED
    BY <2>3, <2>4
<1>7. ASSUME NEW i \in DOMAIN end.printed, NEW large \in BOOLEAN
      PROVE  Alike(HandleSlashCommand(lines[i], chain[i - 1].session, large), chain[i - 1].session, chain[i].session)
  <2>1. i \in 1..N /\ i - 1 \in 0..N /\ i \in 0..N
    BY <1>1, <1>6
  <2>2. \A k \in 1..i : Good(k)
    BY <1>6
  <2>3. chain[i].exit = 0 /\ chain[i - 1].exit = 0
    <3>1. After(i, chain[i]) /\ After(i - 1, chain[i - 1])
      BY <1>5, <2>1
    <3>2. \A k \in 1..(i - 1) : Good(k)
      BY <2>1, <2>2
    <3> QED
      BY <2>2, <3>1, <3>2
  <2>4. Stepped(chain[i - 1], lines[i], q.times[i], q.failing[i], chain[i])
    BY <1>2, <2>1
  <2> HIDE DEF lines
  <2> QED
    BY <2>3, <2>4 DEF Stepped
<1>8. \A i \in DOMAIN end.printed : Good(i) /\ end.printed[i].of = Parse(lines[i]).name
  <2>1. \A i \in 1..Len(end.printed) : i \in 1..i
    OBVIOUS
  <2> QED
    BY <1>6, <2>1
<1> HIDE DEF After
<1>9. /\ end.file = end.session /\ (apart => Told(q.session) = Told(end.session) \cup Stored(end))
      /\ end.exit = 0 <=> \A i \in DOMAIN lines : Good(i)
  BY <1>1, <1>6 DEF After
<1> HIDE DEF end
<1> QED
  BY <1>7, <1>8, <1>9 DEF ChainAgrees, Good, Alike, chain, end
-----------------------------------------------------------------------------
(* parse_args.                                                             *)
Readings(Word) ==
    [is : {"reading", "error", "-p"}, option : {""} \cup ValueOptions, mode : Modes \cup {"default"},
     help : BOOLEAN, version : BOOLEAN, rest : Seq(Word)]

LEMMA ReadWordType ==
  ASSUME NEW Word, NEW acc \in Readings(Word), NEW word \in Word
  PROVE  ReadWord(acc, word) \in Readings(Word)
<1>1. Append(acc.rest, word) \in Seq(Word) /\ <<>> \in Seq(Word)
  <2>1. acc.rest \in Seq(Word)
    BY DEF Readings
  <2>2. \A s \in Seq(Word) : Append(s, word) \in Seq(Word)
    OBVIOUS
  <2> QED
    BY <2>1, <2>2
<1>2. "danger-full-access" \in Modes
  BY DEF Modes, OneOf
<1>3. Failed(acc) \in Readings(Word)
  BY DEF Failed, Readings
<1>4. CASE acc.is = "error"
  BY <1>4 DEF ReadWord
<1>5. CASE acc.is = "-p"
  BY <1>1, <1>5 DEF ReadWord, Readings
<1>6. CASE acc.is = "reading" /\ acc.option # ""
  <2>1. CASE ~ValueFits(acc.option, word)
    BY <1>3, <1>6, <2>1 DEF ReadWord
  <2>2. CASE ValueFits(acc.option, word)
    <3>1. (IF acc.option = "--permission-mode" THEN word ELSE acc.mode) \in Modes \cup {"default"}
      BY <2>2 DEF ValueFits, Readings
    <3>2. ReadWord(acc, word) =
             [acc EXCEPT !.option = "", !.mode = IF acc.option = "--permission-mode" THEN word ELSE acc.mode]
      BY <1>6, <2>2 DEF ReadWord
    <3> QED
      BY <3>1, <3>2 DEF Readings
  <2> QED
    BY <2>1, <2>2
<1>7. CASE acc.is = "reading" /\ acc.option = ""
  <2>1. CASE word \in ValueOptions
    <3>1. ReadWord(acc, word) = [acc EXCEPT !.option = word]
      BY <1>7, <2>1 DEF ReadWord, ValueOptions
    <3> QED
      BY <2>1, <3>1 DEF Readings
  <2>2. CASE word \notin ValueOptions
    <3>1. ReadWord(acc, word) \in
             {[acc EXCEPT !.mode = "danger-full-access"], acc, [acc EXCEPT !.version = TRUE],
              [acc EXCEPT !.help = TRUE], [acc EXCEPT !.is = "-p", !.rest = <<>>], Failed(acc),
              [acc EXCEPT !.rest = Append(acc.rest, word)]}
      <4>1. CASE word = "--dangerously-skip-permissions"
        BY <1>7, <2>2, <4>1 DEF ReadWord
      <4>2. CASE word \in {"--compact", "--print"}
        BY <1>7, <2>2, <4>2 DEF ReadWord
      <4>3. CASE word = "--version"
        BY <1>7, <2>2, <4>3 DEF ReadWord
      <4>4. CASE word = "--help" /\ acc.rest = <<>>
        BY <1>7, <2>2, <4>4 DEF ReadWord
      <4>5. CASE word = "-p"
        BY <1>7, <2>2, <4>5 DEF ReadWord
      <4>6. CASE word = "--unknown" /\ acc.rest = <<>>
        BY <1>7, <2>2, <4>6 DEF ReadWord
      <4>7. CASE /\ word \notin {"--dangerously-skip-permissions", "--compact", "--print", "--version", "-p"}
                 /\ ~(word = "--help" /\ acc.rest = <<>>) /\ ~(word = "--unknown" /\ acc.rest = <<>>)
        <5>1. ReadWord(acc, word) = [acc EXCEPT !.rest = Append(acc.rest, word)]
          BY <1>7, <2>2, <4>7 DEF ReadWord
        <5> QED
          BY <5>1
      <4> QED
        BY <4>1, <4>2, <4>3, <4>4, <4>5, <4>6, <4>7
    <3> QED
      BY <1>1, <1>2, <1>3, <3>1 DEF Readings
  <2> QED
    BY <2>1, <2>2
<1> QED
  BY <1>4, <1>5, <1>6, <1>7 DEF Readings

LEMMA ReadWordsIs ==
  ASSUME NEW Word, NEW args \in Seq(Word)
  PROVE  \E g \in [0..Len(args) -> Readings(Word)] :
            /\ g[0] = Nothing /\ \A n \in 1..Len(args) : g[n] = ReadWord(g[n - 1], args[n])
            /\ ReadWords(args) = g[Len(args)]
<1> DEFINE N == Len(args)
           A == Readings(Word)
           step == [n \in 1..N |-> [acc \in A |-> ReadWord(acc, args[n])]]
           Is(e) == e = [n \in 0..N |-> IF n = 0 THEN Nothing ELSE ReadWord(e[n - 1], args[n])]
<1>1. N \in Nat /\ \A n \in 1..N : args[n] \in Word
  OBVIOUS
<1>2. step \in Steps(N, A) /\ Nothing \in A
  <2>1. Nothing \in A
    BY DEF Nothing, Readings
  <2>2. \A n \in 1..N, acc \in A : ReadWord(acc, args[n]) \in A
    BY <1>1, ReadWordType
  <2> HIDE DEF A, N
  <2> QED
    BY <2>1, <2>2 DEF Steps
<1>3. PICK f \in [0..N -> A] : f[0] = Nothing /\ \A n \in 1..N : f[n] = step[n][f[n - 1]]
  <2> HIDE DEF N, A, step
  <2>1. \E f : Iterates(f, N, A, Nothing, step)
    BY <1>1, <1>2, Iterated
  <2> QED
    BY <2>1 DEF Iterates
<1>4. ASSUME NEW n \in 1..N PROVE f[n] = ReadWord(f[n - 1], args[n])
  <2> HIDE DEF A
  <2>1. n - 1 \in 0..N
    OBVIOUS
  <2>2. f[n - 1] \in A
    BY <2>1
  <2>3. step[n] = [acc \in A |-> ReadWord(acc, args[n])]
    OBVIOUS
  <2> HIDE DEF step
  <2>4. step[n][f[n - 1]] = ReadWord(f[n - 1], args[n])
    BY <2>2, <2>3
  <2> QED
    BY <1>3, <2>4
<1>5. \E e : Is(e)
  <2> DEFINE g == [n \in 0..N |-> IF n = 0 THEN Nothing ELSE ReadWord(f[n - 1], args[n])]
  <2>1. \A n \in 0..N : f[n] = g[n]
    BY <1>1, <1>3, <1>4
  <2>2. f = [n \in 0..N |-> f[n]] /\ g = [n \in 0..N |-> g[n]]
    BY <1>3
  <2> HIDE DEF g
  <2>3. f = g
    BY <2>1, <2>2
  <2>4. Is(f)
    BY <2>3 DEF g
  <2> QED
    BY <2>4
<1> DEFINE h == CHOOSE e : Is(e)
<1>6. ReadWords(args) = h[N]
  BY DEF ReadWords
<1>7. Is(h)
  BY <1>5
<1> HIDE DEF h
<1>8. \A n \in 0..N : h[n] = IF n = 0 THEN Nothing ELSE ReadWord(h[n - 1], args[n])
  BY <1>7
<1> HIDE DEF A
<1>9. h \in [0..N -> A]
  <2> DEFINE S == {m \in Nat : m <= N => h[m] = f[m]}
  <2>1. 0 \in S
    BY <1>1, <1>3, <1>8
  <2>2. ASSUME NEW m \in Nat, m \in S PROVE m + 1 \in S
    <3> SUFFICES ASSUME m + 1 <= N PROVE h[m + 1] = f[m + 1]
      OBVIOUS
    <3>1. h[m + 1] = ReadWord(h[m], args[m + 1])
      BY <1>1, <1>8
    <3>2. f[m + 1] = ReadWord(f[m], args[m + 1])
      BY <1>1, <1>4
    <3>3. h[m] = f[m]
      BY <2>2
    <3> QED
      BY <3>1, <3>2, <3>3
  <2> HIDE DEF S
  <2>3. Nat \subseteq S
    BY <2>1, <2>2, Induction
  <2>4. \A m \in 0..N : h[m] = f[m]
    BY <1>1, <2>3 DEF S
  <2>5. h = [n \in 0..N |-> h[n]]
    BY <1>7
  <2> HIDE DEF Is
  <2> QED
    BY <1>3, <2>4, <2>5
<1>10. h[0] = Nothing /\ \A n \in 1..N : h[n] = ReadWord(h[n - 1], args[n])
  BY <1>1, <1>8
<1> HIDE DEF Is
<1> QED
  BY <1>6, <1>9, <1>10 DEF A

\* What is no option is kept as it is.
Options == ValueOptions \cup {"--dangerously-skip-permissions", "--compact", "--print", "--version", "--help", "-p", "--unknown"}
LEMMA KeepsWord ==
  ASSUME NEW word, word \notin Options
  PROVE  ReadWord(Nothing, word) = [is |-> "reading", option |-> "", mode |-> "default", help |-> FALSE,
                                    version |-> FALSE, rest |-> <<word>>]
<1>1. Append(<<>>, word) = <<word>>
  OBVIOUS
<1> QED
  BY <1>1 DEF ReadWord, Nothing, Options

LEMMA NamesAreNoOptions ==
  /\ (SpecNames \cup Subcommands \cup LocalWords \cup {"/skills"}) \cap (Options \cup {"--resume"}) = {}
  /\ "/skills" \notin SpecNames \cup Subcommands \cup LocalWords
<1> DEFINE No(S) == S \cap (Options \cup {"--resume"}) = {} /\ "/skills" \notin S
<1>1. \A g \in Groups : No(g.resume) /\ No(g.repl)
  <2>1. No(SessionSpecs.resume) /\ No(SessionSpecs.repl)
    BY DEF SessionSpecs, Specs, Options, ValueOptions
  <2>2. No(AccountSpecs.resume) /\ No(AccountSpecs.repl)
    BY DEF AccountSpecs, Specs, Options, ValueOptions
  <2>3. No(ViewSpecs.resume) /\ No(ViewSpecs.repl)
    BY DEF ViewSpecs, Specs, Options, ValueOptions
  <2>4. No(ControlSpecs.resume) /\ No(ControlSpecs.repl)
    BY DEF ControlSpecs, Specs, Options, ValueOptions
  <2>5. No(ModelSpecs.resume) /\ No(ModelSpecs.repl)
    BY DEF ModelSpecs, Specs, Options, ValueOptions
  <2>6. No(ProjectSpecs.resume) /\ No(ProjectSpecs.repl)
    BY DEF ProjectSpecs, Specs, Options, ValueOptions
  <2>7. No(CodeSpecs.resume) /\ No(CodeSpecs.repl)
    BY DEF CodeSpecs, Specs, Options, ValueOptions
  <2> HIDE DEF No
  <2> QED
    BY <2>1, <2>2, <2>3, <2>4, <2>5, <2>6, <2>7 DEF Groups
<1>2. No(Subcommands) /\ No(LocalWords)
  BY DEF Subcommands, LocalWords, Options, ValueOptions
<1>3. "/skills" \notin Options \cup {"--resume"}
  BY DEF Options, ValueOptions
<1>4. No(SpecNames)
  BY <1>1 DEF SpecNames, ResumeSupported
<1> QED
  BY <1>2, <1>3, <1>4

LEMMA OneWordKept ==
  ASSUME NEW Word, NEW args \in Seq(Word), Len(args) = 1, args[1] \in SpecNames \cup Subcommands \cup LocalWords
  PROVE  ParseArgs(args).action # "prompt"
<1> DEFINE word == args[1]
           end == ReadWords(args)
<1>1. word \notin Options /\ word # "--resume"
  BY NamesAreNoOptions
<1>2. end = ReadWord(Nothing, word)
  BY ReadWordsIs
<1> HIDE DEF word, end
<1>3. end.is = "reading" /\ end.option = "" /\ ~end.help /\ ~end.version /\ end.rest = <<word>>
  <2>1. end = [is |-> "reading", option |-> "", mode |-> "default", help |-> FALSE, version |-> FALSE, rest |-> <<word>>]
    BY <1>1, <1>2, KeepsWord
  <2> QED
    BY <2>1
<1>4. <<word>> # <<>> /\ <<word>>[1] = word /\ Len(<<word>>) = 1 /\ Tail(<<word>>) = <<>>
  OBVIOUS
<1>5. ActionOf(end) = IF SingleWord(word) # Action("none") THEN SingleWord(word) ELSE Dispatch(end, <<word>>)
  BY <1>1, <1>3, <1>4 DEF ActionOf
<1>6. SingleWord(word).action # "prompt"
  BY DEF SingleWord, Action
<1>7. SingleWord(word) = Action("none") => word \in Subcommands
  <2>1. Action("none") # Action("local") /\ Action("none") # Action("error")
    <3>1. Action("none").action = "none" /\ Action("local").action = "local" /\ Action("error").action = "error"
      BY DEF Action
    <3> QED
      BY <3>1
  <2>2. word \in SpecNames \cup Subcommands \cup LocalWords
    BY DEF word
  <2> QED
    BY <2>1, <2>2 DEF SingleWord
<1>8. ASSUME word \in Subcommands PROVE Dispatch(end, <<word>>).action # "prompt"
  <2>1. ~InvokesSkill(Tail(<<word>>))
    BY <1>4 DEF InvokesSkill
  <2> DEFINE one == <<word>>
  <2> HIDE DEF one
  <2>2. one[1] = word /\ Tail(one) = <<>> /\ ~InvokesSkill(Tail(one))
    BY <1>4, <2>1 DEF one
  <2>3. CASE word = "prompt"
    <3>1. Dispatch(end, one) = Action("error")
      BY <2>3, <2>2 DEF Dispatch, Subcommands
    <3> QED
      BY <3>1 DEF Action, one
  <2>4. CASE word # "prompt"
    <3>1. Dispatch(end, one) = Action("local")
      BY <1>8, <2>4, <2>2 DEF Dispatch
    <3> QED
      BY <3>1 DEF Action, one
  <2> QED
    BY <2>3, <2>4
<1> QED
  BY <1>5, <1>6, <1>7, <1>8 DEF ParseArgs, end

\* The words after "skills", read alongside those after "/skills".
Withheld == {"-p", "install"} \cup DOMAIN AfterInstall
Free(words) == \A i \in 1..Len(words) : words[i] \notin Withheld
Alongside(a, b, words) ==
    /\ a.is = b.is /\ a.is \in {"reading", "error"} /\ a.option = b.option /\ a.mode = b.mode
    /\ a.help = b.help /\ a.version = b.version
    /\ a.rest = <<"skills">> \o words /\ b.rest = <<"/skills">> \o words

\* A word after the first, as long as it is not "-p", is kept or sets an option.
Reads(acc, word) ==
    IF acc.is = "error" THEN acc
    ELSE IF acc.option # "" THEN IF ~ValueFits(acc.option, word) THEN Failed(acc)
                                 ELSE [acc EXCEPT !.option = "", !.mode = IF acc.option = "--permission-mode" THEN word ELSE acc.mode]
    ELSE IF word \in ValueOptions THEN [acc EXCEPT !.option = word]
    ELSE IF word = "--dangerously-skip-permissions" THEN [acc EXCEPT !.mode = "danger-full-access"]
    ELSE IF word \in {"--compact", "--print"} THEN acc
    ELSE IF word = "--version" THEN [acc EXCEPT !.version = TRUE]
    ELSE [acc EXCEPT !.rest = Append(acc.rest, word)]

LEMMA ReadsIs ==
  ASSUME NEW acc, NEW word, acc.is # "-p", acc.rest # <<>>, word # "-p"
  PROVE  ReadWord(acc, word) = Reads(acc, word)
<1>1. CASE acc.is = "error"
  BY <1>1 DEF ReadWord, Reads
<1>2. CASE acc.is # "error" /\ acc.option # ""
  BY <1>2 DEF ReadWord, Reads
<1>3. CASE acc.is # "error" /\ acc.option = ""
  <2>1. CASE word \in ValueOptions
    BY <1>3, <2>1 DEF ReadWord, Reads, ValueOptions
  <2>2. CASE word \notin ValueOptions
    <3>1. CASE word = "--dangerously-skip-permissions"
      BY <1>3, <2>2, <3>1 DEF ReadWord, Reads
    <3>2. CASE word \in {"--compact", "--print"}
      BY <1>3, <2>2, <3>2 DEF ReadWord, Reads
    <3>3. CASE word = "--version"
      BY <1>3, <2>2, <3>3 DEF ReadWord, Reads
    <3>4. CASE word \notin {"--dangerously-skip-permissions", "--compact", "--print", "--version"}
      BY <1>3, <2>2, <3>4 DEF ReadWord, Reads
    <3> QED
      BY <3>1, <3>2, <3>3, <3>4
  <2> QED
    BY <2>1, <2>2
<1> QED
  BY <1>1, <1>2, <1>3

LEMMA AppendAfter ==
  ASSUME NEW Word, NEW first \in Word, NEW words \in Seq(Word), NEW word \in Word
  PROVE  Append(<<first>> \o words, word) = <<first>> \o Append(words, word) /\ <<first>> \o words # <<>>
OBVIOUS

LEMMA ReadsAlongside ==
  ASSUME NEW Word, {"skills", "/skills"} \subseteq Word, NEW a \in Readings(Word), NEW b \in Readings(Word),
         NEW words \in Seq(Word), Alongside(a, b, words), Free(words), NEW word \in Word, word \notin Withheld
  PROVE  \E more \in Seq(Word) : Alongside(ReadWord(a, word), ReadWord(b, word), more) /\ Free(more)
<1>1. a.rest # <<>> /\ b.rest # <<>>
  BY AppendAfter DEF Alongside
<1>2. word # "-p"
  BY DEF Withheld
<1>3. ReadWord(a, word) = Reads(a, word) /\ ReadWord(b, word) = Reads(b, word)
  BY <1>1, <1>2, ReadsIs DEF Alongside
<1>4. /\ a = [is |-> a.is, option |-> a.option, mode |-> a.mode, help |-> a.help, version |-> a.version, rest |-> a.rest]
      /\ b = [is |-> b.is, option |-> b.option, mode |-> b.mode, help |-> b.help, version |-> b.version, rest |-> b.rest]
  BY DEF Readings
<1> DEFINE r == a.rest
           s == b.rest
           Both(x, y) == Alongside(x, y, words)
<1>5. r = <<"skills">> \o words /\ s = <<"/skills">> \o words /\ Alongside(a, b, words)
  BY DEF Alongside
<1>6. CASE a.is = "error"
  <2>1. Reads(a, word) = a /\ Reads(b, word) = b
    BY <1>6 DEF Reads, Alongside
  <2> QED
    BY <1>3, <2>1
<1>7. CASE a.is = "reading" /\ a.option # ""
  <2>1. CASE ~ValueFits(a.option, word)
    <3>1. Reads(a, word) = Failed(a) /\ Reads(b, word) = Failed(b)
      BY <1>7, <2>1 DEF Reads, Alongside
    <3>2. Alongside(Failed(a), Failed(b), words)
      BY <1>4 DEF Failed, Alongside
    <3> QED
      BY <1>3, <3>1, <3>2
  <2>2. CASE ValueFits(a.option, word)
    <3> DEFINE Set(x) == [x EXCEPT !.option = "", !.mode = IF x.option = "--permission-mode" THEN word ELSE x.mode]
    <3>1. Reads(a, word) = Set(a) /\ Reads(b, word) = Set(b)
      BY <1>7, <2>2 DEF Reads, Alongside
    <3>2. Alongside(Set(a), Set(b), words)
      BY <1>4, <1>7 DEF Alongside
    <3> QED
      BY <1>3, <3>1, <3>2
  <2> QED
    BY <2>1, <2>2
<1>8. CASE a.is = "reading" /\ a.option = ""
  <2>0. b.is = "reading" /\ b.option = ""
    BY <1>8 DEF Alongside
  <2>1. CASE word \in ValueOptions
    <3>1. Reads(a, word) = [a EXCEPT !.option = word] /\ Reads(b, word) = [b EXCEPT !.option = word]
      BY <1>8, <2>0, <2>1 DEF Reads
    <3>2. Alongside([a EXCEPT !.option = word], [b EXCEPT !.option = word], words)
      BY <1>4, <1>8 DEF Alongside
    <3> QED
      BY <1>3, <3>1, <3>2
  <2>2. CASE word \notin ValueOptions /\ word = "--dangerously-skip-permissions"
    <3> DEFINE Set(x) == [x EXCEPT !.mode = "danger-full-access"]
    <3>1. Reads(a, word) = Set(a) /\ Reads(b, word) = Set(b)
      BY <1>8, <2>0, <2>2 DEF Reads
    <3>2. Alongside(Set(a), Set(b), words)
      BY <1>4, <1>8 DEF Alongside
    <3> QED
      BY <1>3, <3>1, <3>2
  <2>3. CASE word \notin ValueOptions /\ word \in {"--compact", "--print"}
    <3>1. Reads(a, word) = a /\ Reads(b, word) = b
      BY <1>8, <2>0, <2>3 DEF Reads
    <3> QED
      BY <1>3, <3>1
  <2>4. CASE word \notin ValueOptions /\ word = "--version"
    <3> DEFINE Set(x) == [x EXCEPT !.version = TRUE]
    <3>1. Reads(a, word) = Set(a) /\ Reads(b, word) = Set(b)
      BY <1>8, <2>0, <2>4 DEF Reads
    <3>2. Alongside(Set(a), Set(b), words)
      BY <1>4, <1>8 DEF Alongside
    <3> QED
      BY <1>3, <3>1, <3>2
  <2>5. CASE word \notin ValueOptions \cup {"--dangerously-skip-permissions", "--compact", "--print", "--version"}
    <3> DEFINE Put(x) == [x EXCEPT !.rest = Append(x.rest, word)]
               more == Append(words, word)
    <3>1. Reads(a, word) = Put(a) /\ Reads(b, word) = Put(b)
      BY <1>8, <2>0, <2>5 DEF Reads
    <3>2. Append(r, word) = <<"skills">> \o more /\ Append(s, word) = <<"/skills">> \o more
      BY <1>5, AppendAfter
    <3>3. more \in Seq(Word) /\ Len(more) = Len(words) + 1 /\ more[Len(words) + 1] = word
          /\ \A i \in 1..Len(words) : more[i] = words[i]
      OBVIOUS
    <3> HIDE DEF more
    <3>4. Alongside(Put(a), Put(b), more)
      BY <1>4, <1>8, <3>2 DEF Alongside
    <3>5. Free(more)
      <4> SUFFICES ASSUME NEW i \in 1..Len(more) PROVE more[i] \notin Withheld
        BY DEF Free
      <4>1. i \in 1..Len(words) \/ i = Len(words) + 1
        BY <3>3
      <4> QED
        BY <3>3, <4>1 DEF Free
    <3> QED
      BY <1>3, <3>1, <3>3, <3>4, <3>5
  <2> QED
    BY <2>1, <2>2, <2>3, <2>4, <2>5
<1> QED
  BY <1>6, <1>7, <1>8 DEF Alongside

SameAction(x, y) == x.action = y.action /\ x.text = y.text
LEMMA ActsAlongside ==
  ASSUME NEW Word, {"skills", "/skills"} \subseteq Word, NEW a, NEW b, NEW words \in Seq(Word), Alongside(a, b, words), Free(words)
  PROVE  SameAction(ActionOf(a), ActionOf(b))
<1> DEFINE r == a.rest
           s == b.rest
<1>1. r = <<"skills">> \o words /\ s = <<"/skills">> \o words /\ words \in Seq(Word)
  BY DEF Alongside
<1>2. /\ r \in Seq(Word) /\ r # <<>> /\ r[1] = "skills" /\ Tail(r) = words /\ Len(r) = Len(words) + 1
      /\ s \in Seq(Word) /\ s # <<>> /\ s[1] = "/skills" /\ Tail(s) = words /\ Len(s) = Len(words) + 1
  <2>1. \A first \in Word : LET x == <<first>> \o words
                            IN  /\ x \in Seq(Word) /\ x # <<>> /\ x[1] = first /\ Tail(x) = words /\ Len(x) = Len(words) + 1
    OBVIOUS
  <2> QED
    BY <1>1, <2>1
<1> HIDE DEF r, s
<1>3. CASE a.is = "error" \/ a.option # ""
  <2>1. ActionOf(a) = Action("error") /\ ActionOf(b) = Action("error")
    BY <1>3 DEF ActionOf, Alongside
  <2> QED
    BY <2>1 DEF SameAction
<1>4. CASE a.is = "reading" /\ a.option = "" /\ (a.help \/ a.version)
  <2>1. ActionOf(a) = Action("local") /\ ActionOf(b) = Action("local")
    BY <1>4 DEF ActionOf, Alongside
  <2> QED
    BY <2>1 DEF SameAction
<1>5. CASE a.is = "reading" /\ a.option = "" /\ ~(a.help \/ a.version)
  <2>1. SingleWord("skills") = Action("none") /\ SingleWord("/skills") = Action("none")
    <3>1. "skills" \notin LocalWords /\ "skills" \in Subcommands
      BY DEF LocalWords, Subcommands
    <3> QED
      BY <3>1, NamesAreNoOptions DEF SingleWord
  <2>2. ActionOf(a) = Dispatch(a, r)
    BY <1>2, <1>5, <2>1 DEF ActionOf, r
  <2>3. ActionOf(b) = Dispatch(b, s)
    BY <1>2, <1>5, <2>1 DEF ActionOf, s, Alongside
  <2>4. Dispatch(b, s) = DirectSlash(b, s)
    <3>1. "/skills" \in DOMAIN Slash \ Subcommands /\ "/skills" # "skills" /\ "/skills" # "prompt"
      BY SlashAssumption, NamesAreNoOptions
    <3> QED
      BY <1>2, <3>1 DEF Dispatch
  <2>5. words # <<>> => words[1] \notin Withheld
    BY DEF Free
  <2>6. words # <<"install">>
    <3>1. <<"install">> # <<>> /\ <<"install">>[1] = "install"
      OBVIOUS
    <3> QED
      BY <2>5, <3>1 DEF Withheld
  <2>7. Parse(s) = [is |-> "command", name |-> "skills", args |-> words]
    <3>1. "/skills" \in DOMAIN Slash /\ Slash["/skills"] = "skills"
      BY SlashAssumption
    <3>2. Canonical("skills") = "skills" /\ "skills" # "" /\ "skills" \in Known
      BY DEF Canonical, Known, AnyArgs
    <3>3. TakesArgs("skills", words)
      BY <2>6 DEF TakesArgs, AnyArgs
    <3>4. ParsedArgs("skills", words) = words
      BY <2>5 DEF ParsedArgs, Withheld
    <3> QED
      BY <1>2, <3>1, <3>2, <3>3, <3>4 DEF Parse
  <2>8. CASE InvokesSkill(words)
    <3>1. Dispatch(a, r) = Prompt(a, words)
      BY <1>2, <2>8 DEF Dispatch, Subcommands
    <3>2. DirectSlash(b, s) = Prompt(b, words)
      BY <2>7, <2>8 DEF DirectSlash
    <3> QED
      BY <2>2, <2>3, <2>4, <3>1, <3>2 DEF SameAction, Prompt
  <2>9. CASE ~InvokesSkill(words)
    <3>1. Dispatch(a, r) = Action("local")
      BY <1>2, <2>9 DEF Dispatch, Subcommands
    <3>2. DirectSlash(b, s) = Action("local")
      BY <2>7, <2>9 DEF DirectSlash
    <3> QED
      BY <2>2, <2>3, <2>4, <3>1, <3>2 DEF SameAction
  <2> QED
    BY <2>8, <2>9
<1> QED
  BY <1>3, <1>4, <1>5 DEF Alongside

LEMMA SkillsAlike ==
  ASSUME NEW Word, NEW args \in Seq(Word), Len(args) > 1, args[1] = "skills",
         \A i \in 2..Len(args) : args[i] \notin Withheld
  PROVE  SameAction(ParseArgs(args), ParseArgs(<<"/skills">> \o Tail(args)))
<1> DEFINE Every == Word \cup {"/skills"}
           other == <<"/skills">> \o Tail(args)
           N == Len(args)
<1>1. N \in Nat /\ N > 1 /\ \A i \in 1..N : args[i] \in Word
  OBVIOUS
<1>2. args \in Seq(Every) /\ {"skills", "/skills"} \subseteq Every
  <2>1. args[1] \in Word
    BY <1>1
  <2>2. args \in Seq(Every)
    BY SeqMonotonic
  <2> QED
    BY <2>1, <2>2
<1> HIDE DEF Every
<1>3. other \in Seq(Every) /\ Len(other) = N /\ other[1] = "/skills" /\ \A i \in 2..N : other[i] = args[i]
  <2> DEFINE rest == Tail(args)
  <2>1. rest \in Seq(Every) /\ Len(rest) = N - 1 /\ \A i \in 1..(N - 1) : rest[i] = args[i + 1]
    BY <1>1, <1>2
  <2> HIDE DEF rest
  <2>2. /\ <<"/skills">> \o rest \in Seq(Every) /\ Len(<<"/skills">> \o rest) = 1 + Len(rest)
        /\ (<<"/skills">> \o rest)[1] = "/skills"
        /\ \A i \in 1..Len(rest) : (<<"/skills">> \o rest)[i + 1] = rest[i]
    BY <1>2, <2>1, OneBefore
  <2> DEFINE both == <<"/skills">> \o rest
  <2> HIDE DEF both
  <2>3. ASSUME NEW i \in 2..N PROVE both[i] = args[i]
    <3>1. i - 1 \in 1..Len(rest) /\ (i - 1) + 1 = i /\ i - 1 \in 1..(N - 1)
      BY <1>1, <2>1
    <3>2. both[i] = rest[i - 1] /\ rest[i - 1] = args[i]
      BY <2>1, <2>2, <3>1 DEF both
    <3> QED
      BY <3>2
  <2>4. Len(both) = N /\ both \in Seq(Every) /\ both[1] = "/skills"
    BY <1>1, <2>1, <2>2 DEF both
  <2> QED
    BY <2>3, <2>4 DEF both, rest
<1> HIDE DEF other, N
<1>4. PICK g \in [0..N -> Readings(Every)] :
         /\ g[0] = Nothing /\ \A n \in 1..N : g[n] = ReadWord(g[n - 1], args[n])
         /\ ReadWords(args) = g[N]
  BY <1>2, ReadWordsIs DEF N
<1>5. PICK h \in [0..N -> Readings(Every)] :
         /\ h[0] = Nothing /\ \A n \in 1..N : h[n] = ReadWord(h[n - 1], other[n])
         /\ ReadWords(other) = h[N]
  <2>1. \E h \in [0..Len(other) -> Readings(Every)] :
           /\ h[0] = Nothing /\ \A n \in 1..Len(other) : h[n] = ReadWord(h[n - 1], other[n])
           /\ ReadWords(other) = h[Len(other)]
    BY <1>3, ReadWordsIs, Zenon
  <2> QED
    BY <1>3, <2>1, Zenon
<1> DEFINE Both(n) == \E words \in Seq(Every) : Alongside(g[n], h[n], words) /\ Free(words)
           S == {m \in Nat : m + 1 <= N => Both(m + 1)}
<1>6. 0 \in S
  <2>1. "skills" \notin Options /\ "/skills" \notin Options
    BY NamesAreNoOptions DEF Subcommands
  <2>2. 1 \in 1..N /\ 1 - 1 = 0
    BY <1>1
  <2>3. g[1] = ReadWord(Nothing, "skills") /\ h[1] = ReadWord(Nothing, "/skills")
    BY <1>3, <1>4, <1>5, <2>2
  <2>4. /\ g[1] = [is |-> "reading", option |-> "", mode |-> "default", help |-> FALSE, version |-> FALSE, rest |-> <<"skills">>]
        /\ h[1] = [is |-> "reading", option |-> "", mode |-> "default", help |-> FALSE, version |-> FALSE, rest |-> <<"/skills">>]
    BY <2>1, <2>3, KeepsWord
  <2>5. <<"skills">> \o <<>> = <<"skills">> /\ <<"/skills">> \o <<>> = <<"/skills">> /\ <<>> \in Seq(Every) /\ Len(<<>>) = 0
    OBVIOUS
  <2>6. ASSUME NEW a, NEW b, NEW first, NEW second, first = <<"skills">> \o <<>>, second = <<"/skills">> \o <<>>,
               a = [is |-> "reading", option |-> "", mode |-> "default", help |-> FALSE, version |-> FALSE, rest |-> first],
               b = [is |-> "reading", option |-> "", mode |-> "default", help |-> FALSE, version |-> FALSE, rest |-> second]
        PROVE  Alongside(a, b, <<>>)
    BY <2>6 DEF Alongside
  <2>7. Alongside(g[1], h[1], <<>>)
    BY <2>4, <2>5, <2>6
  <2>8. Free(<<>>)
    BY <2>5 DEF Free
  <2>9. Both(1)
    BY <2>5, <2>7, <2>8
  <2> HIDE DEF Both
  <2> QED
    BY <2>9
<1>7. ASSUME NEW m \in Nat, m \in S PROVE m + 1 \in S
  <2> SUFFICES ASSUME (m + 1) + 1 <= N PROVE Both((m + 1) + 1)
    OBVIOUS
  <2> DEFINE n == m + 1
  <2>1. n \in 1..N /\ n \in 0..N /\ n + 1 \in 1..N /\ n + 1 \in 2..N /\ (n + 1) - 1 = n /\ n + 1 \in 0..N
    BY <1>1
  <2>2. Both(n)
    BY <1>1, <1>7
  <2> HIDE DEF n, S
  <2>3. PICK words \in Seq(Every) : Alongside(g[n], h[n], words) /\ Free(words)
    BY <2>2
  <2> DEFINE word == args[n + 1]
  <2>4. word \in Every /\ word \notin Withheld /\ other[n + 1] = word
    <3>1. word \in Every
      BY <1>2, <2>1 DEF N
    <3> QED
      BY <1>3, <2>1, <3>1 DEF N
  <2>5. g[n + 1] = ReadWord(g[n], word) /\ h[n + 1] = ReadWord(h[n], word)
    BY <1>4, <1>5, <2>1, <2>4
  <2>6. g[n] \in Readings(Every) /\ h[n] \in Readings(Every)
    BY <1>4, <1>5, <2>1
  <2> HIDE DEF word
  <2>7. Both(n + 1)
    BY <1>2, <2>3, <2>4, <2>5, <2>6, ReadsAlongside
  <2> QED
    BY <2>7 DEF n
<1>8. Both(N)
  <2> HIDE DEF S, Both
  <2>1. N - 1 \in Nat /\ (N - 1) + 1 = N
    BY <1>1
  <2>2. N - 1 \in S
    BY <1>6, <1>7, <2>1, Induction
  <2> QED
    BY <1>1, <2>1, <2>2 DEF S
<1>9. SameAction(ActionOf(g[N]), ActionOf(h[N]))
  BY <1>2, <1>8, ActsAlongside
<1> QED
  BY <1>4, <1>5, <1>9 DEF ParseArgs, other

LEMMA WordsAgree ==
  ASSUME NEW Word, Asked("arguments") => question.args \in Seq(Word)
  PROVE  ArgumentsAgree
<1> SUFFICES ASSUME Asked("arguments"), NEW args \in Seq(Word), args = question.args PROVE ArgumentsAgree
  BY DEF ArgumentsAgree
<1>1. (Len(args) = 1 /\ args[1] \in SpecNames \cup Subcommands \cup LocalWords) => ParseArgs(args).action # "prompt"
  BY OneWordKept
<1>2. (/\ Len(args) > 1 /\ args[1] = "skills" /\ \A i \in 2..Len(args) : args[i] \notin Withheld)
          => SameAction(ParseArgs(args), ParseArgs(<<"/skills">> \o Tail(args)))
  BY SkillsAlike
<1> QED
  BY <1>1, <1>2 DEF ArgumentsAgree, Withheld, SameAction
-----------------------------------------------------------------------------
\* The lines, chains and arguments of commands, as sequences of words.
CommandsAsked(Word, Thing, Time) ==
    /\ Asked("line") => question.line \in Seq(Word)
    /\ Asked("resume") => question.commands \in Seq(Seq(Word) \ {<<>>})
    /\ Asked("resumed") => Resumable(question, Word, Thing, Time)
    /\ Asked("arguments") => question.args \in Seq(Word)

(***************************************************************************)
(* The table of slash commands, its parser, the three that run what was    *)
(* parsed, and the arguments of the command line agree (commands/src/      *)
(* lib.rs, parse_args and resume_session of main.rs), for any words, lines *)
(* of any length and chains of any number of commands with failures where  *)
(* they please.                                                            *)
(***************************************************************************)
THEOREM CommandsAreAgreed ==
  ASSUME NEW Word, NEW Thing, NEW Time, CommandsAsked(Word, Thing, Time)
  PROVE  CommandsAgree
<1>1. LineAgrees
  BY LinesAgree DEF CommandsAsked
<1>2. ChainAgrees
  BY ChainsAgree DEF CommandsAsked
<1>3. SplitAgrees
  BY SplitsAgree DEF CommandsAsked
<1>4. ArgumentsAgree
  BY WordsAgree DEF CommandsAsked
<1> QED
  BY <1>1, <1>2, <1>3, <1>4 DEF CommandsAgree
=============================================================================
