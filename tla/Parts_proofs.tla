---------------------------- MODULE Parts_proofs ----------------------------
(***************************************************************************)
(* Theorems about the parts that stand for themselves, each under its own  *)
(* specification and, at the end, all of them side by side: the saved      *)
(* tokens (OAuth), the tasks and teams (ToolRegistries), the local proxy   *)
(* (LocalProxy), the settings (Settings), lanes (Lanes), requests and      *)
(* answers (ProviderStream), and the trace of a session (Telemetry).       *)
(***************************************************************************)
EXTENDS MCParts, SequenceTheorems, FiniteSetTheorems, WellFoundedInduction, TLAPS
-----------------------------------------------------------------------------
(* Tokens.  The property speaks of the time between commands; what carries *)
(* a token set from the answer of the server to the file is what the       *)
(* running command holds, and what it has written beside the file.         *)

TokenSet == [access : Nat, refresh : Nat, expires : {"never", "soon", "expired"}]
OAuthTypes ==
    /\ creds \in [status : {"ok", "missing"}, oauth : TokenSet, other : BOOLEAN]
    /\ temp \in [status : {"ok", "missing", "torn"}, oauth : TokenSet, other : BOOLEAN]
    /\ proc \in [pc : {"idle", "listen", "exchange", "refresh", "write", "rename"},
                 login : Login \cup {"none"}, token : TokenSet]
    /\ server \in [issued : Nat, refresh : Nat]
    /\ lost \in BOOLEAN

\* A refresh holds the saved set; what is to be renamed holds the command's; and the
\* last refresh token the server gave out is on its way to the file or in it.
TokenCarried ==
    /\ At("refresh") => proc.token = creds.oauth /\ proc.token # NoToken
    /\ At("rename") => temp.status = "ok" /\ temp.oauth = proc.token
    /\ (At("write") \/ At("rename")) /\ proc.token # NoToken /\ ~lost => proc.token.refresh = server.refresh
    /\ ~(At("write") \/ At("rename")) /\ creds.oauth # NoToken /\ ~lost => creds.oauth.refresh = server.refresh
    /\ (At("write") \/ At("rename")) /\ proc.token = NoToken /\ creds.oauth # NoToken /\ ~lost =>
          creds.oauth.refresh = server.refresh
AuthIsSaved == auth.kind = "saved" => creds.oauth = auth.token
OwnPage == \A e \in exchanged : e.state = e.login
OAuthInv == OAuthTypes /\ TokenCarried /\ AuthIsSaved /\ OwnPage

LEMMA NoTokenIsASet == NoToken \in TokenSet
  BY DEF NoToken, TokenSet

LEMMA OAuthInitially == OAuthInit => OAuthInv
<1> SUFFICES ASSUME OAuthInit PROVE OAuthInv
  OBVIOUS
<1>1. creds.oauth = NoToken /\ ~lost /\ proc.pc = "idle"
  BY DEF OAuthInit, NoFile, File, NoCommand
<1>2. OAuthTypes
  <2>1. NoFile \in [status : {"ok", "missing"}, oauth : TokenSet, other : BOOLEAN]
        /\ File(NoToken, TRUE) \in [status : {"ok", "missing"}, oauth : TokenSet, other : BOOLEAN]
        /\ NoFile \in [status : {"ok", "missing", "torn"}, oauth : TokenSet, other : BOOLEAN]
    BY NoTokenIsASet DEF NoFile, File
  <2>2. NoCommand \in [pc : {"idle", "listen", "exchange", "refresh", "write", "rename"},
                       login : Login \cup {"none"}, token : TokenSet]
    BY NoTokenIsASet DEF NoCommand
  <2> QED BY <2>1, <2>2 DEF OAuthTypes, OAuthInit
<1>3. TokenCarried BY <1>1 DEF TokenCarried, At
<1>4. AuthIsSaved /\ OwnPage BY DEF AuthIsSaved, OwnPage, OAuthInit, NoAuth
<1> QED BY <1>2, <1>3, <1>4 DEF OAuthInv

\* What the server answers is never nothing.
LEMMA IssuedIsNew ==
  ASSUME OAuthTypes, NEW rotates \in BOOLEAN, NEW expires \in {"never", "soon", "expired"}
  PROVE  /\ Issued(rotates, expires) \in TokenSet /\ Issued(rotates, expires) # NoToken
         /\ Resolved(Issued(rotates, expires), proc.token) \in TokenSet
         /\ Resolved(Issued(rotates, expires), proc.token) # NoToken
         /\ Resolved(Issued(rotates, expires), proc.token).refresh =
               IF rotates THEN server.issued + 1 ELSE proc.token.refresh
<1>1. server.issued \in Nat /\ server.issued + 1 \in Nat /\ server.issued + 1 # 0 BY DEF OAuthTypes
<1>2. proc.token \in TokenSet BY DEF OAuthTypes
<1>3. proc.token.refresh \in Nat BY <1>2 DEF TokenSet
<1> DEFINE t == Issued(rotates, expires)
           r == IF rotates THEN server.issued + 1 ELSE 0
           s == IF rotates THEN server.issued + 1 ELSE proc.token.refresh
<1>4. t = [access |-> server.issued + 1, refresh |-> r, expires |-> expires] BY DEF Issued
<1>5. r \in Nat /\ s \in Nat BY <1>1, <1>3
<1>6. t \in TokenSet /\ t.access # 0 BY <1>1, <1>4, <1>5 DEF TokenSet
<1>7. t.refresh = r BY <1>4
<1>8. Resolved(t, proc.token) = [t EXCEPT !.refresh = s]
  <2>1. (IF t.refresh # 0 THEN t.refresh ELSE proc.token.refresh) = s BY <1>1, <1>7
  <2> HIDE DEF t, s
  <2> QED BY <2>1, <1>6 DEF Resolved, TokenSet
<1> HIDE DEF t, s, r
<1>9. [t EXCEPT !.refresh = s] \in TokenSet /\ [t EXCEPT !.refresh = s].access # 0 /\ [t EXCEPT !.refresh = s].refresh = s
  BY <1>5, <1>6 DEF TokenSet
<1>10. NoToken.access = 0 BY DEF NoToken
<1>11. t # NoToken /\ [t EXCEPT !.refresh = s] # NoToken BY <1>6, <1>9, <1>10
<1> QED BY <1>6, <1>8, <1>9, <1>11 DEF t, s

LEMMA OAuthStep == OAuthInv /\ [OAuthNext]_oauthVars => OAuthInv'
<1> SUFFICES ASSUME OAuthInv, [OAuthNext]_oauthVars PROVE OAuthInv'
  OBVIOUS
<1> USE NoTokenIsASet
<1>t. OAuthTypes /\ TokenCarried /\ AuthIsSaved /\ OwnPage BY DEF OAuthInv
<1>0. CASE UNCHANGED oauthVars
  BY <1>t, <1>0 DEF oauthVars, OAuthInv, OAuthTypes, TokenCarried, AuthIsSaved, OwnPage, At
\* Steps that set the command going.
<1>1. ASSUME NEW l \in Login, StartLogin(l) PROVE OAuthInv'
  <2>1. proc' = [pc |-> "listen", login |-> l, token |-> NoToken] BY <1>1 DEF StartLogin, NoCommand
  <2> QED BY <1>1, <1>t, <2>1 DEF StartLogin, At, OAuthInv, OAuthTypes, TokenCarried, AuthIsSaved, OwnPage
<1>2. ASSUME NEW callback \in Callback, ReceiveCallback(callback) PROVE OAuthInv'
  <2>1. UNCHANGED <<creds, temp, server, auth, lost>> /\ At("listen") BY <1>2 DEF ReceiveCallback
  <2>2. CASE Accepts(callback, proc.login)
    <3>1. proc' = [proc EXCEPT !.pc = "exchange"] /\ callback.state = proc.login
          /\ exchanged' = exchanged \cup {[login |-> proc.login, state |-> callback.state]}
      BY <1>2, <2>2 DEF ReceiveCallback, Accepts
    <3>2. OAuthTypes' /\ proc'.pc = "exchange" BY <1>t, <2>1, <3>1 DEF OAuthTypes
    <3>3. OwnPage' BY <1>t, <3>1 DEF OwnPage
    <3> QED BY <1>t, <2>1, <3>2, <3>3 DEF At, OAuthInv, TokenCarried, AuthIsSaved
  <2>3. CASE ~Accepts(callback, proc.login)
    <3>1. proc' = NoCommand /\ UNCHANGED exchanged BY <1>2, <2>3 DEF ReceiveCallback
    <3> QED BY <1>t, <2>1, <3>1 DEF At, OAuthInv, OAuthTypes, TokenCarried, AuthIsSaved, OwnPage, NoCommand
  <2> QED BY <2>2, <2>3
<1>3. ASSUME NEW apiKey \in BOOLEAN, NEW bearer \in BOOLEAN, ResolveStartupAuth(apiKey, bearer) PROVE OAuthInv'
  <2>1. UNCHANGED <<creds, temp, server, exchanged, lost>> /\ At("idle") BY <1>3 DEF ResolveStartupAuth
  <2>2. \/ proc' = proc /\ (auth'.kind = "saved" => auth'.token = creds.oauth)
        \/ /\ proc' \in [pc : {"refresh"}, login : {"none"}, token : {creds.oauth}]
           /\ auth' = auth /\ creds.oauth # NoToken
    <3>1. CASE apiKey \/ bearer
      <4>1. proc' = proc /\ auth'.kind \in {"ApiKeyAndBearer", "ApiKey", "BearerToken"}
        BY <1>3, <3>1 DEF ResolveStartupAuth
      <4> QED BY <4>1
    <3>2. CASE ~apiKey /\ ~bearer
      <4> DEFINE saved == creds.oauth
                 Unusable == ~Readable(creds) \/ saved = NoToken \/ (Expired(saved) /\ saved.refresh = 0)
      <4>1. IF Unusable THEN auth' = [kind |-> "error", token |-> NoToken] /\ UNCHANGED proc
            ELSE IF ~Expired(saved) THEN auth' = [kind |-> "saved", token |-> saved] /\ UNCHANGED proc
            ELSE proc' = [NoCommand EXCEPT !.pc = "refresh", !.token = saved] /\ UNCHANGED auth
        BY <1>3, <3>2 DEF ResolveStartupAuth
      <4> DEFINE p == [NoCommand EXCEPT !.pc = "refresh", !.token = saved]
      <4>2. p \in [pc : {"refresh"}, login : {"none"}, token : {saved}]
        <5> HIDE DEF saved
        <5>1. NoCommand \in [pc : {"idle"}, login : {"none"}, token : {NoToken}] BY DEF NoCommand
        <5> QED BY <5>1
      <4>3. CASE Unusable BY <4>1, <4>3
      <4>4. CASE ~Unusable /\ ~Expired(saved) BY <4>1, <4>4
      <4>5. CASE ~Unusable /\ Expired(saved) BY <4>1, <4>2, <4>5
      <4> QED BY <4>3, <4>4, <4>5
    <3> QED BY <3>1, <3>2
  <2> QED BY <1>t, <2>1, <2>2 DEF At, OAuthInv, OAuthTypes, TokenCarried, AuthIsSaved, OwnPage
<1>4. ASSUME StartLogout PROVE OAuthInv'
  <2>1. proc' = [pc |-> "write", login |-> "none", token |-> NoToken] BY <1>4 DEF StartLogout, NoCommand
  <2>2. UNCHANGED <<creds, temp, server, exchanged, auth, lost>> /\ At("idle") BY <1>4 DEF StartLogout
  <2>3. OAuthTypes' BY <1>t, <2>1, <2>2 DEF OAuthTypes
  <2>4. TokenCarried'
    <3>1. ~lost /\ creds.oauth # NoToken => creds.oauth.refresh = server.refresh BY <1>t, <2>2 DEF TokenCarried, At
    <3>2. proc'.pc = "write" /\ proc'.token = NoToken BY <2>1
    <3> QED BY <2>2, <3>1, <3>2 DEF TokenCarried, At
  <2> QED BY <1>t, <2>2, <2>3, <2>4 DEF OAuthInv, AuthIsSaved, OwnPage
\* The server answers: the command holds the last refresh token.
<1>a. ASSUME NEW token \in TokenSet, NEW refresh \in Nat, Answers(token, refresh),
             token # NoToken, ~lost => token.refresh = refresh
      PROVE  OAuthInv'
  <2>1. /\ server' = [issued |-> server.issued + 1, refresh |-> refresh]
        /\ UNCHANGED <<creds, temp, exchanged, auth, lost>>
        /\ proc' = [proc EXCEPT !.pc = "write", !.token = token]
    BY <1>a DEF Answers
  <2>2. proc' \in [pc : {"write"}, login : Login \cup {"none"}, token : {token}] BY <1>t, <2>1 DEF OAuthTypes
  <2>3. proc'.pc = "write" /\ proc'.token = token BY <2>2
  <2>4. OAuthTypes' BY <1>t, <1>a, <2>1, <2>2 DEF OAuthTypes
  <2>5. server'.refresh = refresh BY <2>1
  <2> QED BY <1>t, <1>a, <2>1, <2>3, <2>4, <2>5 DEF At, OAuthInv, TokenCarried, AuthIsSaved, OwnPage
<1>5. ASSUME NEW rotates \in BOOLEAN, NEW expires \in {"never", "soon", "expired"}, ExchangeCode(rotates, expires)
      PROVE  OAuthInv'
  <2> DEFINE token == Issued(rotates, expires)
  <2>1. token \in TokenSet /\ token # NoToken BY <1>t, IssuedIsNew
  <2>2. Answers(token, token.refresh) BY <1>5 DEF ExchangeCode
  <2> HIDE DEF token
  <2>3. token.refresh \in Nat BY <2>1 DEF TokenSet
  <2> QED BY <1>a, <2>1, <2>2, <2>3
<1>6. ASSUME NEW rotates \in BOOLEAN, NEW expires \in {"never", "soon", "expired"}, RefreshToken(rotates, expires)
      PROVE  OAuthInv'
  <2> DEFINE token == Resolved(Issued(rotates, expires), proc.token)
             refresh == IF rotates THEN Issued(rotates, expires).refresh ELSE server.refresh
  <2>1. Answers(token, refresh) /\ At("refresh") BY <1>6 DEF RefreshToken
  <2>2. token \in TokenSet /\ token # NoToken
        /\ token.refresh = IF rotates THEN server.issued + 1 ELSE proc.token.refresh
    BY <1>t, IssuedIsNew
  <2>3. refresh = IF rotates THEN server.issued + 1 ELSE server.refresh BY DEF Issued
  <2>4. ~lost => proc.token.refresh = server.refresh BY <1>t, <2>1 DEF TokenCarried, At
  <2>5. refresh \in Nat BY <1>t, <2>3 DEF OAuthTypes
  <2>6. ~lost => token.refresh = refresh BY <2>2, <2>3, <2>4
  <2> HIDE DEF token, refresh
  <2> QED BY <1>a, <2>1, <2>2, <2>5, <2>6
\* The file.
<1>7. ASSUME WriteTemp PROVE OAuthInv'
  <2>1. Readable(creds) BY <1>t DEF OAuthTypes, Readable
  <2>2. /\ temp' = [status |-> "ok", oauth |-> proc.token, other |-> creds.other]
        /\ proc' = [proc EXCEPT !.pc = "rename"] /\ UNCHANGED <<lost, creds, server, exchanged, auth>> /\ At("write")
    BY <1>7, <2>1 DEF WriteTemp, File
  <2>3. OAuthTypes' /\ proc'.pc = "rename" /\ proc'.token = proc.token BY <1>t, <2>2 DEF OAuthTypes
  <2> QED BY <1>t, <2>2, <2>3 DEF At, OAuthInv, TokenCarried, AuthIsSaved, OwnPage
<1>8. ASSUME RenameTemp PROVE OAuthInv'
  <2>1. /\ creds' = temp /\ temp' = NoFile /\ proc' = NoCommand /\ UNCHANGED <<server, exchanged>> /\ At("rename")
        /\ lost' = (lost /\ proc.token.refresh # server.refresh)
        /\ auth'.kind = "saved" => auth'.token = proc.token
    BY <1>8 DEF RenameTemp, NoAuth
  <2>2. temp.status = "ok" /\ temp.oauth = proc.token BY <1>t, <2>1 DEF TokenCarried
  <2>3. OAuthTypes' BY <1>t, <2>1, <2>2 DEF OAuthTypes, NoFile, NoCommand
  <2>4. TokenCarried' BY <1>t, <2>1, <2>2 DEF TokenCarried, OAuthTypes, At, NoCommand
  <2>5. AuthIsSaved' /\ OwnPage' BY <1>t, <2>1, <2>2 DEF AuthIsSaved, OwnPage
  <2> QED BY <2>3, <2>4, <2>5 DEF OAuthInv
<1>9. ASSUME CommandFails PROVE OAuthInv'
  <2>1. /\ proc' = NoCommand /\ auth' = NoAuth /\ UNCHANGED <<creds, server, exchanged>>
        /\ lost' = (lost \/ (proc.pc \in {"write", "rename"} /\ proc.token # NoToken))
        /\ temp' \in {temp, TornFile}
    BY <1>9 DEF CommandFails
  <2>2. OAuthTypes'
    BY <1>t, <2>1 DEF OAuthTypes, NoCommand, TornFile, NoFile
  <2>3. TokenCarried' BY <1>t, <2>1 DEF TokenCarried, OAuthTypes, At, NoCommand
  <2>4. AuthIsSaved' /\ OwnPage' BY <1>t, <2>1 DEF AuthIsSaved, OwnPage, NoAuth
  <2> QED BY <2>2, <2>3, <2>4 DEF OAuthInv
<1>10. ASSUME TokenExpires PROVE OAuthInv'
  <2>1. /\ creds.oauth.expires = "soon" /\ auth' = NoAuth /\ UNCHANGED <<temp, proc, server, exchanged, lost>>
        /\ creds' = [creds EXCEPT !.oauth.expires = "expired"] /\ At("idle")
    BY <1>10 DEF TokenExpires
  <2> DEFINE o == [creds.oauth EXCEPT !.expires = "expired"]
  <2>2. creds.oauth \in TokenSet BY <1>t DEF OAuthTypes
  <2>3. o \in TokenSet /\ o.refresh = creds.oauth.refresh BY <2>2 DEF TokenSet
  <2>4. creds' = [creds EXCEPT !.oauth = o] BY <2>1
  <2> HIDE DEF o
  <2>5. creds' \in [status : {"ok", "missing"}, oauth : TokenSet, other : BOOLEAN] /\ creds'.oauth = o
    BY <1>t, <2>3, <2>4 DEF OAuthTypes
  <2>6. OAuthTypes' BY <1>t, <2>1, <2>5 DEF OAuthTypes
  <2>7. creds.oauth # NoToken BY <2>1 DEF NoToken
  <2>8. TokenCarried' BY <1>t, <2>1, <2>3, <2>5, <2>7 DEF TokenCarried, At
  <2>9. AuthIsSaved' /\ OwnPage' BY <1>t, <2>1 DEF AuthIsSaved, OwnPage, NoAuth
  <2> QED BY <2>6, <2>8, <2>9 DEF OAuthInv
<1> QED
  BY <1>0, <1>1, <1>2, <1>3, <1>4, <1>5, <1>6, <1>7, <1>8, <1>9, <1>10 DEF OAuthNext

\* The invariant of the login commands: types, and where the last refresh token is at
\* every step of a command.
THEOREM OAuthInvariant == OAuthSpec => []OAuthInv
<1>1. OAuthInit => OAuthInv BY OAuthInitially
<1>2. OAuthInv /\ [OAuthNext]_oauthVars => OAuthInv' BY OAuthStep
<1> QED BY <1>1, <1>2, PTL DEF OAuthSpec

\* The saved tokens survive every way a command can end, whatever the server answers
\* and for any number of logins: the file is whole and has the last refresh token.
THEOREM TokensSurvive == OAuthSpec => []TokensKept
<1>1. OAuthInv => TokensKept
  BY DEF OAuthInv, OAuthTypes, TokenCarried, AuthIsSaved, OwnPage, TokensKept, At
<1> QED BY <1>1, OAuthInvariant, PTL
-----------------------------------------------------------------------------
(* Registries.  An id is given once, so that a team lists tasks that were  *)
(* created before it; a task without a team that a team lists is one that  *)
(* the TeamCreate of that team has still to assign.                        *)

Task == [status : TaskStatus, notes : Int, team : Nat]
Team == [status : {"created", "deleted"}, tasks : SUBSET Nat]
Assignments == [team : Nat, left : SUBSET Nat]
IdsRise ==
    /\ counter \in [Registry -> Nat] /\ idsGiven \in [Registry -> SUBSET Nat]
    /\ \A r \in Registry : \A id \in idsGiven[r] : 0 < id /\ id <= counter[r]
Listed ==
    /\ tasks \in [DOMAIN tasks -> Task] /\ DOMAIN tasks \subseteq idsGiven["task"]
    /\ teams \in [DOMAIN teams -> Team] /\ DOMAIN teams \subseteq idsGiven["team"]
    /\ \A id \in DOMAIN teams : teams[id].tasks \subseteq idsGiven["task"]
Assigning ==
    /\ pending \in [Caller -> Assignments]
    /\ \A c \in Caller : pending[c] # NoTeam =>
          /\ pending[c].team \in idsGiven["team"] /\ pending[c].left \subseteq idsGiven["task"]
          /\ pending[c].team \in DOMAIN teams => pending[c].left \subseteq teams[pending[c].team].tasks
HasTeam(t) ==
    /\ tasks[t].team \in idsGiven["team"]
    /\ tasks[t].team \in DOMAIN teams => t \in teams[tasks[t].team].tasks
Waits(id, t) == \E c \in Caller : pending[c].team = id /\ t \in pending[c].left
TeamInv ==
    /\ \A t \in DOMAIN tasks : tasks[t].team # 0 => HasTeam(t)
    /\ \A id \in DOMAIN teams : \A t \in teams[id].tasks \cap DOMAIN tasks : tasks[t].team # 0 \/ Waits(id, t)
RegistryInv == IdsRise /\ Listed /\ Assigning /\ TeamInv

LEMMA WithoutIs ==
  ASSUME NEW f, NEW x
  PROVE  /\ DOMAIN Without(f, x) = DOMAIN f \ {x}
         /\ \A y \in DOMAIN f \ {x} : Without(f, x)[y] = f[y]
  BY DEF Without
LEMMA WithType ==
  ASSUME NEW S, NEW f, NEW x, NEW v \in S, \A y \in DOMAIN f : f[y] \in S
  PROVE  With(f, x, v) \in [DOMAIN With(f, x, v) -> S]
  BY DEF With
LEMMA WithoutType ==
  ASSUME NEW S, NEW f, NEW x, \A y \in DOMAIN f : f[y] \in S
  PROVE  Without(f, x) \in [DOMAIN Without(f, x) -> S]
  BY DEF Without

LEMMA RegistriesInitially == RegistriesInit => RegistryInv
<1> SUFFICES ASSUME RegistriesInit PROVE RegistryInv
  OBVIOUS
<1>1. IdsRise BY DEF RegistriesInit, IdsRise
<1>2. tasks = Nothing /\ teams = Nothing /\ pending = [c \in Caller |-> NoTeam] BY DEF RegistriesInit, TasksInit
<1>3. DOMAIN Nothing = {} /\ \A S : Nothing \in [{} -> S] BY DEF Nothing
<1>4. Listed BY <1>2, <1>3 DEF Listed
<1>5. Assigning BY <1>2 DEF Assigning, Assignments, NoTeam
<1>6. TeamInv BY <1>2, <1>3 DEF TeamInv
<1> QED BY <1>1, <1>4, <1>5, <1>6 DEF RegistryInv

\* An id that is given was not given before.
LEMMA GivenOnce ==
  ASSUME NEW r \in Registry, IdsRise, GiveId(r, counter[r] + 1)
  PROVE  /\ IdsRise'
         /\ counter[r] + 1 \in Nat /\ counter[r] + 1 # 0 /\ counter[r] + 1 \notin idsGiven[r]
         /\ idsGiven'[r] = idsGiven[r] \cup {counter[r] + 1}
         /\ \A s \in Registry : s # r => idsGiven'[s] = idsGiven[s]
<1>1. counter[r] \in Nat BY DEF IdsRise
<1>2. counter' = [counter EXCEPT ![r] = counter[r] + 1] /\ idsGiven' = [idsGiven EXCEPT ![r] = @ \cup {counter[r] + 1}]
  BY DEF GiveId
<1> DEFINE n == counter[r] + 1
<1>3. n \in Nat /\ n > 0 /\ counter[r] <= n /\ ~(n <= counter[r]) BY <1>1
<1>4. counter' \in [Registry -> Nat] /\ counter'[r] = n /\ \A s \in Registry : s # r => counter'[s] = counter[s]
  BY <1>2, <1>3 DEF IdsRise
<1>5. n \notin idsGiven[r] BY <1>3 DEF IdsRise
<1>6. idsGiven'[r] = idsGiven[r] \cup {n} /\ \A s \in Registry : s # r => idsGiven'[s] = idsGiven[s]
  BY <1>2 DEF IdsRise
<1>7. idsGiven' \in [Registry -> SUBSET Nat] BY <1>2, <1>3 DEF IdsRise
<1>8. ASSUME NEW s \in Registry, NEW id \in idsGiven'[s] PROVE 0 < id /\ id <= counter'[s]
  <2>1. CASE s # r BY <2>1, <1>4, <1>6 DEF IdsRise
  <2>2. CASE s = r /\ id = n BY <2>2, <1>3, <1>4
  <2>3. CASE s = r /\ id # n
    <3>1. id \in idsGiven[r] BY <2>3, <1>6
    <3>2. id \in Nat /\ 0 < id /\ id <= counter[r] BY <3>1 DEF IdsRise
    <3> QED BY <3>2, <2>3, <1>1, <1>3, <1>4
  <2> QED BY <2>1, <2>2, <2>3
<1>9. IdsRise' BY <1>4, <1>7, <1>8 DEF IdsRise
<1> QED BY <1>3, <1>5, <1>6, <1>9

LEMMA IdsStay == IdsRise /\ UNCHANGED ids => IdsRise'
  BY DEF IdsRise, ids

\* A task that changes otherwise keeps its team.
LEMMA TasksKeepTeams ==
  ASSUME RegistryInv, IdsRise', UNCHANGED <<teams, pending, ids>>,
         tasks' \in [DOMAIN tasks' -> Task], DOMAIN tasks' \subseteq DOMAIN tasks,
         \A t \in DOMAIN tasks' : tasks'[t].team = tasks[t].team
  PROVE  RegistryInv'
<1>1. Listed' BY DEF RegistryInv, Listed, ids
<1>2. Assigning' BY DEF RegistryInv, Assigning, ids
<1>3. TeamInv'
  <2>1. ASSUME NEW t \in DOMAIN tasks', tasks'[t].team # 0 PROVE HasTeam(t)'
    <3>1. HasTeam(t) BY <2>1 DEF RegistryInv, TeamInv
    <3> QED BY <2>1, <3>1 DEF HasTeam, ids
  <2>2. ASSUME NEW id \in DOMAIN teams', NEW t \in teams'[id].tasks \cap DOMAIN tasks'
        PROVE  tasks'[t].team # 0 \/ Waits(id, t)'
    <3>1. tasks[t].team # 0 \/ Waits(id, t) BY <2>2 DEF RegistryInv, TeamInv
    <3>2. tasks'[t].team = tasks[t].team BY <2>2
    <3>3. Waits(id, t) => Waits(id, t)' BY DEF Waits
    <3> QED BY <3>1, <3>2, <3>3
  <2> QED BY <2>1, <2>2 DEF TeamInv
<1> QED BY <1>1, <1>2, <1>3 DEF RegistryInv

LEMMA TasksStep == RegistryInv /\ TasksNext => RegistryInv'
<1> SUFFICES ASSUME RegistryInv, TasksNext PROVE RegistryInv'
  OBVIOUS
<1>i. IdsRise /\ Listed /\ Assigning /\ TeamInv BY DEF RegistryInv
<1>r. "task" \in Registry /\ "team" \in Registry BY DEF Registry
<1>1. ASSUME NEW packet \in BOOLEAN, NEW valid \in BOOLEAN, TaskCreate(packet, valid) PROVE RegistryInv'
  <2> DEFINE n == counter["task"] + 1
             task == [status |-> "created", notes |-> 0, team |-> 0]
  <2>1. GiveId("task", n) /\ tasks' = With(tasks, n, task) /\ UNCHANGED <<teams, pending>>
    BY <1>1 DEF TaskCreate, Fresh
  <2>2. /\ IdsRise' /\ n \notin idsGiven["task"] /\ idsGiven'["task"] = idsGiven["task"] \cup {n}
        /\ idsGiven'["team"] = idsGiven["team"]
    BY <1>i, <1>r, <2>1, GivenOnce
  <2>3. task \in Task /\ task.team = 0 BY DEF Task, TaskStatus
  <2> HIDE DEF n, task
  <2>4. DOMAIN tasks' = DOMAIN tasks \cup {n} /\ tasks'[n] = task /\ \A t \in DOMAIN tasks : t # n => tasks'[t] = tasks[t]
    BY <2>1 DEF With
  <2>5. tasks' \in [DOMAIN tasks' -> Task] BY <1>i, <2>1, <2>3, WithType DEF Listed
  <2>6. Listed' BY <1>i, <2>1, <2>2, <2>4, <2>5 DEF Listed
  <2>7. Assigning' BY <1>i, <2>1, <2>2 DEF Assigning
  <2>8. n \notin DOMAIN tasks BY <1>i, <2>2 DEF Listed
  <2>9. ASSUME NEW t \in DOMAIN tasks', tasks'[t].team # 0 PROVE HasTeam(t)'
    <3>1. t \in DOMAIN tasks /\ tasks'[t] = tasks[t] BY <2>3, <2>4, <2>9
    <3>2. HasTeam(t) BY <1>i, <2>9, <3>1 DEF TeamInv
    <3> QED BY <2>1, <2>2, <3>1, <3>2 DEF HasTeam
  <2>10. ASSUME NEW id \in DOMAIN teams', NEW t \in teams'[id].tasks \cap DOMAIN tasks'
         PROVE  tasks'[t].team # 0 \/ Waits(id, t)'
    <3>1. id \in DOMAIN teams /\ t \in teams[id].tasks BY <2>1
    <3>2. t \in idsGiven["task"] BY <1>i, <3>1 DEF Listed
    <3>3. t \in DOMAIN tasks /\ tasks'[t] = tasks[t] BY <2>2, <2>4, <3>2
    <3>4. tasks[t].team # 0 \/ Waits(id, t) BY <1>i, <3>1, <3>3 DEF TeamInv
    <3>5. Waits(id, t) => Waits(id, t)' BY <2>1 DEF Waits
    <3> QED BY <3>3, <3>4, <3>5
  <2>11. TeamInv' BY <2>9, <2>10 DEF TeamInv
  <2> QED BY <2>2, <2>6, <2>7, <2>11 DEF RegistryInv
\* Steps of one task: it keeps its team.
<1>b. ASSUME NEW t \in DOMAIN tasks, NEW r \in Task, r.team = tasks[t].team, Become(t, r) PROVE RegistryInv'
  <2>1. tasks' = [tasks EXCEPT ![t] = r] /\ UNCHANGED <<teams, pending, ids>> BY <1>b DEF Become
  <2>2. tasks' \in [DOMAIN tasks -> Task] /\ DOMAIN tasks' = DOMAIN tasks BY <1>i, <1>b, <2>1 DEF Listed
  <2>3. \A u \in DOMAIN tasks : tasks'[u].team = tasks[u].team BY <1>i, <1>b, <2>1 DEF Listed
  <2> QED BY <1>i, <2>1, <2>2, <2>3, IdsStay, TasksKeepTeams
<1>2. ASSUME NEW t \in DOMAIN tasks, TaskStop(t) \/ TaskUpdate(t) \/ \E s \in TaskStatus : SetStatus(t, s)
      PROVE  RegistryInv'
  <2>1. tasks[t] \in Task BY <1>i DEF Listed
  <2>2. "stopped" \in TaskStatus BY DEF TaskStatus
  <2>3. CASE TaskUpdate(t)
    <3>1. tasks[t].notes + 1 \in Int BY <2>1 DEF Task
    <3>2. [tasks[t] EXCEPT !.notes = @ + 1] \in Task /\ [tasks[t] EXCEPT !.notes = @ + 1].team = tasks[t].team
      BY <2>1, <3>1 DEF Task
    <3> QED BY <1>b, <2>3, <3>2 DEF TaskUpdate
  <2>4. ASSUME NEW s \in TaskStatus, Become(t, [tasks[t] EXCEPT !.status = s]) PROVE RegistryInv'
    <3>1. [tasks[t] EXCEPT !.status = s] \in Task /\ [tasks[t] EXCEPT !.status = s].team = tasks[t].team
      BY <2>1 DEF Task
    <3> QED BY <1>b, <2>4, <3>1
  <2> QED BY <1>2, <2>2, <2>3, <2>4 DEF TaskStop, SetStatus
<1>3. ASSUME NEW t \in DOMAIN tasks, RemoveTask(t) PROVE RegistryInv'
  <2>1. tasks' = Without(tasks, t) /\ UNCHANGED <<teams, pending, ids>> BY <1>3 DEF RemoveTask
  <2>2. DOMAIN tasks' = DOMAIN tasks \ {t} /\ \A u \in DOMAIN tasks' : tasks'[u] = tasks[u] BY <2>1, WithoutIs
  <2>3. tasks' \in [DOMAIN tasks' -> Task] BY <1>i, <2>1, WithoutType DEF Listed
  <2> QED BY <1>i, <2>1, <2>2, <2>3, IdsStay, TasksKeepTeams
\* A team comes before the assignments of its tasks.
<1>4. ASSUME NEW c \in Caller, NEW l \in SUBSET Id, TeamCreate(c, l \cap idsGiven["task"]) PROVE RegistryInv'
  <2> DEFINE n == counter["team"] + 1
             listed == l \cap idsGiven["task"]
             team == [status |-> "created", tasks |-> listed]
             left == [team |-> n, left |-> listed]
  <2>1. /\ pending[c] = NoTeam /\ GiveId("team", n) /\ teams' = With(teams, n, team) /\ UNCHANGED tasks
        /\ pending' = IF listed = {} THEN pending ELSE [pending EXCEPT ![c] = left]
    BY <1>4 DEF TeamCreate, Fresh
  <2>2. /\ IdsRise' /\ n \notin idsGiven["team"] /\ idsGiven'["team"] = idsGiven["team"] \cup {n}
        /\ idsGiven'["task"] = idsGiven["task"] /\ n \in Nat
    BY <1>i, <1>r, <2>1, GivenOnce
  <2>3. listed \in SUBSET Nat /\ listed \subseteq idsGiven["task"] BY <1>i, <1>r DEF IdsRise
  <2> HIDE DEF n, listed
  <2>4. team \in Team /\ left \in Assignments /\ left.team = n /\ left.left = listed /\ team.tasks = listed
    BY <2>2, <2>3 DEF Team, Assignments
  <2> HIDE DEF team, left
  <2>5. DOMAIN teams' = DOMAIN teams \cup {n} /\ teams'[n] = team /\ \A id \in DOMAIN teams : id # n => teams'[id] = teams[id]
    BY <2>1 DEF With
  <2>6. n \notin DOMAIN teams BY <1>i, <2>2 DEF Listed
  <2>7. Listed'
    <3>1. teams' \in [DOMAIN teams' -> Team] BY <1>i, <2>1, <2>4, WithType DEF Listed
    <3>2. \A id \in DOMAIN teams' : teams'[id].tasks \subseteq idsGiven["task"] BY <1>i, <2>3, <2>4, <2>5 DEF Listed
    <3> QED BY <1>i, <2>1, <2>2, <2>5, <3>1, <3>2 DEF Listed
  <2>8. /\ pending' \in [Caller -> Assignments]
        /\ \A d \in Caller : d # c => pending'[d] = pending[d]
        /\ pending'[c] = IF listed = {} THEN NoTeam ELSE left
    BY <1>i, <2>1, <2>4 DEF Assigning
  <2>9. Assigning'
    <3>1. ASSUME NEW d \in Caller, pending'[d] # NoTeam
          PROVE  /\ pending'[d].team \in idsGiven'["team"] /\ pending'[d].left \subseteq idsGiven'["task"]
                 /\ pending'[d].team \in DOMAIN teams' => pending'[d].left \subseteq teams'[pending'[d].team].tasks
      <4>1. CASE d = c BY <2>2, <2>3, <2>4, <2>5, <2>8, <3>1, <4>1
      <4>2. CASE d # c
        <5>1. pending'[d] = pending[d] /\ pending[d].team \in idsGiven["team"] BY <1>i, <2>8, <3>1, <4>2 DEF Assigning
        <5>2. pending[d].team # n BY <2>2, <5>1
        <5> QED BY <1>i, <2>2, <2>5, <3>1, <5>1, <5>2 DEF Assigning
      <4> QED BY <4>1, <4>2
    <3> QED BY <2>8, <3>1 DEF Assigning
  <2>10. ASSUME NEW t \in DOMAIN tasks', tasks'[t].team # 0 PROVE HasTeam(t)'
    <3>1. HasTeam(t) BY <1>i, <2>1, <2>10 DEF TeamInv
    <3>2. tasks[t].team # n BY <2>2, <3>1 DEF HasTeam
    <3> QED BY <2>1, <2>2, <2>5, <3>1, <3>2 DEF HasTeam
  <2>11. ASSUME NEW id \in DOMAIN teams', NEW t \in teams'[id].tasks \cap DOMAIN tasks'
         PROVE  tasks'[t].team # 0 \/ Waits(id, t)'
    <3>1. CASE id = n
      <4>1. t \in listed BY <2>4, <2>5, <2>11, <3>1
      <4>2. pending'[c].team = n /\ t \in pending'[c].left BY <2>4, <2>8, <4>1
      <4> QED BY <3>1, <4>2 DEF Waits
    <3>2. CASE id # n
      <4>1. id \in DOMAIN teams /\ teams'[id] = teams[id] BY <2>5, <3>2
      <4>2. tasks[t].team # 0 \/ Waits(id, t) BY <1>i, <2>1, <2>11, <4>1 DEF TeamInv
      <4>3. ASSUME Waits(id, t) PROVE Waits(id, t)'
        <5>1. PICK d \in Caller : pending[d].team = id /\ t \in pending[d].left BY <4>3 DEF Waits
        <5>2. d # c BY <2>1, <5>1 DEF NoTeam
        <5> QED BY <2>8, <5>1, <5>2 DEF Waits
      <4> QED BY <2>1, <4>2, <4>3
    <3> QED BY <3>1, <3>2
  <2>12. TeamInv' BY <2>10, <2>11 DEF TeamInv
  <2> QED BY <2>2, <2>7, <2>9, <2>12 DEF RegistryInv
<1>5. ASSUME NEW c \in Caller, AssignTeam(c) PROVE RegistryInv'
  <2>1. PICK t \in pending[c].left :
          /\ tasks' = IF t \in DOMAIN tasks THEN [tasks EXCEPT ![t].team = pending[c].team] ELSE tasks
          /\ pending' = [pending EXCEPT ![c] =
                            IF pending[c].left = {t} THEN NoTeam ELSE [pending[c] EXCEPT !.left = @ \ {t}]]
    BY <1>5 DEF AssignTeam
  <2>2. UNCHANGED <<teams, ids>> BY <1>5 DEF AssignTeam
  <2>3. IdsRise' /\ UNCHANGED idsGiven BY <1>i, <2>2, IdsStay DEF ids
  <2> DEFINE p == IF pending[c].left = {t} THEN NoTeam ELSE [pending[c] EXCEPT !.left = @ \ {t}]
             now == [tasks[t] EXCEPT !.team = pending[c].team]
  <2>4. pending[c] \in Assignments BY <1>i DEF Assigning
  <2>5. pending[c] # NoTeam BY <2>1 DEF NoTeam
  <2>6. pending[c].team \in idsGiven["team"] /\ pending[c].team \in Nat /\ pending[c].team # 0
    BY <1>i, <1>r, <2>4, <2>5 DEF Assigning, Assignments, IdsRise
  <2>7. p \in Assignments /\ (p # NoTeam => p.team = pending[c].team) /\ p.left = pending[c].left \ {t}
    <3>1. NoTeam \in Assignments /\ NoTeam.left = {} BY DEF NoTeam, Assignments
    <3>2. [pending[c] EXCEPT !.left = @ \ {t}] \in Assignments
          /\ [pending[c] EXCEPT !.left = @ \ {t}].team = pending[c].team
          /\ [pending[c] EXCEPT !.left = @ \ {t}].left = pending[c].left \ {t}
      BY <2>4 DEF Assignments
    <3> QED BY <3>1, <3>2
  <2>8. pending' = [pending EXCEPT ![c] = p] BY <2>1
  <2>9. tasks' = IF t \in DOMAIN tasks THEN [tasks EXCEPT ![t] = now] ELSE tasks BY <2>1
  <2>10. t \in DOMAIN tasks => now \in Task /\ now.team = pending[c].team
    <3>1. ASSUME t \in DOMAIN tasks PROVE tasks[t] \in Task BY <1>i, <3>1 DEF Listed
    <3> QED BY <2>6, <3>1 DEF Task
  <2> HIDE DEF p, now
  <2>11. /\ pending' \in [Caller -> Assignments] /\ pending'[c] = p
         /\ \A d \in Caller : d # c => pending'[d] = pending[d]
    BY <1>i, <2>7, <2>8 DEF Assigning
  <2>12. /\ DOMAIN tasks' = DOMAIN tasks /\ tasks' \in [DOMAIN tasks -> Task]
         /\ t \in DOMAIN tasks => tasks'[t].team = pending[c].team
         /\ \A u \in DOMAIN tasks : u # t => tasks'[u] = tasks[u]
    BY <1>i, <2>9, <2>10 DEF Listed
  <2>13. Listed' BY <1>i, <2>2, <2>3, <2>12 DEF Listed
  <2>14. Assigning'
    <3>1. ASSUME NEW d \in Caller, pending'[d] # NoTeam
          PROVE  /\ pending'[d].team \in idsGiven["team"] /\ pending'[d].left \subseteq idsGiven["task"]
                 /\ pending'[d].team \in DOMAIN teams => pending'[d].left \subseteq teams[pending'[d].team].tasks
      <4>1. CASE d = c BY <1>i, <2>5, <2>7, <2>11, <3>1, <4>1 DEF Assigning
      <4>2. CASE d # c BY <1>i, <2>11, <3>1, <4>2 DEF Assigning
      <4> QED BY <4>1, <4>2
    <3> QED BY <2>2, <2>3, <2>11, <3>1 DEF Assigning
  <2>15. ASSUME NEW u \in DOMAIN tasks', tasks'[u].team # 0 PROVE HasTeam(u)'
    <3>1. CASE u = t
      <4>1. tasks'[u].team = pending[c].team BY <2>12, <2>15, <3>1
      <4>2. pending[c].team \in DOMAIN teams => t \in teams[pending[c].team].tasks BY <1>i, <2>1, <2>5 DEF Assigning
      <4> QED BY <2>2, <2>3, <2>6, <3>1, <4>1, <4>2 DEF HasTeam
    <3>2. CASE u # t
      <4>1. HasTeam(u) /\ tasks'[u] = tasks[u] BY <1>i, <2>12, <2>15, <3>2 DEF TeamInv
      <4> QED BY <2>2, <2>3, <4>1 DEF HasTeam
    <3> QED BY <3>1, <3>2
  <2>16. ASSUME NEW id \in DOMAIN teams', NEW u \in teams'[id].tasks \cap DOMAIN tasks'
         PROVE  tasks'[u].team # 0 \/ Waits(id, u)'
    <3>1. CASE u = t BY <2>6, <2>12, <2>16, <3>1
    <3>2. CASE u # t
      <4>1. tasks[u].team # 0 \/ Waits(id, u) BY <1>i, <2>2, <2>12, <2>16 DEF TeamInv
      <4>2. ASSUME Waits(id, u) PROVE Waits(id, u)'
        <5>1. PICK d \in Caller : pending[d].team = id /\ u \in pending[d].left BY <4>2 DEF Waits
        <5>2. CASE d # c BY <2>11, <5>1, <5>2 DEF Waits
        <5>3. CASE d = c
          <6>1. u \in p.left BY <2>7, <3>2, <5>1, <5>3
          <6>2. p # NoTeam BY <6>1 DEF NoTeam
          <6> QED BY <2>7, <2>11, <5>1, <5>3, <6>1, <6>2 DEF Waits
        <5> QED BY <5>2, <5>3
      <4> QED BY <2>12, <2>16, <3>2, <4>1, <4>2
    <3> QED BY <3>1, <3>2
  <2>17. TeamInv' BY <2>15, <2>16 DEF TeamInv
  <2> QED BY <2>3, <2>13, <2>14, <2>17 DEF RegistryInv
\* Teams that go, or are marked as gone, take no task along.
<1>6. ASSUME NEW id \in DOMAIN teams, TeamDelete(id) \/ TeamRemove(id) PROVE RegistryInv'
  <2>1. UNCHANGED <<tasks, pending, ids>> BY <1>6 DEF TeamDelete, TeamRemove
  <2>2. IdsRise' /\ UNCHANGED idsGiven BY <1>i, <2>1, IdsStay DEF ids
  <2>3. /\ teams' \in [DOMAIN teams' -> Team] /\ DOMAIN teams' \subseteq DOMAIN teams
        /\ \A i \in DOMAIN teams' : teams'[i].tasks = teams[i].tasks
    <3>1. CASE TeamDelete(id)
      <4> DEFINE gone == [teams[id] EXCEPT !.status = "deleted"]
      <4>1. teams' = [teams EXCEPT ![id] = gone] BY <3>1 DEF TeamDelete
      <4>2. teams[id] \in Team BY <1>i DEF Listed
      <4>3. gone \in Team /\ gone.tasks = teams[id].tasks BY <4>2 DEF Team
      <4> HIDE DEF gone
      <4> QED BY <1>i, <4>1, <4>3 DEF Listed
    <3>2. CASE TeamRemove(id)
      <4>1. teams' = Without(teams, id) BY <3>2 DEF TeamRemove
      <4>2. teams' \in [DOMAIN teams' -> Team] BY <1>i, <4>1, WithoutType DEF Listed
      <4>3. DOMAIN teams' = DOMAIN teams \ {id} /\ \A y \in DOMAIN teams' : teams'[y] = teams[y] BY <4>1, WithoutIs
      <4> QED BY <4>2, <4>3
    <3> QED BY <1>6, <3>1, <3>2
  <2>4. Listed' BY <1>i, <2>1, <2>2, <2>3 DEF Listed
  <2>5. Assigning' BY <1>i, <2>1, <2>2, <2>3 DEF Assigning
  <2>6. ASSUME NEW t \in DOMAIN tasks', tasks'[t].team # 0 PROVE HasTeam(t)'
    <3>1. HasTeam(t) BY <1>i, <2>1, <2>6 DEF TeamInv
    <3> QED BY <2>1, <2>2, <2>3, <3>1 DEF HasTeam
  <2>7. ASSUME NEW i \in DOMAIN teams', NEW t \in teams'[i].tasks \cap DOMAIN tasks'
        PROVE  tasks'[t].team # 0 \/ Waits(i, t)'
    <3>1. tasks[t].team # 0 \/ Waits(i, t) BY <1>i, <2>1, <2>3, <2>7 DEF TeamInv
    <3>2. Waits(i, t) => Waits(i, t)' BY <2>1 DEF Waits
    <3> QED BY <2>1, <3>1, <3>2
  <2>8. TeamInv' BY <2>6, <2>7 DEF TeamInv
  <2> QED BY <2>2, <2>4, <2>5, <2>8 DEF RegistryInv
<1> QED
  BY <1>1, <1>2, <1>3, <1>4, <1>5, <1>6 DEF TasksNext

LEMMA RegistriesKeep == RegistryInv /\ [RegistriesNext]_registryVars => RegistryInv'
<1> SUFFICES ASSUME RegistryInv, [RegistriesNext]_registryVars PROVE RegistryInv'
  OBVIOUS
\* The other registries share with the tasks nothing but the counters.
<1>o. ASSUME UNCHANGED taskVars, IdsRise', idsGiven'["task"] = idsGiven["task"], idsGiven'["team"] = idsGiven["team"]
      PROVE  RegistryInv'
  <2>1. UNCHANGED <<tasks, teams, pending>> BY <1>o DEF taskVars
  <2>2. Listed' BY <1>o, <2>1 DEF RegistryInv, Listed
  <2>3. Assigning' BY <1>o, <2>1 DEF RegistryInv, Assigning
  <2>4. TeamInv'
    <3>1. ASSUME NEW t \in DOMAIN tasks', tasks'[t].team # 0 PROVE HasTeam(t)'
      <4>1. HasTeam(t) BY <2>1, <3>1 DEF RegistryInv, TeamInv
      <4> QED BY <1>o, <2>1, <4>1 DEF HasTeam
    <3>2. ASSUME NEW i \in DOMAIN teams', NEW t \in teams'[i].tasks \cap DOMAIN tasks'
          PROVE  tasks'[t].team # 0 \/ Waits(i, t)'
      <4>1. tasks[t].team # 0 \/ Waits(i, t) BY <2>1, <3>2 DEF RegistryInv, TeamInv
      <4>2. Waits(i, t) => Waits(i, t)' BY <2>1 DEF Waits
      <4> QED BY <2>1, <4>1, <4>2
    <3> QED BY <3>1, <3>2 DEF TeamInv
  <2> QED BY <1>o, <2>2, <2>3, <2>4 DEF RegistryInv
<1>u. ASSUME UNCHANGED taskVars, UNCHANGED ids PROVE RegistryInv'
  BY <1>o, <1>u, IdsStay DEF RegistryInv, ids
<1>1. CASE TasksNext BY <1>1, TasksStep
<1>2. CASE CronsNext /\ UNCHANGED taskVars
  <2>1. CASE CronCreate
    <3>1. GiveId("cron", counter["cron"] + 1) BY <2>1 DEF CronCreate, Fresh
    <3>2. "cron" \in Registry /\ "task" \in Registry /\ "team" \in Registry BY DEF Registry
    <3>3. IdsRise' /\ \A s \in Registry : s # "cron" => idsGiven'[s] = idsGiven[s]
      BY <3>1, <3>2, GivenOnce DEF RegistryInv
    <3> QED BY <1>2, <1>o, <3>2, <3>3
  <2>2. CASE UNCHANGED ids BY <1>2, <1>u, <2>2
  <2> QED BY <1>2, <2>1, <2>2 DEF CronsNext, CronDelete, Disable, RecordRun
<1>3. CASE LspNext /\ UNCHANGED taskVars
  <2>1. UNCHANGED ids
    BY <1>3 DEF LspNext, Register, AddDiagnostics, ClearDiagnostics, Disconnect, FindServerForPath, Dispatch
  <2> QED BY <1>3, <1>u, <2>1
<1>4. CASE UNCHANGED registryVars
  BY <1>4, <1>u DEF registryVars
<1> QED BY <1>1, <1>2, <1>3, <1>4 DEF RegistriesNext

\* The invariant of the registries, for any number of callers, ids and entries.
THEOREM RegistriesInvariant == RegistriesSpec => []RegistryInv
<1>1. RegistriesInit => RegistryInv BY RegistriesInitially
<1>2. RegistryInv /\ [RegistriesNext]_registryVars => RegistryInv' BY RegistriesKeep
<1> QED BY <1>1, <1>2, PTL DEF RegistriesSpec

\* A task that a team lists belongs to a team that lists it, once no TeamCreate is on
\* its way, however any number of them interleave with one another and with removals.
THEOREM TasksBelong == RegistriesSpec => []TaskHasItsTeam
<1>1. RegistryInv => TaskHasItsTeam
  <2> SUFFICES ASSUME RegistryInv, \A c \in Caller : pending[c] = NoTeam,
                      NEW id \in DOMAIN teams, NEW t \in teams[id].tasks \cap DOMAIN tasks
               PROVE  HasTeam(t)
    BY DEF TaskHasItsTeam, HasTeam
  <2>1. ~Waits(id, t) BY DEF Waits, NoTeam
  <2>2. tasks[t].team # 0 BY <2>1 DEF RegistryInv, TeamInv
  <2> QED BY <2>2 DEF RegistryInv, TeamInv
<1> QED BY <1>1, RegistriesInvariant, PTL
-----------------------------------------------------------------------------
\* What holds of 0 and of the next of each holds of every number.
LEMMA CountUp ==
  ASSUME NEW S, 0 \in S, \A n \in Nat : n \in S => n + 1 \in S
  PROVE  Nat \subseteq S
<1> SUFFICES ASSUME Nat \ S # {} PROVE FALSE
  OBVIOUS
<1>1. PICK m \in Nat \ S : \A y \in Nat \ S : <<y, m>> \notin OpToRel(<, Nat)
  BY NatLessThanWellFounded, WFMin
<1>2. m # 0 /\ m - 1 \in Nat /\ m - 1 < m /\ (m - 1) + 1 = m
  OBVIOUS
<1>3. <<m - 1, m>> \in OpToRel(<, Nat)
  BY <1>2 DEF OpToRel
<1> QED
  BY <1>1, <1>2, <1>3
-----------------------------------------------------------------------------
(***************************************************************************)
(* The local proxy.  Until it is done, what was written is nothing or a    *)
(* stream as far as it has come; a request leads to the end in one step.   *)
(***************************************************************************)
Line == {"json", "sse", "start", "token", "answer", "warned", "end_turn", "length", "error"} \X Nat
\* What a stream of n tokens has been told.
Streamed(n) == [i \in 1..(n + 2) |-> IF i = 1 THEN SseHeaders ELSE IF i = 2 THEN MessageStart ELSE Token(i - 2)]

ProxyTypes ==
    /\ serving \in [at : {"idle", "open", "first", "rest", "complete", "done"}, streaming : BOOLEAN, repaired : BOOLEAN]
    /\ heard = [tokens |-> heard.tokens, finish |-> heard.finish, answers |-> heard.answers, trouble |-> heard.trouble]
    /\ heard.tokens \in Nat /\ heard.finish \in {"end_turn", "length"} /\ heard.answers \in Seq(Completions)
    /\ reply \in Seq(Line)

\* Before its first token a stream has nothing to tell, nor has a request for a whole
\* answer until it has one; answers are collected only while they are found wanting.
ProxyInv ==
    /\ ProxyTypes
    /\ serving.at \in {"idle", "open", "first", "complete"} => reply = <<>> /\ heard.tokens = 0
    /\ serving.at \in {"idle", "open", "first", "rest"} => heard.answers = <<>>
    /\ serving.at \in {"idle", "open", "first", "rest", "complete"} => heard.trouble = "none"
    /\ serving.at \in {"open", "first", "rest"} => serving.streaming /\ ~serving.repaired
    /\ serving.at = "complete" =>
          /\ \A i \in 1..Len(heard.answers) : heard.answers[i].score < Accepted
          /\ Len(heard.answers) <= MaxRepairs
          /\ heard.answers # <<>> => serving.repaired
    /\ serving.at = "rest" => heard.tokens > 0 /\ reply = Streamed(heard.tokens)
    /\ serving.at = "done" => StreamTold /\ RepairTold

LEMMA StreamedSeq ==
    ASSUME NEW n \in Nat
    PROVE  Streamed(n) \in Seq(Line) /\ Len(Streamed(n)) = n + 2
<1>1. \A i \in 1..(n + 2) : Streamed(n)[i] \in Line
  BY DEF Streamed, Line, SseHeaders, MessageStart, Token
<1> QED
  BY <1>1 DEF Streamed

LEMMA StreamedIs ==
    ASSUME NEW n \in Nat, NEW e \in Line
    PROVE  LET r == Streamed(n) \o <<e>>
           IN  /\ Streamed(n) \in Seq(Line) /\ Len(Streamed(n)) = n + 2
               /\ r \in Seq(Line) /\ Len(r) = n + 3 /\ DOMAIN r = 1..(n + 3)
               /\ \A i \in 1..(n + 2) : r[i] = Streamed(n)[i]
               /\ r[n + 3] = e
<1>2. Streamed(n) \in Seq(Line) /\ Len(Streamed(n)) = n + 2
  BY StreamedSeq
<1>3. <<e>> \in Seq(Line) /\ Len(<<e>>) = 1 /\ <<e>>[1] = e
  OBVIOUS
<1>4. (Streamed(n) \o <<e>>) \in Seq(Line) /\ Len(Streamed(n) \o <<e>>) = n + 3
  BY <1>2, <1>3, ConcatProperties
<1>5. \A i \in 1..(n + 3) : (Streamed(n) \o <<e>>)[i] = IF i <= n + 2 THEN Streamed(n)[i] ELSE <<e>>[i - (n + 2)]
  BY <1>2, <1>3, ConcatProperties
<1>6. DOMAIN (Streamed(n) \o <<e>>) = 1..(n + 3)
  BY <1>4, LenProperties
<1> QED
  BY <1>2, <1>3, <1>4, <1>5, <1>6

\* The first token takes what was held back with it; the others follow.
LEMMA StreamGoesOn ==
    ASSUME NEW n \in Nat
    PROVE  /\ <<SseHeaders, MessageStart>> = Streamed(0)
           /\ Streamed(n) \o <<Token(n + 1)>> = Streamed(n + 1)
<1>1. Streamed(0) \in Seq(Line) /\ Len(Streamed(0)) = 2
  BY StreamedSeq, 0 \in Nat, 0 + 2 = 2
<1>2. <<SseHeaders, MessageStart>> = Streamed(0)
  <2>1. Streamed(0)[1] = SseHeaders /\ Streamed(0)[2] = MessageStart
    BY DEF Streamed
  <2>2. Streamed(0) = [i \in 1..2 |-> IF i = 1 THEN SseHeaders ELSE MessageStart]
    BY DEF Streamed
  <2> QED
    BY <1>1, <2>1, <2>2
<1>3. Token(n + 1) \in Line
  BY DEF Token, Line
<1> DEFINE r == Streamed(n) \o <<Token(n + 1)>>
<1>4. /\ r \in Seq(Line) /\ Len(r) = n + 3 /\ \A i \in 1..(n + 2) : r[i] = Streamed(n)[i]
      /\ r[n + 3] = Token(n + 1)
  BY <1>3, StreamedIs
<1>5. Streamed(n + 1) \in Seq(Line) /\ Len(Streamed(n + 1)) = n + 3
  BY StreamedSeq, n + 1 \in Nat, (n + 1) + 2 = n + 3
<1>6. \A i \in 1..(n + 3) : r[i] = Streamed(n + 1)[i]
  BY <1>4 DEF Streamed
<1>7. r = Streamed(n + 1)
  <2>1. r = [i \in 1..(n + 3) |-> r[i]] /\ Streamed(n + 1) = [i \in 1..(n + 3) |-> Streamed(n + 1)[i]]
    BY <1>4, <1>5, LenProperties
  <2> QED
    BY <1>6, <2>1
<1> QED
  BY <1>2, <1>7

In(r, kinds) == {i \in DOMAIN r : r[i][1] \in kinds}

\* What a stream says that was told n tokens, alone or with one more event.
LEMMA StreamSays ==
    ASSUME NEW n \in Nat, NEW r, r = Streamed(n)
    PROVE  /\ In(r, {"token"}) = 3..(n + 2) /\ \A i \in 3..(n + 2) : r[i] = Token(i - 2)
           /\ In(r, {"json", "sse"}) = {1} /\ r # <<>>
           /\ In(r, {"start"}) = {2}
<1>1. DOMAIN r = 1..(n + 2) /\ \A i \in 1..(n + 2) : r[i] = IF i = 1 THEN SseHeaders ELSE IF i = 2 THEN MessageStart ELSE Token(i - 2)
  BY DEF Streamed
<1>2. \A i \in 1..(n + 2) : r[i][1] = IF i = 1 THEN "sse" ELSE IF i = 2 THEN "start" ELSE "token"
  BY <1>1 DEF SseHeaders, MessageStart, Token
<1>3. r # <<>>
  BY StreamedSeq, EmptySeq
<1>4. \A i \in 3..(n + 2) : r[i] = Token(i - 2)
  BY <1>1
<1> QED
  BY <1>1, <1>2, <1>3, <1>4 DEF In

LEMMA StreamAndOne ==
    ASSUME NEW n \in Nat, NEW e, NEW r, e[1] \notin {"token", "start"},
           DOMAIN r = 1..(n + 3), r[n + 3] = e, Len(r) = n + 3,
           \A i \in 1..(n + 2) : r[i] = Streamed(n)[i]
    PROVE  /\ In(r, {"token"}) = 3..(n + 2) /\ \A i \in 3..(n + 2) : r[i] = Token(i - 2)
           /\ e[1] \notin {"json", "sse"} => In(r, {"json", "sse"}) = {1}
           /\ r # <<>> /\ In(r, {"start"}) = {2}
           /\ e[1] \in Stops => In(r, Stops) = {n + 3}
           /\ Len(r) = n + 3 /\ r[n + 3] = e
<1>1. DOMAIN r = 1..(n + 3) /\ r[n + 3] = e /\ \A i \in 1..(n + 2) : r[i] = Streamed(n)[i]
  OBVIOUS
<1>2. \A i \in 1..(n + 2) : r[i] = IF i = 1 THEN SseHeaders ELSE IF i = 2 THEN MessageStart ELSE Token(i - 2)
  BY <1>1 DEF Streamed
<1>3. \A i \in 1..(n + 2) : r[i][1] = IF i = 1 THEN "sse" ELSE IF i = 2 THEN "start" ELSE "token"
  <2> TAKE i \in 1..(n + 2)
  <2>1. r[i] = IF i = 1 THEN SseHeaders ELSE IF i = 2 THEN MessageStart ELSE Token(i - 2)
    BY <1>2
  <2> QED
    BY <2>1 DEF SseHeaders, MessageStart, Token
<1>4. r # <<>>
  BY <1>1
<1>5. \A i \in 3..(n + 2) : r[i] = Token(i - 2)
  BY <1>2
<1>6. \A i \in 1..(n + 3) : i = n + 3 \/ i \in 1..(n + 2)
  OBVIOUS
<1>7. In(r, {"token"}) = 3..(n + 2)
  BY <1>1, <1>3, <1>6 DEF In
<1>8. In(r, {"start"}) = {2}
  BY <1>1, <1>3, <1>6 DEF In
<1>9. e[1] \notin {"json", "sse"} => In(r, {"json", "sse"}) = {1}
  BY <1>1, <1>3, <1>6 DEF In
<1>10. e[1] \in Stops => In(r, Stops) = {n + 3}
  BY <1>1, <1>3, <1>6 DEF In, Stops
<1> QED
  BY <1>4, <1>5, <1>7, <1>8, <1>9, <1>10

\* One event alone.
LEMMA OneEvent ==
    ASSUME NEW e \in Line, NEW r, r = <<>> \o <<e>>
    PROVE  /\ r = <<e>> /\ r \in Seq(Line) /\ r # <<>> /\ Len(r) = 1 /\ DOMAIN r = {1} /\ r[1] = e
           /\ e[1] \in {"json", "sse"} => In(r, {"json", "sse"}) = {1}
           /\ e[1] # "sse" => In(r, {"sse"}) = {}
           /\ e[1] # "token" => In(r, {"token"}) = {}
<1>1. r = <<e>> /\ r \in Seq(Line)
  <2>1. <<e>> \in Seq(Line)
    OBVIOUS
  <2> QED
    BY <2>1, ConcatEmptySeq
<1>2. Len(r) = 1 /\ DOMAIN r = {1} /\ r[1] = e /\ r # <<>>
  BY <1>1
<1> QED
  BY <1>1, <1>2 DEF In

LEMMA ProxyBegins == ProxyInit => ProxyInv
<1> SUFFICES ASSUME ProxyInit PROVE ProxyInv
  OBVIOUS
<1>1. heard = Silence /\ reply = <<>> /\ serving = [at |-> "idle", streaming |-> FALSE, repaired |-> FALSE]
  BY DEF ProxyInit
<1> QED
  BY <1>1, EmptySeq DEF ProxyInv, ProxyTypes, Silence

\* A request that ends with an event alone, nothing of a stream having been told.
LEMMA EndsAlone ==
    ASSUME ProxyInv, serving.at \notin {"rest", "idle", "done"}, Turn("done"), NEW e \in Line,
           e[1] \in {"json", "error"}, reply' = reply \o <<e>>, NEW kind, Suffer(kind), kind # "none",
           e[1] = "error" => kind = "broken stream"
    PROVE  ProxyInv'
<1> DEFINE r == reply'
<1>1. reply = <<>> /\ heard.tokens = 0
  BY DEF ProxyInv, ProxyTypes
<1>2. r = <<>> \o <<e>>
  BY <1>1
<1> HIDE DEF r
<1>3. /\ r \in Seq(Line) /\ r # <<>> /\ In(r, {"sse"}) = {} /\ In(r, {"token"}) = {}
      /\ e[1] = "json" => In(r, {"json", "sse"}) = {1}
  BY <1>2, OneEvent
<1>4. /\ heard'.tokens = 0 /\ heard'.answers = heard.answers /\ heard'.finish = heard.finish /\ heard'.trouble = kind
      /\ heard' = [tokens |-> 0, finish |-> heard.finish, answers |-> heard.answers, trouble |-> kind]
  BY <1>1 DEF Suffer, ProxyInv, ProxyTypes
<1>5. serving'.at = "done" /\ ProxyTypes'
  BY <1>3, <1>4 DEF Turn, ProxyInv, ProxyTypes, r
<1>6. StreamTold'
  <2>1. Told({"token"})' = {} /\ Told({"sse"})' = {} /\ (e[1] = "json" => Told({"json", "sse"})' = {1}) /\ reply' # <<>>
    BY <1>3 DEF Told, In, r
  <2>2. Told({"token"})' = 3..(heard'.tokens + 2)
    <3>1. heard'.tokens = 0
      BY <1>4
    <3>2. heard'.tokens + 2 = 2
      BY ONLY <3>1
    <3>3. 3..(heard'.tokens + 2) = {}
      BY ONLY <3>2
    <3> QED
      BY ONLY <2>1, <3>3
  <2>3. WellServed' => OneReply'
    <3>1. heard'.tokens = 0 /\ heard'.trouble = kind
      BY <1>4
    <3>2. ~(heard'.tokens > 0)
      BY ONLY <3>1
    <3>3. WellServed' => e[1] = "json"
      BY <3>1, <3>2 DEF WellServed
    <3> QED
      BY <2>1, <3>3 DEF OneReply
  <2> QED
    BY <2>1, <2>2, <2>3 DEF StreamTold
<1>7. RepairTold'
  BY <1>4 DEF RepairTold
<1> QED
  BY <1>5, <1>6, <1>7 DEF ProxyInv

\* A stream under way ends with one more event, which is no token.
LEMMA EndsStream ==
    ASSUME ProxyInv, NEW n \in Nat, serving.at \in {"first", "rest"}, Turn("done"), NEW e \in Line,
           e[1] \notin {"token", "start", "sse"}, reply' = Streamed(n) \o <<e>>,
           heard'.tokens = n, heard'.answers = <<>>, heard' = [heard EXCEPT !.trouble = heard'.trouble],
           e[1] = "json" => heard'.trouble = "misfit chunk",
           e[1] # "json" => e[1] \in Stops /\ (e[1] = "error" <=> n = 0 \/ heard'.trouble # "none")
    PROVE  ProxyInv'
<1>0. PICK r : r = reply'
  OBVIOUS
<1>1. r = Streamed(n) \o <<e>>
  BY <1>0
<1>2. /\ In(r, {"token"}) = 3..(n + 2) /\ \A i \in 3..(n + 2) : r[i] = Token(i - 2)
      /\ e[1] \notin {"json", "sse"} => In(r, {"json", "sse"}) = {1}
      /\ r # <<>> /\ In(r, {"start"}) = {2}
      /\ e[1] \in Stops => In(r, Stops) = {n + 3}
      /\ Len(r) = n + 3 /\ r[n + 3] = e
  <2>1. e[1] \notin {"token", "start"}
    OBVIOUS
  <2>2. /\ DOMAIN r = 1..(n + 3) /\ r[n + 3] = e /\ Len(r) = n + 3
        /\ \A i \in 1..(n + 2) : r[i] = Streamed(n)[i]
    BY ONLY <1>1, StreamedIs
  <2> QED
    BY ONLY <2>1, <2>2, StreamAndOne
<1>3. r \in Seq(Line)
  BY <1>1, StreamedIs
<1>4. serving'.at = "done" /\ ~serving'.repaired /\ ProxyTypes'
  BY <1>0, <1>3 DEF Turn, ProxyInv, ProxyTypes
<1>5. RepairTold'
  BY <1>4 DEF RepairTold
<1>6. /\ (WellServed => OneReply)'
      /\ (Told({"token"}) = 3..(heard.tokens + 2) /\ \A i \in Told({"token"}) : reply[i] = Token(i - 2))'
      /\ (Told({"sse"}) # {} => Told({"start"}) = {2})'
  <2>1. In(r, {"token"}) = 3..(n + 2) /\ \A i \in In(r, {"token"}) : r[i] = Token(i - 2)
    BY <1>2
  <2>2. heard'.trouble # "misfit chunk" => In(r, {"json", "sse"}) = IF r = <<>> THEN {} ELSE {1}
    BY <1>2
  <2> QED
    BY <1>0, <1>2, <2>1, <2>2 DEF Told, In, WellServed, OneReply
<1>7. heard'.trouble # "misfit chunk" =>
         /\ In(r, Stops) = {Len(r)}
         /\ r[Len(r)][1] = "error" <=> heard'.answers = <<>> /\ (heard'.tokens = 0 \/ heard'.trouble # "none")
  BY <1>2
<1>8. StreamTold'
  BY <1>0, <1>6, <1>7 DEF StreamTold, Told, In
<1> QED
  BY <1>4, <1>5, <1>8 DEF ProxyInv

\* The answers collected when a request is answered in full: those that were found
\* wanting, and the last.
LEMMA AnswersGiven ==
    ASSUME ProxyInv, serving.at = "complete", NEW a \in Completions,
           NEW given, given = Append(heard.answers, a)
    PROVE  /\ given \in Seq(Completions) /\ Len(given) = Len(heard.answers) + 1 /\ Len(given) \in Nat \ {0}
           /\ given[Len(given)] = a
           /\ \A i \in 1..(Len(given) - 1) : given[i].score < Accepted
           /\ \A i \in 1..Len(given) : given[i] \in Completion
<1>1. heard.answers \in Seq(Completions) /\ \A i \in 1..Len(heard.answers) : heard.answers[i].score < Accepted
  BY DEF ProxyInv, ProxyTypes
<1>2. /\ given \in Seq(Completions) /\ Len(given) = Len(heard.answers) + 1 /\ given[Len(heard.answers) + 1] = a
      /\ \A i \in 1..Len(heard.answers) : given[i] = heard.answers[i]
  BY <1>1, AppendProperties
<1>3. Len(heard.answers) \in Nat
  BY <1>1, LenProperties
<1>4. \A i \in 1..Len(given) : given[i] \in Completion
  BY <1>2, ElementOfSeq DEF Completions
<1> QED
  BY <1>1, <1>2, <1>3, <1>4

\* The best of the first n, of equals the last.
BestAmong(given, n, i) ==
    /\ i \in 1..n
    /\ \A j \in 1..n : given[j].score < given[i].score \/ (given[j].score = given[i].score /\ j <= i)

LEMMA BestGrows ==
    ASSUME NEW given, NEW n \in Nat \ {0}, \A i \in 1..(n + 1) : given[i].score \in 0..2,
           NEW k, BestAmong(given, n, k)
    PROVE  BestAmong(given, n + 1, k) \/ BestAmong(given, n + 1, n + 1)
<1>1. \A j \in 1..(n + 1) : j \in 1..n \/ j = n + 1
  OBVIOUS
<1>2. given[k].score \in 0..2 /\ given[n + 1].score \in 0..2
  BY DEF BestAmong
<1>3. CASE given[n + 1].score < given[k].score
  BY <1>1, <1>3 DEF BestAmong
<1>4. CASE ~(given[n + 1].score < given[k].score)
  <2>1. ASSUME NEW j \in 1..n
        PROVE  \/ given[j].score < given[n + 1].score
               \/ given[j].score = given[n + 1].score /\ j <= n + 1
    <3>1. given[j].score \in 0..2 /\ (given[j].score < given[k].score \/ given[j].score = given[k].score)
      BY DEF BestAmong
    <3> QED
      BY <1>2, <1>4, <3>1
  <2> QED
    BY <1>1, <2>1 DEF BestAmong
<1> QED
  BY <1>3, <1>4

\* The best answer is there, and is an accepted one if the last one is.
LEMMA BestIs ==
    ASSUME NEW given, Len(given) \in Nat \ {0}, DOMAIN given = 1..Len(given),
           \A i \in 1..Len(given) : given[i] \in Completion
    PROVE  BestAmong(given, Len(given), BestOf(given))
<1> DEFINE S == {n \in Nat : n + 1 <= Len(given) => \E i \in Nat : BestAmong(given, n + 1, i)}
<1>1. \A i \in 1..Len(given) : given[i].score \in 0..2
  BY DEF Completion, Score
<1>2. 0 \in S
  <2>1. BestAmong(given, 1, 1)
    BY DEF BestAmong
  <2> QED
    BY <2>1
<1>3. ASSUME NEW n \in Nat, n \in S PROVE n + 1 \in S
  <2> SUFFICES ASSUME (n + 1) + 1 <= Len(given) PROVE \E i \in Nat : BestAmong(given, (n + 1) + 1, i)
    OBVIOUS
  <2>1. PICK k \in Nat : BestAmong(given, n + 1, k)
    BY <1>3
  <2>2. n + 1 \in Nat \ {0} /\ (n + 1) + 1 \in Nat /\ \A i \in 1..((n + 1) + 1) : given[i].score \in 0..2
    BY <1>1
  <2>3. BestAmong(given, (n + 1) + 1, k) \/ BestAmong(given, (n + 1) + 1, (n + 1) + 1)
    BY <2>1, <2>2, BestGrows
  <2> QED
    BY <2>2, <2>3
<1> HIDE DEF S
<1>4. Nat \subseteq S
  BY <1>2, <1>3, CountUp
<1>5. \E i \in DOMAIN given : BestAmong(given, Len(given), i)
  <2>1. Len(given) - 1 \in S /\ (Len(given) - 1) + 1 = Len(given)
    BY <1>4
  <2>2. \E i \in Nat : BestAmong(given, Len(given), i)
    BY <2>1 DEF S
  <2> QED
    BY <2>2 DEF BestAmong
<1> QED
  BY <1>5 DEF BestOf, BestAmong

\* Short sequences put together.
LEMMA JoinTwo ==
    ASSUME NEW a, NEW b
    PROVE  <<a>> \o <<b>> = <<a, b>>
<1> DEFINE S == {a, b}
<1>1. <<a>> \in Seq(S) /\ <<b>> \in Seq(S) /\ <<a, b>> \in Seq(S)
  OBVIOUS
<1>2. /\ (<<a>> \o <<b>>) \in Seq(S) /\ Len(<<a>> \o <<b>>) = 2
      /\ \A i \in 1..2 : (<<a>> \o <<b>>)[i] = IF i <= 1 THEN <<a>>[i] ELSE <<b>>[i - 1]
  BY <1>1, ConcatProperties
<1>3. \A i \in 1..2 : (<<a>> \o <<b>>)[i] = <<a, b>>[i]
  BY <1>2
<1>4. Len(<<a, b>>) = 2
  OBVIOUS
<1> QED
  BY ONLY <1>1, <1>2, <1>3, <1>4, SeqEqual

LEMMA JoinThree ==
    ASSUME NEW a, NEW b, NEW c
    PROVE  <<a, b>> \o <<c>> = <<a, b, c>>
<1> DEFINE S == {a, b, c}
<1>1. <<a, b>> \in Seq(S) /\ <<c>> \in Seq(S) /\ <<a, b, c>> \in Seq(S)
  OBVIOUS
<1>2. /\ (<<a, b>> \o <<c>>) \in Seq(S) /\ Len(<<a, b>> \o <<c>>) = 3
      /\ \A i \in 1..3 : (<<a, b>> \o <<c>>)[i] = IF i <= 2 THEN <<a, b>>[i] ELSE <<c>>[i - 2]
  BY <1>1, ConcatProperties
<1>3. \A i \in 1..3 : (<<a, b>> \o <<c>>)[i] = <<a, b, c>>[i]
  BY <1>2
<1>4. Len(<<a, b, c>>) = 3
  OBVIOUS
<1> QED
  BY ONLY <1>1, <1>2, <1>3, <1>4, SeqEqual

LEMMA JoinFour ==
    ASSUME NEW a, NEW b, NEW c, NEW d
    PROVE  <<a, b, c>> \o <<d>> = <<a, b, c, d>>
<1> DEFINE S == {a, b, c, d}
<1>1. <<a, b, c>> \in Seq(S) /\ <<d>> \in Seq(S) /\ <<a, b, c, d>> \in Seq(S)
  OBVIOUS
<1>2. /\ (<<a, b, c>> \o <<d>>) \in Seq(S) /\ Len(<<a, b, c>> \o <<d>>) = 4
      /\ \A i \in 1..4 : (<<a, b, c>> \o <<d>>)[i] = IF i <= 3 THEN <<a, b, c>>[i] ELSE <<d>>[i - 3]
  BY <1>1, ConcatProperties
<1>3. \A i \in 1..4 : (<<a, b, c>> \o <<d>>)[i] = <<a, b, c, d>>[i]
  BY <1>2
<1>4. Len(<<a, b, c, d>>) = 4
  OBVIOUS
<1> QED
  BY ONLY <1>1, <1>2, <1>3, <1>4, SeqEqual

\* The kinds of a short sequence's events.
LEMMA KindsOfShort ==
    ASSUME NEW r, NEW kinds
    PROVE  /\ r = <<r[1]>> => In(r, kinds) = {i \in {1} : r[i][1] \in kinds}
           /\ r = <<r[1], r[2]>> => In(r, kinds) = {i \in {1, 2} : r[i][1] \in kinds}
           /\ r = <<r[1], r[2], r[3]>> => In(r, kinds) = {i \in {1, 2, 3} : r[i][1] \in kinds}
           /\ r = <<r[1], r[2], r[3], r[4]>> => In(r, kinds) = {i \in {1, 2, 3, 4} : r[i][1] \in kinds}
<1>1. r = <<r[1]>> => DOMAIN r = {1}
  OBVIOUS
<1>2. r = <<r[1], r[2]>> => DOMAIN r = {1, 2}
  OBVIOUS
<1>3. r = <<r[1], r[2], r[3]>> => DOMAIN r = {1, 2, 3}
  OBVIOUS
<1>4. r = <<r[1], r[2], r[3], r[4]>> => DOMAIN r = {1, 2, 3, 4}
  OBVIOUS
<1> QED
  BY <1>1, <1>2, <1>3, <1>4 DEF In

\* A message that is told in full, as events or as JSON.
Message(answer) == <<SseHeaders, MessageStart>> \o answer \o <<MessageStop("end_turn")>>

LEMMA EventsSay ==
    ASSUME NEW r, NEW v \in Line, v[1] \in {"answer", "warned"}
    PROVE  /\ r = Message(<<>>) =>
                 /\ r \in Seq(Line) /\ r # <<>> /\ In(r, {"token"}) = {} /\ In(r, {"json", "sse"}) = {1}
                 /\ In(r, {"start"}) = {2} /\ In(r, Stops) = {Len(r)} /\ r[Len(r)][1] = "end_turn"
           /\ r = Message(<<v>>) =>
                 /\ r \in Seq(Line) /\ r # <<>> /\ In(r, {"token"}) = {} /\ In(r, {"json", "sse"}) = {1}
                 /\ In(r, {"start"}) = {2} /\ In(r, Stops) = {Len(r)} /\ r[Len(r)][1] = "end_turn"
                 /\ In(r, {"answer", "warned"}) = {3} /\ r[3] = v /\ 3 \in DOMAIN r
<1>1. ASSUME r = Message(<<>>)
      PROVE  /\ r \in Seq(Line) /\ r # <<>> /\ In(r, {"token"}) = {} /\ In(r, {"json", "sse"}) = {1}
             /\ In(r, {"start"}) = {2} /\ In(r, Stops) = {Len(r)} /\ r[Len(r)][1] = "end_turn"
  <2>1. r = <<SseHeaders, MessageStart, MessageStop("end_turn")>>
    <3>1. r = (<<SseHeaders, MessageStart>> \o <<>>) \o <<MessageStop("end_turn")>>
      BY <1>1 DEF Message
    <3>2. <<SseHeaders, MessageStart>> \o <<>> = <<SseHeaders, MessageStart>>
      <4>1. <<SseHeaders, MessageStart>> \in Seq(Line)
        BY DEF Line, SseHeaders, MessageStart
      <4> QED
        BY ONLY <4>1, ConcatEmptySeq
    <3>3. <<SseHeaders, MessageStart>> \o <<MessageStop("end_turn")>> = <<SseHeaders, MessageStart, MessageStop("end_turn")>>
      BY ONLY JoinThree
    <3> QED
      BY ONLY <3>1, <3>2, <3>3
  <2>2. r[1][1] = "sse" /\ r[2][1] = "start" /\ r[3][1] = "end_turn"
    BY ONLY <2>1 DEF SseHeaders, MessageStart, MessageStop
  <2>3. Len(r) = 3 /\ r = <<r[1], r[2], r[3]>> /\ r # <<>>
    BY ONLY <2>1
  <2>4. r \in Seq(Line)
    BY ONLY <2>1 DEF Line, SseHeaders, MessageStart, MessageStop
  <2>5. \A kinds : In(r, kinds) = {i \in {1, 2, 3} : r[i][1] \in kinds}
    BY ONLY <2>3, KindsOfShort
  <2> QED
    BY ONLY <2>2, <2>3, <2>4, <2>5 DEF Stops
<1>2. ASSUME r = Message(<<v>>)
      PROVE  /\ r \in Seq(Line) /\ r # <<>> /\ In(r, {"token"}) = {} /\ In(r, {"json", "sse"}) = {1}
             /\ In(r, {"start"}) = {2} /\ In(r, Stops) = {Len(r)} /\ r[Len(r)][1] = "end_turn"
             /\ In(r, {"answer", "warned"}) = {3} /\ r[3] = v /\ 3 \in DOMAIN r
  <2>1. r = <<SseHeaders, MessageStart, v, MessageStop("end_turn")>>
    <3>1. r = (<<SseHeaders, MessageStart>> \o <<v>>) \o <<MessageStop("end_turn")>>
      BY <1>2 DEF Message
    <3>2. <<SseHeaders, MessageStart>> \o <<v>> = <<SseHeaders, MessageStart, v>>
      BY ONLY JoinThree
    <3>3. <<SseHeaders, MessageStart, v>> \o <<MessageStop("end_turn")>> = <<SseHeaders, MessageStart, v, MessageStop("end_turn")>>
      BY ONLY JoinFour
    <3> QED
      BY ONLY <3>1, <3>2, <3>3
  <2>0. v[1] \in {"answer", "warned"}
    OBVIOUS
  <2>2. r[1][1] = "sse" /\ r[2][1] = "start" /\ r[3][1] \in {"answer", "warned"} /\ r[4][1] = "end_turn" /\ r[3] = v
    BY ONLY <2>0, <2>1 DEF SseHeaders, MessageStart, MessageStop
  <2>3. Len(r) = 4 /\ r = <<r[1], r[2], r[3], r[4]>> /\ r # <<>> /\ 3 \in DOMAIN r
    BY ONLY <2>1
  <2>4. r \in Seq(Line)
    <3>0. v \in Line
      OBVIOUS
    <3>1. SseHeaders \in Line /\ MessageStart \in Line /\ MessageStop("end_turn") \in Line
      BY DEF Line, SseHeaders, MessageStart, MessageStop
    <3> QED
      BY ONLY <2>1, <3>0, <3>1
  <2>5. \A kinds : In(r, kinds) = {n \in {1, 2, 3, 4} : r[n][1] \in kinds}
    BY ONLY <2>3, KindsOfShort
  <2> QED
    BY ONLY <2>2, <2>3, <2>4, <2>5 DEF Stops
<1> QED
  BY <1>1, <1>2

LEMMA JsonSays ==
    ASSUME NEW r, NEW v \in Line, v[1] \in {"answer", "warned"}
    PROVE  /\ r = <<Json(502)>> =>
                 r \in Seq(Line) /\ r # <<>> /\ In(r, {"token"}) = {} /\ In(r, {"json", "sse"}) = {1} /\ In(r, {"sse"}) = {}
           /\ r = <<Json(200)>> \o <<v>> =>
                 /\ r \in Seq(Line) /\ r # <<>> /\ In(r, {"token"}) = {} /\ In(r, {"json", "sse"}) = {1} /\ In(r, {"sse"}) = {}
                 /\ In(r, {"answer", "warned"}) = {2} /\ r[2] = v /\ 2 \in DOMAIN r
<1>1. ASSUME r = <<Json(502)>>
      PROVE  r \in Seq(Line) /\ r # <<>> /\ In(r, {"token"}) = {} /\ In(r, {"json", "sse"}) = {1} /\ In(r, {"sse"}) = {}
  <2>1. r[1][1] = "json" /\ r = <<r[1]>> /\ r # <<>>
    BY <1>1 DEF Json
  <2>2. r \in Seq(Line)
    BY <1>1 DEF Line, Json
  <2>3. \A kinds : In(r, kinds) = {n \in {1} : r[n][1] \in kinds}
    BY ONLY <2>1, KindsOfShort
  <2> QED
    BY ONLY <2>1, <2>2, <2>3
<1>2. ASSUME r = <<Json(200)>> \o <<v>>
      PROVE  /\ r \in Seq(Line) /\ r # <<>> /\ In(r, {"token"}) = {} /\ In(r, {"json", "sse"}) = {1} /\ In(r, {"sse"}) = {}
             /\ In(r, {"answer", "warned"}) = {2} /\ r[2] = v /\ 2 \in DOMAIN r
  <2>1. r = <<Json(200), v>>
    BY <1>2, JoinTwo
  <2>0. v[1] \in {"answer", "warned"}
    OBVIOUS
  <2>2. r[1][1] = "json" /\ r[2][1] \in {"answer", "warned"} /\ r[2] = v
    BY ONLY <2>0, <2>1 DEF Json
  <2>3. r = <<r[1], r[2]>> /\ r # <<>> /\ 2 \in DOMAIN r
    BY ONLY <2>1
  <2>4. r \in Seq(Line)
    <3>0. v \in Line
      OBVIOUS
    <3>1. Json(200) \in Line
      BY DEF Line, Json
    <3> QED
      BY ONLY <2>1, <3>0, <3>1
  <2>5. \A kinds : In(r, kinds) = {n \in {1, 2} : r[n][1] \in kinds}
    BY ONLY <2>3, KindsOfShort
  <2> QED
    BY ONLY <2>2, <2>3, <2>4, <2>5
<1> QED
  BY <1>1, <1>2

LEMMA DeliverKeeps ==
    ASSUME ProxyInv, serving.at = "complete", NEW a \in Completions,
           serving.repaired => a.score = Accepted \/ Len(heard.answers) + 1 > MaxRepairs,
           NEW given, given = Append(heard.answers, a), heard' = [heard EXCEPT !.answers = given], Deliver(given)
    PROVE  ProxyInv'
<1> DEFINE last == Len(given)
           n == IF serving.repaired THEN BestOf(given) ELSE last
           warned == serving.repaired /\ given[n].score # Accepted
           text == IF given[n].text \/ warned THEN <<Answer(n, warned)>> ELSE <<>>
<1>1. /\ given \in Seq(Completions) /\ last = Len(heard.answers) + 1 /\ last \in Nat \ {0} /\ given[last] = a
      /\ \A i \in 1..(last - 1) : given[i].score < Accepted
      /\ \A i \in 1..last : given[i] \in Completion
      /\ DOMAIN given = 1..last
  BY AnswersGiven, LenProperties
<1>2. BestAmong(given, last, BestOf(given))
  BY <1>1, BestIs
<1>3. n \in 1..last /\ n \in Nat /\ warned \in BOOLEAN
  BY <1>1, <1>2 DEF BestAmong
<1>4. /\ serving'.at = "done" /\ serving'.repaired = serving.repaired /\ serving'.streaming = serving.streaming
      /\ IF serving.streaming THEN reply' = reply \o Message(text)
         ELSE reply' = reply \o (IF text # <<>> THEN <<Json(200)>> \o text ELSE <<Json(502)>>)
      /\ serving' = [at |-> "done", streaming |-> serving.streaming, repaired |-> serving.repaired]
      /\ serving.streaming \in BOOLEAN /\ serving.repaired \in BOOLEAN
  BY DEF Deliver, Turn, Reply, Message, ProxyInv, ProxyTypes
<1> HIDE DEF n, warned, text, last
<1>5. PICK r : r = reply'
  OBVIOUS
<1>0. PICK v : v = Answer(n, warned)
  OBVIOUS
<1>6. /\ text = <<>> \/ text = <<v>>
      /\ v \in Line /\ v[1] \in {"answer", "warned"}
  BY <1>0, <1>3 DEF text, Line, Answer
<1>7. /\ r \in Seq(Line) /\ r # <<>> /\ In(r, {"token"}) = {} /\ In(r, {"json", "sse"}) = {1}
      /\ In(r, {"sse"}) # {} => In(r, {"start"}) = {2} /\ In(r, Stops) = {Len(r)} /\ r[Len(r)][1] = "end_turn"
      /\ text = <<v>> => \E i \in DOMAIN r : In(r, {"answer", "warned"}) = {i} /\ r[i] = v
  <2>1. reply = <<>>
    BY DEF ProxyInv
  <2>2. CASE serving.streaming
    <3>1. r = Message(text)
      <4>1. Message(text) \in Seq(Line)
        BY <1>3, <1>6, EventsSay
      <4> QED
        BY <1>4, <1>5, <2>1, <2>2, <4>1, ConcatEmptySeq
    <3>2. CASE text = <<>>
      BY ONLY <1>6, <3>1, <3>2, EventsSay
    <3>3. CASE text = <<v>>
      BY ONLY <1>6, <3>1, <3>3, EventsSay
    <3> QED
      BY <1>6, <3>2, <3>3
  <2>3. CASE ~serving.streaming /\ text = <<>>
    <3>1. r = <<Json(502)>>
      <4>1. <<Json(502)>> \in Seq(Line)
        BY ONLY <1>6, JsonSays
      <4> QED
        BY <1>4, <1>5, <2>1, <2>3, <4>1, ConcatEmptySeq
    <3> QED
      BY ONLY <1>6, <2>3, <3>1, JsonSays
  <2>4. CASE ~serving.streaming /\ text = <<v>>
    <3>1. r = <<Json(200)>> \o <<v>>
      <4>1. (<<Json(200)>> \o <<v>>) \in Seq(Line)
        BY ONLY <1>6, JsonSays
      <4> QED
        BY <1>4, <1>5, <2>1, <2>4, <4>1, ConcatEmptySeq
    <3> QED
      BY ONLY <1>6, <2>4, <3>1, JsonSays
  <2> QED
    BY <1>6, <2>2, <2>3, <2>4
<1>8. /\ heard'.tokens = 0 /\ heard'.trouble = "none" /\ heard'.answers = given /\ heard'.finish = heard.finish
      /\ heard' = [tokens |-> 0, finish |-> heard.finish, answers |-> given, trouble |-> "none"]
      /\ heard.finish \in {"end_turn", "length"}
  BY DEF ProxyInv, ProxyTypes
<1>9. ProxyTypes'
  BY ONLY <1>1, <1>4, <1>5, <1>7, <1>8 DEF ProxyTypes
<1>10. StreamTold'
  <2>1. heard'.tokens + 2 = 2 /\ given # <<>>
    BY <1>1, <1>8 DEF last
  <2>2. 3..(heard'.tokens + 2) = {}
    BY ONLY <2>1
  <2>3. In(r, {"token"}) = {} /\ (In(r, {"sse"}) # {} => In(r, Stops) = {Len(r)} /\ r[Len(r)][1] # "error")
    BY <1>7
  <2> QED
    BY ONLY <1>5, <1>7, <1>8, <2>1, <2>2, <2>3 DEF StreamTold, Told, In, OneReply
<1>11. RepairTold'
  <2> SUFFICES ASSUME serving.repaired
               PROVE  /\ \A i \in 1..(last - 1) : given[i].score < Accepted
                      /\ IF given[last].score = Accepted
                         THEN Only({"answer", "warned"}, Answer(last, FALSE))'
                         ELSE /\ last = MaxRepairs + 1
                              /\ \E best \in 1..last :
                                    /\ Only({"answer", "warned"}, Answer(best, TRUE))'
                                    /\ \A i \in 1..last : given[i].score <= given[best].score
    BY <1>4, <1>8 DEF RepairTold, last
  <2>1. n = BestOf(given)
    BY DEF n
  <2>2. \A j \in 1..last : given[j].score \in 0..2
    BY <1>1 DEF Completion, Score
  <2>3. \A j \in 1..last : given[j].score < given[n].score \/ (given[j].score = given[n].score /\ j <= n)
    BY ONLY <1>2, <2>1 DEF BestAmong
  <2>4. CASE given[last].score = Accepted
    <3>1. n = last
      BY ONLY <1>1, <1>3, <2>2, <2>3, <2>4 DEF Accepted
    <3>2. ~warned /\ given[n].text
      BY <1>1, <2>4, <3>1 DEF warned, Completions
    <3>3. text = <<v>> /\ v = Answer(last, FALSE)
      BY <1>0, <3>1, <3>2 DEF text, Answer
    <3>4. Only({"answer", "warned"}, Answer(last, FALSE))'
      BY ONLY <1>5, <1>7, <3>3 DEF Only, Told, In
    <3> QED
      BY <1>1, <2>4, <3>4
  <2>5. CASE given[last].score # Accepted
    <3>0. PICK m : m = n
      OBVIOUS
    <3>1. Len(heard.answers) + 1 > MaxRepairs /\ Len(heard.answers) <= MaxRepairs
      BY <1>1, <2>5 DEF ProxyInv
    <3>2. last = MaxRepairs + 1
      <4>1. MaxRepairs \in Nat /\ Len(heard.answers) \in Nat
        BY ProxyBounds, LenProperties DEF ProxyInv, ProxyTypes
      <4> QED
        BY ONLY <1>1, <3>1, <4>1
    <3>3. given[n].score # Accepted
      BY ONLY <1>1, <1>3, <2>2, <2>5 DEF Accepted
    <3>4. text = <<v>> /\ v = Answer(m, TRUE)
      BY <1>0, <3>0, <3>3 DEF warned, text, Answer
    <3>5. Only({"answer", "warned"}, Answer(m, TRUE))'
      <4>1. \E i \in DOMAIN r : In(r, {"answer", "warned"}) = {i} /\ r[i] = v
        BY <1>7, <3>4
      <4>2. Only({"answer", "warned"}, v)'
        BY ONLY <1>5, <4>1 DEF Only, Told, In
      <4> QED
        BY <3>4, <4>2
    <3>6. \A i \in 1..last : given[i].score <= given[n].score
      BY ONLY <1>3, <2>2, <2>3
    <3> QED
      <4>1. \A i \in 1..(last - 1) : given[i].score < Accepted
        BY <1>1
      <4>2. \E best \in 1..last : /\ Only({"answer", "warned"}, Answer(best, TRUE))'
                                  /\ \A i \in 1..last : given[i].score <= given[best].score
        BY ONLY <1>3, <3>0, <3>5, <3>6
      <4> QED
        BY ONLY <2>5, <3>2, <4>1, <4>2
  <2> QED
    BY <2>4, <2>5
<1> QED
  BY <1>4, <1>9, <1>10, <1>11 DEF ProxyInv

LEMMA JsonIsEvent ==
    ASSUME NEW kind
    PROVE  Json(StatusOf(kind)) \in Line /\ Json(StatusOf(kind))[1] = "json"
<1>1. StatusOf(kind) \in {504, 502, 500}
  BY DEF StatusOf
<1> QED
  BY <1>1 DEF Json, Line

LEMMA CompletionKeeps == ProxyInv /\ RequestCompletion => ProxyInv'
<1> SUFFICES ASSUME ProxyInv, RequestCompletion PROVE ProxyInv'
  OBVIOUS
<1>1. serving.at = "complete"
  BY DEF RequestCompletion
<1>2. ASSUME NEW kind \in Failures \cup {"no completion"}, Bubble(kind)
      PROVE  ProxyInv'
  <2>1. PICK e : e = Json(StatusOf(kind))
    OBVIOUS
  <2>2. e \in Line /\ e[1] = "json"
    BY <2>1, JsonIsEvent
  <2>3. Turn("done") /\ reply' = reply \o <<e>> /\ Suffer(kind) /\ kind # "none"
    BY <1>2, <2>1 DEF Bubble, Reply, Failures
  <2> QED
    BY <1>1, <2>2, <2>3, EndsAlone
<1>4. ASSUME NEW a \in Completions, NEW given, given = Append(heard.answers, a),
             heard' = [heard EXCEPT !.answers = given, !.trouble = "client left"],
             Turn("done"), UNCHANGED reply
      PROVE  ProxyInv'
  <2>1. given \in Seq(Completions)
    BY <1>1, <1>4, AnswersGiven
  <2>2. reply = <<>> /\ heard.tokens = 0 /\ ProxyTypes
    BY <1>1 DEF ProxyInv
  <2>3. /\ heard'.tokens = 0 /\ heard'.trouble = "client left" /\ serving'.at = "done" /\ reply' = <<>>
        /\ ProxyTypes'
    BY <1>4, <2>1, <2>2 DEF ProxyTypes, Turn
  <2>4. DOMAIN reply' = {} /\ 3..(heard'.tokens + 2) = {}
    <3>1. heard'.tokens = 0 /\ reply' = <<>>
      BY <2>3
    <3>2. heard'.tokens + 2 = 2 /\ DOMAIN reply' = {}
      BY ONLY <3>1
    <3>3. 3..(heard'.tokens + 2) = {}
      BY ONLY <3>2
    <3> QED
      BY ONLY <3>2, <3>3
  <2>5. \A kinds : Told(kinds)' = {}
    BY <2>4 DEF Told
  <2>6. StreamTold'
    BY <2>3, <2>4, <2>5 DEF StreamTold, OneReply
  <2> QED
    BY <2>3, <2>6 DEF ProxyInv, RepairTold
<1>3. ASSUME NEW a \in Completions, NEW given, given = Append(heard.answers, a),
             heard' = [heard EXCEPT !.answers = given],
             IF serving.repaired /\ a.score # Accepted /\ Len(given) <= MaxRepairs
             THEN UNCHANGED <<serving, reply>> ELSE Deliver(given)
      PROVE  ProxyInv'
  <2>1. /\ given \in Seq(Completions) /\ Len(given) = Len(heard.answers) + 1 /\ Len(given) \in Nat \ {0}
        /\ given[Len(given)] = a /\ \A i \in 1..(Len(given) - 1) : given[i].score < Accepted
    BY <1>1, <1>3, AnswersGiven
  <2>2. CASE serving.repaired /\ a.score # Accepted /\ Len(given) <= MaxRepairs
    <3>1. UNCHANGED <<serving, reply>>
      BY <1>3, <2>2
    <3>2. a.score < Accepted
      BY <2>2 DEF Accepted, Completions, Completion, Score
    <3>3. \A i \in 1..Len(given) : given[i].score < Accepted
      <4>1. \A i \in 1..Len(given) : i = Len(given) \/ i \in 1..(Len(given) - 1)
        BY <2>1
      <4> QED
        BY ONLY <2>1, <3>2, <4>1
    <3>4. ProxyTypes' /\ heard'.tokens = heard.tokens /\ heard'.trouble = heard.trouble /\ heard'.answers = given
      BY <1>3, <2>1, <3>1 DEF ProxyInv, ProxyTypes
    <3> QED
      BY <1>1, <2>2, <3>1, <3>3, <3>4 DEF ProxyInv
  <2>3. CASE ~(serving.repaired /\ a.score # Accepted /\ Len(given) <= MaxRepairs)
    <3>1. serving.repaired => a.score = Accepted \/ Len(heard.answers) + 1 > MaxRepairs
      <4>1. MaxRepairs \in Nat
        BY ProxyBounds
      <4> QED
        BY <2>1, <2>3, <4>1
    <3>2. Deliver(given)
      BY <1>3, <2>3
    <3> QED
      BY <1>1, <1>3, <3>1, <3>2, DeliverKeeps
  <2> QED
    BY <2>2, <2>3
<1>5. ASSUME NEW a \in Completions, NEW left \in BOOLEAN, NEW given, given = Append(heard.answers, a),
             NEW again \in BOOLEAN, again <=> serving.repaired /\ a.score # Accepted /\ Len(given) <= MaxRepairs,
             heard' = [heard EXCEPT !.answers = given, !.trouble = IF left THEN "client left" ELSE @],
             \/ again /\ ~left /\ UNCHANGED <<serving, reply>>
             \/ ~again /\ ~left /\ Deliver(given)
             \/ ~again /\ left /\ Turn("done") /\ UNCHANGED reply
      PROVE  ProxyInv'
  <2>1. CASE left
    <3>1. heard' = [heard EXCEPT !.answers = given, !.trouble = "client left"]
      BY <1>5, <2>1
    <3> QED
      BY <1>4, <1>5, <2>1, <3>1
  <2>2. CASE ~left
    <3>1. heard' = [heard EXCEPT !.answers = given]
      BY <1>5, <2>2 DEF ProxyInv, ProxyTypes
    <3> QED
      BY <1>3, <1>5, <2>2, <3>1
  <2> QED
    BY <2>1, <2>2
<1> QED
  BY <1>2, <1>5 DEF RequestCompletion

LEMMA RefuseKeeps == ProxyInv /\ RefuseRequest => ProxyInv'
<1> SUFFICES ASSUME ProxyInv, RefuseRequest PROVE ProxyInv'
  OBVIOUS
<1>1. /\ reply = <<>> /\ heard.tokens = 0 /\ heard.trouble = "none" /\ ProxyTypes /\ heard' = heard
      /\ serving' = [at |-> "done", streaming |-> FALSE, repaired |-> FALSE]
  BY DEF RefuseRequest, ProxyInv
<1>2. PICK code \in {400, 404} : reply' = reply \o <<Json(code)>>
  BY DEF RefuseRequest, Reply
<1>3. PICK e : e = Json(code)
  OBVIOUS
<1>4. PICK r : r = reply'
  OBVIOUS
<1>5. e \in Line /\ e[1] = "json" /\ r = <<>> \o <<e>>
  BY <1>1, <1>2, <1>3, <1>4 DEF Json, Line
<1>6. r \in Seq(Line) /\ r # <<>> /\ In(r, {"json", "sse"}) = {1} /\ In(r, {"sse"}) = {} /\ In(r, {"token"}) = {}
  BY <1>5, OneEvent
<1>7. ProxyTypes' /\ serving'.at = "done" /\ ~serving'.repaired
  BY <1>1, <1>4, <1>6 DEF ProxyTypes
<1>8. 3..(heard'.tokens + 2) = {}
  <2>1. heard'.tokens + 2 = 2
    BY <1>1
  <2> QED
    BY ONLY <2>1
<1>9. StreamTold'
  BY <1>4, <1>6, <1>8 DEF StreamTold, OneReply, Told, In
<1> QED
  BY <1>7, <1>9 DEF ProxyInv, RepairTold

LEMMA OpenKeeps == ProxyInv /\ (HandleMessages \/ OpenOllamaStream) => ProxyInv'
<1> SUFFICES ASSUME ProxyInv, HandleMessages \/ OpenOllamaStream PROVE ProxyInv'
  OBVIOUS
<1>1. CASE HandleMessages
  <2>1. PICK streaming \in BOOLEAN, repaired \in BOOLEAN :
            serving' = [at |-> IF streaming /\ ~repaired THEN "open" ELSE "complete", streaming |-> streaming, repaired |-> repaired]
    BY <1>1 DEF HandleMessages
  <2>2. serving.at = "idle" /\ UNCHANGED <<heard, reply>>
    BY <1>1 DEF HandleMessages
  <2>3. serving'.at \in {"open", "complete"} /\ (serving'.at = "open" => serving'.streaming /\ ~serving'.repaired)
    BY <2>1
  <2>4. ProxyTypes'
    BY <2>1, <2>2 DEF ProxyInv, ProxyTypes
  <2>5. Len(heard.answers) = 0 /\ MaxRepairs \in Nat
    BY <2>2, ProxyBounds, EmptySeq DEF ProxyInv
  <2> QED
    BY <2>2, <2>3, <2>4, <2>5 DEF ProxyInv
<1>2. ASSUME serving.at = "open", Turn("first") \/ Turn("complete"), UNCHANGED <<heard, reply>>
      PROVE  ProxyInv'
  <2>1. Len(heard.answers) = 0 /\ MaxRepairs \in Nat /\ heard.answers = <<>>
    BY <1>2, ProxyBounds, EmptySeq DEF ProxyInv
  <2>2. /\ serving'.at \in {"first", "complete"} /\ serving'.streaming = serving.streaming /\ serving'.repaired = serving.repaired
        /\ ProxyTypes'
    BY <1>2 DEF ProxyInv, ProxyTypes, Turn
  <2> QED
    BY <1>2, <2>1, <2>2 DEF ProxyInv
<1>3. ASSUME serving.at = "open", NEW kind \in Failures, Bubble(kind)
      PROVE  ProxyInv'
  <2>1. PICK e : e = Json(StatusOf(kind))
    OBVIOUS
  <2>2. e \in Line /\ e[1] = "json"
    BY <2>1, JsonIsEvent
  <2>3. Turn("done") /\ reply' = reply \o <<e>> /\ Suffer(kind) /\ kind # "none"
    BY <1>3, <2>1 DEF Bubble, Reply, Failures
  <2> QED
    BY <1>3, <2>2, <2>3, EndsAlone
<1> QED
  BY <1>1, <1>2, <1>3 DEF OpenOllamaStream

\* Where a stream is: what goes out with its next event makes it one as long as its tokens.
LEMMA StreamAt ==
    ASSUME ProxyInv, Streaming
    PROVE  /\ heard.tokens \in Nat /\ heard.answers = <<>> /\ heard.trouble = "none" /\ ~serving.repaired
           /\ serving.at = "first" => heard.tokens = 0 /\ reply = <<>>
           /\ serving.at = "rest" => heard.tokens > 0
           /\ \A e : reply \o (Held \o <<e>>) = Streamed(heard.tokens) \o <<e>>
<1>1. /\ heard.tokens \in Nat /\ heard.answers = <<>> /\ heard.trouble = "none" /\ ~serving.repaired
      /\ serving.at = "first" => heard.tokens = 0 /\ reply = <<>>
      /\ serving.at = "rest" => heard.tokens > 0 /\ reply = Streamed(heard.tokens)
  BY DEF ProxyInv, ProxyTypes, Streaming
<1>2. ASSUME NEW e PROVE reply \o (Held \o <<e>>) = Streamed(heard.tokens) \o <<e>>
  <2>1. CASE serving.at = "first"
    <3>1. Held = Streamed(0) /\ heard.tokens = 0 /\ reply = <<>>
      BY <1>1, <2>1, StreamGoesOn, 0 \in Nat DEF Held
    <3>2. (Streamed(0) \o <<e>>) \in Seq(Line \cup {e})
      <4>1. Streamed(0) \in Seq(Line \cup {e})
        BY StreamedSeq, 0 \in Nat, SeqMonotonic, Line \subseteq Line \cup {e}
      <4>2. <<e>> \in Seq(Line \cup {e})
        OBVIOUS
      <4> QED
        BY <4>1, <4>2, ConcatProperties
    <3> QED
      BY ONLY <3>1, <3>2, ConcatEmptySeq
  <2>2. CASE serving.at = "rest"
    <3>1. Held = <<>>
      BY <2>2 DEF Held
    <3>2. <<>> \o <<e>> = <<e>>
      <4>1. <<e>> \in Seq({e})
        OBVIOUS
      <4> QED
        BY <4>1, ConcatEmptySeq
    <3> QED
      BY <1>1, <2>2, <3>1, <3>2
  <2> QED
    BY <2>1, <2>2 DEF Streaming
<1> QED
  BY <1>1, <1>2

LEMMA TokenKeeps == ProxyInv /\ LineToken => ProxyInv'
<1> SUFFICES ASSUME ProxyInv, LineToken PROVE ProxyInv'
  OBVIOUS
<1>1. PICK n \in Nat : n = heard.tokens
  BY StreamAt DEF LineToken
<1>2. /\ serving'.at = "rest" /\ serving' = [serving EXCEPT !.at = "rest"]
      /\ heard' = [heard EXCEPT !.tokens = n + 1]
      /\ reply' = reply \o (Held \o <<Token(n + 1)>>)
      /\ Streaming
  BY <1>1 DEF LineToken, Turn, Reply, ProxyInv, ProxyTypes
<1>3. reply' = Streamed(n + 1)
  <2>1. reply' = Streamed(n) \o <<Token(n + 1)>>
    BY <1>1, <1>2, StreamAt
  <2> QED
    BY ONLY <1>1, <2>1, StreamGoesOn
<1>4. n + 1 \in Nat /\ reply' \in Seq(Line)
  <2>1. n + 1 \in Nat
    BY ONLY n \in Nat
  <2> QED
    BY ONLY <1>3, <2>1, StreamedSeq
<1>5. heard'.tokens = n + 1 /\ heard'.answers = <<>> /\ heard'.trouble = "none" /\ n + 1 > 0 /\ serving'.streaming /\ ~serving'.repaired
  BY <1>2, StreamAt DEF ProxyInv, ProxyTypes, Streaming
<1>6. ProxyTypes'
  <2>1. ProxyTypes
    BY DEF ProxyInv
  <2>2. heard' = [tokens |-> n + 1, finish |-> heard.finish, answers |-> heard.answers, trouble |-> heard.trouble]
    BY ONLY <1>2, <2>1 DEF ProxyTypes
  <2> QED
    BY ONLY <1>2, <1>4, <2>1, <2>2 DEF ProxyTypes
<1> QED
  BY <1>2, <1>3, <1>5, <1>6 DEF ProxyInv

LEMMA SilentKeeps == ProxyInv /\ (LineWithoutText \/ ClientLeaves \/ NextRequest \/ UNCHANGED proxyVars) => ProxyInv'
<1>1. ASSUME ProxyInv, LineWithoutText PROVE ProxyInv'
  <2>1. PICK reason \in {"end_turn", "length"} : heard' = [heard EXCEPT !.finish = reason]
    BY <1>1 DEF LineWithoutText
  <2>2. UNCHANGED <<serving, reply>> /\ serving.at \in {"first", "rest"}
    BY <1>1 DEF LineWithoutText, Streaming
  <2>3. ProxyTypes' /\ heard'.tokens = heard.tokens /\ heard'.answers = heard.answers /\ heard'.trouble = heard.trouble
    BY <1>1, <2>1, <2>2 DEF ProxyInv, ProxyTypes
  <2> QED
    BY <1>1, <2>2, <2>3 DEF ProxyInv
<1>2. ASSUME ProxyInv, ClientLeaves PROVE ProxyInv'
  <2>1. /\ heard' = [heard EXCEPT !.trouble = "client left"] /\ serving' = [serving EXCEPT !.at = "done"] /\ UNCHANGED reply
        /\ serving.at \notin {"idle", "done"}
    BY <1>2 DEF ClientLeaves, Suffer, Turn
  <2>2. ProxyTypes' /\ heard'.tokens = heard.tokens /\ heard'.trouble = "client left" /\ serving'.at = "done"
    BY <1>2, <2>1 DEF ProxyInv, ProxyTypes
  <2>3. RepairTold'
    BY <2>2 DEF RepairTold
  <2>4. StreamTold'
    <3>1. PICK r : r = reply
      OBVIOUS
    <3>2. PICK n : n = heard.tokens
      OBVIOUS
    <3>3. /\ In(r, {"token"}) = 3..(n + 2) /\ \A i \in In(r, {"token"}) : r[i] = Token(i - 2)
          /\ In(r, {"json", "sse"}) = IF r = <<>> THEN {} ELSE {1}
          /\ In(r, {"sse"}) # {} => In(r, {"start"}) = {2}
      <4>1. CASE serving.at = "rest"
        <5>1. r = Streamed(n) /\ n \in Nat
          BY <1>2, <3>1, <3>2, <4>1 DEF ProxyInv, ProxyTypes
        <5> QED
          BY ONLY <5>1, StreamSays
      <4>2. CASE serving.at # "rest"
        <5>1. r = <<>> /\ n = 0
          BY <1>2, <2>1, <3>1, <3>2, <4>2 DEF ProxyInv, ProxyTypes
        <5>2. \A kinds : In(r, kinds) = {}
          BY ONLY <5>1 DEF In
        <5>3. 3..(n + 2) = {}
          BY ONLY <5>1
        <5> QED
          BY ONLY <5>1, <5>2, <5>3
      <4> QED
        BY <4>1, <4>2
    <3>4. reply' = r /\ heard'.tokens = n /\ heard'.trouble = "client left"
      BY <2>1, <2>2, <3>1, <3>2
    <3> QED
      BY ONLY <3>3, <3>4 DEF StreamTold, Told, In, OneReply
  <2> QED
    BY <2>2, <2>3, <2>4 DEF ProxyInv
<1>3. ASSUME ProxyInv, NextRequest PROVE ProxyInv'
  <2>1. heard' = Silence /\ reply' = <<>> /\ serving' = [at |-> "idle", streaming |-> FALSE, repaired |-> FALSE]
    BY <1>3 DEF NextRequest
  <2> QED
    BY <2>1, EmptySeq DEF ProxyInv, ProxyTypes, Silence
<1>4. ASSUME ProxyInv, UNCHANGED proxyVars PROVE ProxyInv'
  <2>1. serving' = serving /\ heard' = heard /\ reply' = reply
    BY <1>4 DEF proxyVars
  <2>2. StreamTold' = StreamTold /\ RepairTold' = RepairTold /\ ProxyTypes' = ProxyTypes
    BY <2>1 DEF StreamTold, RepairTold, ProxyTypes, Told, Only, OneReply, WellServed
  <2> QED
    BY <1>4, <2>1, <2>2 DEF ProxyInv
<1> QED
  BY <1>1, <1>2, <1>3, <1>4

LEMMA EndKeeps == ProxyInv /\ (StreamEnds \/ StreamStalls \/ StreamBreaks \/ LineOfAnotherForm) => ProxyInv'
<1>1. ASSUME ProxyInv, StreamEnds PROVE ProxyInv'
  <2>1. PICK n \in Nat : n = heard.tokens
    BY <1>1, StreamAt DEF StreamEnds
  <2>2. PICK e : e = IF n = 0 THEN MidStreamErrorTrailer ELSE MessageStop(heard.finish)
    OBVIOUS
  <2>3. /\ e \in Line /\ e[1] \notin {"token", "start", "sse", "json"} /\ e[1] \in Stops
        /\ e[1] = "error" <=> n = 0
    BY <1>1, <2>2 DEF MidStreamErrorTrailer, MessageStop, Stops, Line, ProxyInv, ProxyTypes
  <2>4. /\ reply' = Streamed(n) \o <<e>> /\ serving.at \in {"first", "rest"} /\ Turn("done") /\ heard' = heard
        /\ heard.answers = <<>> /\ heard.trouble = "none"
    BY <1>1, <2>1, <2>2, StreamAt DEF StreamEnds, Streaming, Reply
  <2>5. heard' = [heard EXCEPT !.trouble = heard'.trouble]
    BY <1>1, <2>4 DEF ProxyInv, ProxyTypes
  <2> QED
    BY <1>1, <2>1, <2>3, <2>4, <2>5, EndsStream
<1>2. ASSUME ProxyInv, Streaming, NEW kind, kind # "none", kind # "misfit chunk", Suffer(kind), Turn("done"),
             serving.at = "rest", Reply(<<MidStreamErrorTrailer>>)
      PROVE  ProxyInv'
  <2>1. PICK n \in Nat : n = heard.tokens
    BY <1>2, StreamAt
  <2>2. PICK e : e = MidStreamErrorTrailer
    OBVIOUS
  <2>3. e \in Line /\ e[1] = "error" /\ e[1] \in Stops
    BY <2>2 DEF MidStreamErrorTrailer, MessageStop, Stops, Line
  <2>4. /\ reply' = Streamed(n) \o <<e>> /\ heard' = [heard EXCEPT !.trouble = kind]
        /\ heard.answers = <<>>
    BY <1>2, <2>1, <2>2 DEF Reply, Suffer, ProxyInv
  <2>5. heard' = [heard EXCEPT !.trouble = heard'.trouble] /\ heard'.trouble = kind /\ heard'.tokens = n /\ heard'.answers = <<>>
    BY <1>2, <2>1, <2>4 DEF ProxyInv, ProxyTypes
  <2> QED
    BY <1>2, <2>3, <2>4, <2>5, EndsStream
<1>3. ASSUME ProxyInv, StreamStalls PROVE ProxyInv'
  <2>1. CASE serving.at = "rest"
    BY <1>2, <1>3, <2>1 DEF StreamStalls
  <2>2. CASE serving.at = "first"
    <3>1. PICK e : e = Json(502)
      OBVIOUS
    <3>2. e \in Line /\ e[1] = "json" /\ reply' = reply \o <<e>> /\ Turn("done") /\ Suffer("stalled")
      BY <1>3, <2>2, <3>1 DEF StreamStalls, Reply, Json, Line
    <3> QED
      BY <1>3, <2>2, <3>2, EndsAlone
  <2> QED
    BY <1>3, <2>1, <2>2 DEF StreamStalls, Streaming
<1>4. ASSUME ProxyInv, StreamBreaks PROVE ProxyInv'
  <2>1. CASE serving.at = "rest"
    BY <1>2, <1>4, <2>1 DEF StreamBreaks
  <2>2. CASE serving.at = "first"
    <3>1. PICK e : e = MidStreamErrorTrailer
      OBVIOUS
    <3>2. e \in Line /\ e[1] = "error" /\ reply' = reply \o <<e>> /\ Turn("done") /\ Suffer("broken stream")
      BY <1>4, <2>2, <3>1 DEF StreamBreaks, Reply, MidStreamErrorTrailer, MessageStop, Line
    <3> QED
      BY <1>4, <2>2, <3>2, EndsAlone
  <2> QED
    BY <1>4, <2>1, <2>2 DEF StreamBreaks, Streaming
<1>5. ASSUME ProxyInv, LineOfAnotherForm PROVE ProxyInv'
  <2>1. PICK e : e = Json(StatusOf("misfit chunk"))
    OBVIOUS
  <2>2. /\ e \in Line /\ e[1] = "json" /\ reply' = reply \o <<e>> /\ Turn("done") /\ Suffer("misfit chunk")
        /\ Streaming
    BY <1>5, <2>1, JsonIsEvent DEF LineOfAnotherForm, Bubble, Reply
  <2>3. CASE serving.at = "first"
    BY <1>5, <2>2, <2>3, EndsAlone
  <2>4. CASE serving.at = "rest"
    <3>1. PICK n \in Nat : n = heard.tokens
      BY <1>5, <2>2, StreamAt
    <3>2. /\ reply' = Streamed(n) \o <<e>> /\ heard' = [heard EXCEPT !.trouble = "misfit chunk"] /\ heard.answers = <<>>
      BY <1>5, <2>2, <2>4, <3>1 DEF Suffer, ProxyInv
    <3>3. /\ heard' = [heard EXCEPT !.trouble = heard'.trouble] /\ heard'.trouble = "misfit chunk" /\ heard'.tokens = n
          /\ heard'.answers = <<>>
      BY <1>5, <3>1, <3>2 DEF ProxyInv, ProxyTypes
    <3> QED
      BY <1>5, <2>2, <2>4, <3>2, <3>3, EndsStream
  <2> QED
    BY <2>2, <2>3, <2>4 DEF Streaming
<1> QED
  BY <1>1, <1>3, <1>4, <1>5

\* What the proxy has told, and where its request is, belong together.
THEOREM ProxyInvariant == ProxySpec => []ProxyInv
<1>1. ProxyInv /\ [ProxyNext]_proxyVars => ProxyInv'
  BY RefuseKeeps, OpenKeeps, CompletionKeeps, TokenKeeps, SilentKeeps, EndKeeps DEF ProxyNext
<1> QED
  BY <1>1, ProxyBegins, PTL DEF ProxySpec

\* LocalProxy.ProxyAnswers, for streams of any length and any number of repairs: the
\* tokens in order and once, one reply with one status, and the best answer.
THEOREM ProxyTellsAll == ProxySpec => []ProxyAnswers
<1>1. ProxyInv => ProxyAnswers
  <2> SUFFICES ASSUME ProxyInv PROVE ProxyAnswers
    OBVIOUS
  <2>1. CASE serving.at = "done"
    BY <2>1 DEF ProxyInv, ProxyAnswers
  <2>2. CASE serving.at # "done"
    <3>1. RepairTold
      BY <2>2 DEF RepairTold
    <3>2. PICK r : r = reply
      OBVIOUS
    <3>3. PICK n : n = heard.tokens
      OBVIOUS
    <3>4. CASE serving.at = "rest"
      <4>1. r = Streamed(n) /\ n \in Nat
        BY <3>2, <3>3, <3>4 DEF ProxyInv, ProxyTypes
      <4>2. /\ In(r, {"token"}) = 3..(n + 2) /\ \A i \in 3..(n + 2) : r[i] = Token(i - 2)
            /\ In(r, {"json", "sse"}) = {1} /\ r # <<>> /\ In(r, {"start"}) = {2}
        BY ONLY <4>1, StreamSays
      <4>3. StreamTold
        BY ONLY <2>2, <3>2, <3>3, <4>2 DEF StreamTold, Told, In, OneReply
      <4> QED
        BY <3>1, <4>3 DEF ProxyAnswers
    <3>5. CASE serving.at # "rest"
      <4>1. r = <<>> /\ n = 0
        BY <2>2, <3>2, <3>3, <3>5 DEF ProxyInv, ProxyTypes
      <4>2. \A kinds : In(r, kinds) = {}
        BY ONLY <4>1 DEF In
      <4>3. 3..(n + 2) = {}
        BY ONLY <4>1
      <4>4. StreamTold
        BY ONLY <2>2, <3>2, <3>3, <4>1, <4>2, <4>3 DEF StreamTold, Told, In, OneReply
      <4> QED
        BY <3>1, <4>4 DEF ProxyAnswers
    <3> QED
      BY <3>4, <3>5
  <2> QED
    BY <2>1, <2>2
<1> QED
  BY <1>1, ProxyInvariant, PTL
-----------------------------------------------------------------------------
(***************************************************************************)
(* Plan mode.  Everything the tools write while the mode is "plan" by      *)
(* their own hand can be undone from what they saved, after each of the    *)
(* writes of a call and wherever it breaks off.                            *)
(***************************************************************************)
Clear == Write(PlanFile, Missing)
Saving == Write(PlanFile, Keys(SavedMode))
ToPlan == Write(Local, Setting(file[Local].key, DefaultMode, "plan"))
Restore == Write(Local, IF planState.key["had"] THEN Setting(file[Local].key, DefaultMode, planState.key["previous"])
                        ELSE Unsetting(file[Local].key, DefaultMode))
\* What Config writes: the default mode that counts as chosen from then on, or a setting
\* that leaves it alone.
OfConfig(w) ==
    \/ w.target = Global /\ w.origin = origin
    \/ /\ w.target = Local
       /\ \/ ValueOf(w.content.key, DefaultMode) = w.origin
          \/ ValueOf(w.content.key, DefaultMode) = LocalMode /\ w.origin = origin

\* What is left of a call is what it would write if it were made now.
OpForm ==
    \/ op = <<>>
    \/ \E w : op = <<w>> /\ OfConfig(w)
    \/ LocalMode # "plan" /\ op \in {<<Clear>>, <<Clear, Saving, ToPlan>>, <<Saving, ToPlan>>}
    \/ LocalMode # "plan" /\ planState = Keys(SavedMode) /\ op = <<ToPlan>>
    \/ LocalMode = "plan" /\ StateExists /\ op = <<Restore, Clear>>
\* The saved mode is never plan mode itself.
Saved == StateExists => planState.key["previous"] # "plan" /\ planState.key["had"] = (planState.key["previous"] # Unset)
Restorable ==
    ~cut /\ origin # "plan" =>
        \/ LocalMode = origin
        \/ LocalMode = "plan" /\ StateExists /\ planState.key["previous"] = origin
FilesTyped == \E G : file \in [Entry -> G]
PlanInv == FilesTyped /\ OpForm /\ Saved /\ Restorable

LEMMA TailOfOne == ASSUME NEW a PROVE Head(<<a>>) = a /\ Tail(<<a>>) = <<>> /\ <<a>> # <<>>
  OBVIOUS
LEMMA TailOfTwo == ASSUME NEW a, NEW b PROVE Head(<<a, b>>) = a /\ Tail(<<a, b>>) = <<b>> /\ <<a, b>> # <<>>
  OBVIOUS
LEMMA TailOfThree ==
    ASSUME NEW a, NEW b, NEW c
    PROVE  Head(<<a, b, c>>) = a /\ Tail(<<a, b, c>>) = <<b, c>> /\ <<a, b, c>> # <<>>
  OBVIOUS
LEMMA BeforeTwo ==
    ASSUME NEW a, NEW b, NEW c
    PROVE  <<>> \o <<b, c>> = <<b, c>> /\ <<a>> \o <<b, c>> = <<a, b, c>>
<1> DEFINE S == {a, b, c}
<1>1. <<a>> \in Seq(S) /\ <<b, c>> \in Seq(S) /\ <<a, b, c>> \in Seq(S)
  OBVIOUS
<1>2. /\ (<<a>> \o <<b, c>>) \in Seq(S) /\ Len(<<a>> \o <<b, c>>) = 3
      /\ \A i \in 1..3 : (<<a>> \o <<b, c>>)[i] = IF i <= 1 THEN <<a>>[i] ELSE <<b, c>>[i - 1]
  BY <1>1, ConcatProperties
<1>3. \A i \in 1..3 : (<<a>> \o <<b, c>>)[i] = <<a, b, c>>[i]
  BY <1>2
<1>4. Len(<<a, b, c>>) = 3
  OBVIOUS
<1>5. <<a>> \o <<b, c>> = <<a, b, c>>
  BY ONLY <1>1, <1>2, <1>3, <1>4, SeqEqual
<1> QED
  BY <1>1, <1>5, ConcatEmptySeq

LEMMA ValueSet ==
    ASSUME NEW k, NEW name, NEW v
    PROVE  /\ ValueOf(Setting(k, name, v).key, name) = v
           /\ \A n : n # name => ValueOf(Setting(k, name, v).key, n) = ValueOf(k, n)
           /\ ValueOf(Unsetting(k, name).key, name) = Unset
  BY DEF ValueOf, Setting, Unsetting, Keys
LEMMA SavedIsState ==
    /\ Keys(SavedMode).status = "ok" /\ Keys(SavedMode).key # <<>>
    /\ Keys(SavedMode).key["had"] = (LocalMode # Unset) /\ Keys(SavedMode).key["previous"] = LocalMode
<1>1. DOMAIN SavedMode = {"had", "previous"} /\ DOMAIN <<>> = {}
  BY DEF SavedMode
<1> QED
  BY <1>1 DEF SavedMode, Keys
LEMMA NoStateIn == ASSUME NEW f, f \in {Missing, Torn, Empty} PROVE ~(f.status = "ok" /\ f.key # <<>>)
  BY DEF Missing, Torn, Empty, Keys
LEMMA PlanBegins == SettingsInit => PlanInv
<1> SUFFICES ASSUME SettingsInit PROVE PlanInv
  OBVIOUS
<1>1. FilesTyped
  BY DEF SettingsInit, FilesTyped
<1>2. OpForm /\ Saved
  BY DEF SettingsInit, OpForm, Saved, StateExists, Missing
<1>3. Restorable
  BY DEF SettingsInit, Restorable, LocalMode
<1> QED
  BY <1>1, <1>2, <1>3 DEF PlanInv

\* A call that reads and decides.
LEMMA DecideKeeps ==
    ASSUME PlanInv, op = <<>>, UNCHANGED <<file, planState, origin, cut>>, OpForm'
    PROVE  PlanInv'
  BY DEF PlanInv, FilesTyped, Saved, StateExists, Restorable, LocalMode

LEMMA ConfigKeeps == ASSUME PlanInv, NEW setting, NEW v, Config(setting, v) PROVE PlanInv'
<1> DEFINE target == IF setting \in GlobalSettings THEN Global ELSE Local
           n == NormalizeConfigValue(setting, v)
<1>0. PICK w : w = [Write(target, Setting(file[target].key, setting, n)) EXCEPT
                      !.origin = IF setting = DefaultMode THEN n ELSE origin]
  OBVIOUS
<1>1. op = <<>> /\ op' = <<w>> /\ UNCHANGED <<file, planState, origin, cut>>
  BY <1>0 DEF Config
<1>2. /\ w.target = target /\ w.content = Setting(file[target].key, setting, n)
      /\ w.origin = IF setting = DefaultMode THEN n ELSE origin
  BY <1>0 DEF Write
<1> HIDE DEF n
<1>3. CASE setting \in GlobalSettings
  <2>0. target = Global
    BY <1>3
  <2>1. setting # DefaultMode
    BY <1>3 DEF GlobalSettings, DefaultMode
  <2>2. w.target = Global /\ w.origin = origin
    BY <1>2, <2>0, <2>1
  <2>3. OpForm'
    BY <1>1, <2>2 DEF OpForm, OfConfig
  <2> QED
    BY <1>1, <2>3, DecideKeeps
<1>4. CASE setting \notin GlobalSettings
  <2>1. w.target = Local /\ w.content = Setting(file[Local].key, setting, n)
    BY <1>2, <1>4
  <2>2. CASE setting = DefaultMode
    <3>1. w.origin = n /\ ValueOf(w.content.key, DefaultMode) = n
      BY <1>2, <2>1, <2>2, ValueSet
    <3> QED
      BY <1>1, <2>1, <3>1, DecideKeeps DEF OpForm, OfConfig
  <2>3. CASE setting # DefaultMode
    <3>1. w.origin = origin /\ ValueOf(w.content.key, DefaultMode) = LocalMode
      BY <1>2, <2>1, <2>3, ValueSet DEF LocalMode
    <3>2. LocalMode' = LocalMode
      BY <1>1 DEF LocalMode
    <3> QED
      BY <1>1, <2>1, <3>1, <3>2, DecideKeeps DEF OpForm, OfConfig
  <2> QED
    BY <2>2, <2>3
<1> QED
  BY <1>3, <1>4

\* What is still to be written is said of the files alone.
LEMMA SameFiles ==
    ASSUME file' = file, origin' = origin
    PROVE  /\ LocalMode' = LocalMode /\ SavedMode' = SavedMode
           /\ Clear' = Clear /\ Saving' = Saving /\ ToPlan' = ToPlan
  BY DEF LocalMode, SavedMode, Clear, Saving, ToPlan, Write

LEMMA EnterKeeps == ASSUME PlanInv, EnterPlanMode PROVE PlanInv'
<1>1. op = <<>> /\ op' = EnterWrites /\ EnterWrites # <<>> /\ UNCHANGED <<file, planState, origin, cut>>
  BY DEF EnterPlanMode, PlanMode
<1>2. LocalMode # "plan"
  BY <1>1 DEF EnterWrites
<1>3. EnterWrites = (IF StateExists THEN <<Clear>> ELSE <<>>) \o <<Saving, ToPlan>>
  BY <1>2 DEF EnterWrites, Clear, Saving, ToPlan
<1>4. EnterWrites \in {<<Clear, Saving, ToPlan>>, <<Saving, ToPlan>>}
  BY <1>3, BeforeTwo
<1>5. OpForm'
  BY <1>1, <1>2, <1>4, SameFiles DEF OpForm
<1> QED
  BY <1>1, <1>5, DecideKeeps

LEMMA ExitKeeps == ASSUME PlanInv, ExitPlanMode PROVE PlanInv'
<1>1. op = <<>> /\ op' = ExitWrites /\ ExitWrites # <<>> /\ UNCHANGED <<file, planState, origin, cut>>
  BY DEF ExitPlanMode, PlanMode
<1>2. StateExists
  BY <1>1 DEF ExitWrites
<1>3. Restore' = Restore /\ StateExists' = StateExists
  BY <1>1 DEF Restore, Write, StateExists
<1>4. OpForm'
  BY <1>1, <1>2, <1>3, SameFiles DEF OpForm, ExitWrites, Clear, Restore
<1> QED
  BY <1>1, <1>4, DecideKeeps

\* A file put in the place of another.
LEMMA FilePut ==
    ASSUME FilesTyped, NEW i \in Entry, NEW f, file' = [file EXCEPT ![i] = f]
    PROVE  /\ FilesTyped'
           /\ i = Local => file'[Local] = f
           /\ i # Local => file'[Local] = file[Local]
<1>1. PICK G : file \in [Entry -> G]
  BY DEF FilesTyped
<1>2. file' \in [Entry -> G \cup {f}]
  BY <1>1
<1>3. FilesTyped'
  BY <1>2 DEF FilesTyped
<1> QED
  BY <1>1, <1>3 DEF Local, Entry

LEMMA EditKeeps == ASSUME PlanInv, NEW m, UserEdits(m) PROVE PlanInv'
<1> DEFINE f == IF m = Unset THEN Unsetting(file[Local].key, DefaultMode) ELSE Setting(file[Local].key, DefaultMode, m)
<1>1. op' = <<>> /\ planState' = planState /\ origin' = m /\ file' = [file EXCEPT ![Local] = f]
  <2>1. file[Local].key = (file[Local]).key
    OBVIOUS
  <2> QED
    BY <2>1 DEF UserEdits
<1>2. Local \in Entry /\ FilesTyped
  BY DEF Local, Entry, PlanInv
<1>3. FilesTyped' /\ file'[Local] = f
  BY <1>1, <1>2, FilePut
<1>4. ValueOf(f.key, DefaultMode) = m
  <2>1. CASE m = Unset
    BY <2>1, ValueSet
  <2>2. CASE m # Unset
    BY <2>2, ValueSet
  <2> QED
    BY <2>1, <2>2
<1>5. LocalMode' = m
  BY <1>3, <1>4 DEF LocalMode
<1> QED
  BY <1>1, <1>3, <1>5 DEF PlanInv, OpForm, Saved, StateExists, Restorable

\* Writes of one file leave the other ones alone.
LEMMA PlanFileWritten ==
    ASSUME PlanInv, op # <<>>, Head(op).target = PlanFile, NEW content, Becomes(Head(op).target, content)
    PROVE  file' = file /\ planState' = content
  BY DEF Becomes
LEMMA SettingsWritten ==
    ASSUME PlanInv, NEW target, target \in {Global, Local}, NEW content, Becomes(target, content)
    PROVE  /\ planState' = planState /\ FilesTyped'
           /\ target = Local => file'[Local] = content
           /\ target = Global => file'[Local] = file[Local]
<1>1. target # PlanFile /\ target \in Entry /\ Global # Local
  BY DEF Global, Local, PlanFile, Entry
<1>2. file' = [file EXCEPT ![target] = content] /\ planState' = planState
  BY <1>1 DEF Becomes
<1> QED
  BY <1>1, <1>2, FilePut DEF PlanInv

LEMMA WriteKeeps == ASSUME PlanInv, WriteFile PROVE PlanInv'
<1>1. /\ op # <<>> /\ Becomes(Head(op).target, Head(op).content)
      /\ op' = Tail(op) /\ origin' = Head(op).origin /\ cut' = cut
  BY DEF WriteFile
<1>2. OpForm /\ Saved /\ Restorable /\ FilesTyped
  BY DEF PlanInv
<1>3. CASE \E w : op = <<w>> /\ OfConfig(w)
  <2>1. PICK w : op = <<w>> /\ OfConfig(w)
    BY <1>3
  <2>2. Head(op) = w /\ op' = <<>>
    BY <1>1, <2>1, TailOfOne
  <2>3. w.target \in {Global, Local} /\ Becomes(w.target, w.content) /\ origin' = w.origin
    BY <1>1, <2>1, <2>2 DEF OfConfig
  <2>4. planState' = planState /\ FilesTyped'
        /\ (w.target = Local => file'[Local] = w.content)
        /\ (w.target = Global => file'[Local] = file[Local])
    BY <2>3, SettingsWritten
  <2>5. \/ LocalMode' = origin'
        \/ LocalMode' = LocalMode /\ origin' = origin
    BY <2>1, <2>3, <2>4 DEF OfConfig, LocalMode
  <2>6. Restorable' /\ Saved'
    BY <1>1, <1>2, <2>4, <2>5 DEF Restorable, Saved, StateExists
  <2> QED
    BY <2>2, <2>4, <2>6 DEF PlanInv, OpForm
<1>4. CASE LocalMode # "plan" /\ op \in {<<Clear>>, <<Clear, Saving, ToPlan>>}
  <2>1. Head(op) = Clear /\ op' \in {<<>>, <<Saving, ToPlan>>}
    <3>1. CASE op = <<Clear>>
      BY <1>1, <3>1, TailOfOne
    <3>2. CASE op = <<Clear, Saving, ToPlan>>
      BY <1>1, <3>2, TailOfThree
    <3> QED
      BY <1>4, <3>1, <3>2
  <2>2. Clear.target = PlanFile /\ Clear.content = Missing /\ Clear.origin = origin
    BY DEF Clear, Write
  <2>3. file' = file /\ planState' = Missing /\ origin' = origin
    BY <1>1, <2>1, <2>2, PlanFileWritten
  <2>4. OpForm' /\ LocalMode' = LocalMode
    BY <1>4, <2>1, <2>3, SameFiles DEF OpForm
  <2>5. ~StateExists'
    BY <2>3 DEF StateExists, Missing
  <2> QED
    BY <1>1, <1>2, <1>4, <2>3, <2>4, <2>5 DEF PlanInv, FilesTyped, Saved, Restorable
<1>5. CASE LocalMode # "plan" /\ op = <<Saving, ToPlan>>
  <2>1. Head(op) = Saving /\ op' = <<ToPlan>>
    BY <1>1, <1>5, TailOfTwo
  <2>2. Saving.target = PlanFile /\ Saving.content = Keys(SavedMode) /\ Saving.origin = origin
    BY DEF Saving, Write
  <2>3. file' = file /\ planState' = Keys(SavedMode) /\ origin' = origin
    BY <1>1, <2>1, <2>2, PlanFileWritten
  <2>4. LocalMode' = LocalMode /\ SavedMode' = SavedMode /\ ToPlan' = ToPlan
    BY <2>3, SameFiles
  <2>5. OpForm'
    BY <1>5, <2>1, <2>3, <2>4 DEF OpForm, Keys
  <2>6. Saved'
    BY <1>5, <2>3, SavedIsState DEF Saved
  <2> QED
    BY <1>1, <1>2, <1>5, <2>3, <2>4, <2>5, <2>6 DEF PlanInv, FilesTyped, Restorable
<1>6. CASE LocalMode # "plan" /\ planState = Keys(SavedMode) /\ op = <<ToPlan>>
  <2>1. Head(op) = ToPlan /\ op' = <<>>
    BY <1>1, <1>6, TailOfOne
  <2>2. /\ ToPlan.target = Local /\ ToPlan.origin = origin
        /\ ValueOf(ToPlan.content.key, DefaultMode) = "plan"
    BY ValueSet DEF ToPlan, Write
  <2>3. planState' = planState /\ FilesTyped' /\ file'[Local] = ToPlan.content /\ origin' = origin
    BY <1>1, <2>1, <2>2, SettingsWritten
  <2>4. LocalMode' = "plan"
    BY <2>2, <2>3 DEF LocalMode
  <2>5. StateExists' /\ planState'.key["previous"] = LocalMode
    BY <1>6, <2>3, SavedIsState DEF StateExists
  <2>6. Saved'
    BY <1>2, <2>3 DEF Saved, StateExists
  <2>7. Restorable'
    BY <1>1, <1>2, <1>6, <2>3, <2>4, <2>5 DEF Restorable
  <2> QED
    BY <2>1, <2>3, <2>6, <2>7 DEF PlanInv, OpForm
<1>7. CASE LocalMode = "plan" /\ StateExists /\ op = <<Restore, Clear>>
  <2>1. Head(op) = Restore /\ op' = <<Clear>>
    BY <1>1, <1>7, TailOfTwo
  <2>2. Restore.target = Local /\ Restore.origin = origin
    BY DEF Restore, Write
  <2>3. ValueOf(Restore.content.key, DefaultMode) = planState.key["previous"]
    <3>0. Restore.content = IF planState.key["had"]
                            THEN Setting(file[Local].key, DefaultMode, planState.key["previous"])
                            ELSE Unsetting(file[Local].key, DefaultMode)
      BY DEF Restore, Write
    <3>1. planState.key["had"] = (planState.key["previous"] # Unset)
      BY <1>2, <1>7 DEF Saved
    <3>2. CASE planState.key["previous"] # Unset
      <4>1. planState.key["had"] = TRUE
        BY <3>1, <3>2
      <4>2. Restore.content = Setting(file[Local].key, DefaultMode, planState.key["previous"])
        BY <3>0, <4>1
      <4> QED
        BY <4>2, ValueSet
    <3>3. CASE planState.key["previous"] = Unset
      BY <3>0, <3>1, <3>3, ValueSet
    <3> QED
      BY <3>2, <3>3
  <2>4. planState' = planState /\ FilesTyped' /\ file'[Local] = Restore.content /\ origin' = origin
    BY <1>1, <2>1, <2>2, SettingsWritten
  <2>5. LocalMode' = planState.key["previous"] /\ LocalMode' # "plan"
    BY <1>2, <1>7, <2>3, <2>4 DEF LocalMode, Saved
  <2>6. Clear' = Clear
    BY <2>4 DEF Clear, Write
  <2>7. Saved' /\ Restorable'
    BY <1>1, <1>2, <1>7, <2>4, <2>5 DEF Saved, StateExists, Restorable
  <2> QED
    BY <2>1, <2>4, <2>5, <2>6, <2>7 DEF PlanInv, OpForm
<1> QED
  BY <1>1, <1>2, <1>3, <1>4, <1>5, <1>6, <1>7 DEF OpForm

\* A write that breaks off tears what it writes, or leaves everything as it was.
LEMMA BreakKeeps == ASSUME PlanInv, WriteFails PROVE PlanInv'
<1>1. op # <<>> /\ op' = <<>> /\ origin' = origin
  BY DEF WriteFails
<1>2. OpForm /\ Saved /\ Restorable /\ FilesTyped /\ OpForm'
  BY <1>1 DEF PlanInv, OpForm
<1>3. CASE UNCHANGED <<file, planState, cut>>
  BY <1>1, <1>2, <1>3, DecideKeeps DEF PlanInv, FilesTyped, Saved, StateExists, Restorable, LocalMode
<1>4. ASSUME Head(op).content # Missing, NEW left \in {Torn, Empty}, Becomes(Head(op).target, left),
             cut' = (cut \/ Head(op).target = Local)
      PROVE  PlanInv'
  <2>1. CASE Head(op).target = Local
    <3>1. planState' = planState /\ FilesTyped' /\ cut'
      BY <1>4, <2>1, SettingsWritten
    <3> QED
      BY <1>2, <3>1 DEF PlanInv, Saved, StateExists, Restorable
  <2>2. CASE Head(op).target = Global
    <3>0. Head(op).target # Local
      BY <2>2 DEF Global, Local
    <3>1. planState' = planState /\ FilesTyped' /\ file'[Local] = file[Local] /\ (cut' <=> cut)
      BY <1>4, <2>2, <3>0, SettingsWritten
    <3>2. LocalMode' = LocalMode
      BY <3>1 DEF LocalMode
    <3> QED
      BY <1>1, <1>2, <3>1, <3>2 DEF PlanInv, Saved, StateExists, Restorable
  <2>3. CASE Head(op).target = PlanFile
    <3>0. Head(op).target # Local
      BY <2>3 DEF PlanFile, Local
    <3>1. file' = file /\ planState' = left /\ (cut' <=> cut)
      BY <1>1, <1>4, <2>3, <3>0, PlanFileWritten
    <3>2. ~StateExists'
      BY <1>4, <3>1, NoStateIn DEF StateExists
    <3>3. LocalMode # "plan"
      <4>1. Clear.content = Missing /\ Restore.target = Local
        BY DEF Clear, Restore, Write
      <4>2. \A w : OfConfig(w) => w.target # PlanFile
        BY DEF OfConfig, PlanFile, Global, Local
      <4> QED
        BY <1>1, <1>2, <1>4, <2>3, <4>1, <4>2, TailOfOne, TailOfTwo DEF OpForm, PlanFile, Local
    <3>4. LocalMode' = LocalMode
      BY <3>1 DEF LocalMode
    <3> QED
      BY <1>1, <1>2, <3>1, <3>2, <3>3, <3>4 DEF PlanInv, FilesTyped, Saved, Restorable
  <2>4. Head(op).target \in {Local, Global, PlanFile}
    <3>1. Clear.target = PlanFile /\ Saving.target = PlanFile /\ ToPlan.target = Local /\ Restore.target = Local
      BY DEF Clear, Saving, ToPlan, Restore, Write
    <3> QED
      BY <1>1, <1>2, <3>1, TailOfOne, TailOfTwo, TailOfThree DEF OpForm, OfConfig
  <2> QED
    BY <2>1, <2>2, <2>3, <2>4
<1> QED
  BY <1>1, <1>3, <1>4 DEF WriteFails

\* What the tools of plan mode have taken and can give back, after each of their writes.
THEOREM PlanInvariant == SettingsSpec => []PlanInv
<1>1. PlanInv /\ [SettingsNext]_settingsVars => PlanInv'
  <2> SUFFICES ASSUME PlanInv, [SettingsNext]_settingsVars PROVE PlanInv'
    OBVIOUS
  <2>1. CASE UNCHANGED settingsVars
    <3>1. UNCHANGED <<file, planState, op, origin, cut>>
      BY <2>1 DEF settingsVars
    <3> QED
      BY <3>1 DEF PlanInv, FilesTyped, OpForm, OfConfig, Saved, StateExists, Restorable, LocalMode, SavedMode,
                  Clear, Saving, ToPlan, Restore, Write
  <2> QED
    BY <2>1, ConfigKeeps, EnterKeeps, ExitKeeps, WriteKeeps, BreakKeeps, EditKeeps DEF SettingsNext
<1> QED
  BY PlanBegins, <1>1, PTL DEF SettingsSpec

(***************************************************************************)
(* The merge.  After n files the settings hold, for each key, what the     *)
(* strongest of these files that has it says.                              *)
(***************************************************************************)
HasKey(i, name) == ~Skipped(i) /\ name \in DOMAIN file[i].key
StrongestOf(n, name, i) == i \in 1..n /\ HasKey(i, name) /\ \A j \in 1..n : HasKey(j, name) => j <= i
MergedTo(acc, n) ==
    acc.ok =>
        /\ \A name : name \in DOMAIN acc.key <=> \E i \in 1..n : HasKey(i, name)
        /\ \A name, i : StrongestOf(n, name, i) => acc.key[name] = file[i].key[name]
        /\ ~(\E i \in 1..n : HasKey(i, "mcpServers.x")) => acc.scope = Unset
        /\ \A i : StrongestOf(n, "mcpServers.x", i) => acc.scope = Source(i)

LEMMA MergeOne ==
    ASSUME NEW acc, NEW n \in 0..4, MergedTo(acc, n)
    PROVE  MergedTo(AddFile(acc, n + 1), n + 1)
<1> DEFINE next == AddFile(acc, n + 1)
<1> SUFFICES ASSUME next.ok
             PROVE  /\ \A name : name \in DOMAIN next.key <=> \E i \in 1..(n + 1) : HasKey(i, name)
                    /\ \A name, i : StrongestOf(n + 1, name, i) => next.key[name] = file[i].key[name]
                    /\ ~(\E i \in 1..(n + 1) : HasKey(i, "mcpServers.x")) => next.scope = Unset
                    /\ \A i : StrongestOf(n + 1, "mcpServers.x", i) => next.scope = Source(i)
  BY DEF MergedTo
<1>1. /\ n + 1 \in 1..(n + 1) /\ \A i : i \in 1..(n + 1) <=> i \in 1..n \/ i = n + 1
      /\ \A i \in 1..n : i <= n + 1 /\ ~(n + 1 <= i)
  OBVIOUS
<1>2. CASE Skipped(n + 1)
  <2>1. next = acc
    BY <1>2 DEF AddFile
  <2>2. \A name : ~HasKey(n + 1, name)
    BY <1>2 DEF HasKey
  <2>3. \A name, i : StrongestOf(n + 1, name, i) => StrongestOf(n, name, i)
    BY <1>1, <2>2 DEF StrongestOf
  <2> QED
    BY <1>1, <2>1, <2>2, <2>3 DEF MergedTo
<1>3. CASE ~Skipped(n + 1)
  <2>1. acc.ok /\ FileLoads(n + 1)
    BY <1>3 DEF AddFile
  <2>2. /\ next.key = MergeKeys(acc.key, file[n + 1].key)
        /\ next.scope = IF "mcpServers.x" \in DOMAIN file[n + 1].key THEN Source(n + 1) ELSE acc.scope
    BY <1>3, <2>1 DEF AddFile
  <2>3. \A name : HasKey(n + 1, name) <=> name \in DOMAIN file[n + 1].key
    BY <1>3 DEF HasKey
  <2>4. /\ DOMAIN next.key = DOMAIN file[n + 1].key \cup DOMAIN acc.key
        /\ \A name \in DOMAIN next.key :
               next.key[name] = IF name \in DOMAIN file[n + 1].key THEN file[n + 1].key[name] ELSE acc.key[name]
    BY <2>2 DEF MergeKeys
  <2> HIDE DEF next
  <2>5. \A name, i : StrongestOf(n + 1, name, i) =>
            IF HasKey(n + 1, name) THEN i = n + 1 ELSE StrongestOf(n, name, i)
    <3> SUFFICES ASSUME NEW name, NEW i, StrongestOf(n + 1, name, i)
                 PROVE  IF HasKey(n + 1, name) THEN i = n + 1 ELSE StrongestOf(n, name, i)
      OBVIOUS
    <3> QED
      BY <1>1 DEF StrongestOf
  <2>6. \A name, i : StrongestOf(n, name, i) => HasKey(i, name) /\ i \in 1..n
    BY DEF StrongestOf
  <2>7. \A name : name \in DOMAIN next.key <=> \E i \in 1..(n + 1) : HasKey(i, name)
    BY <1>1, <2>1, <2>3, <2>4 DEF MergedTo
  <2>8. ASSUME NEW name, NEW i, StrongestOf(n + 1, name, i) PROVE next.key[name] = file[i].key[name]
    <3>1. name \in DOMAIN next.key
      BY <1>1, <2>7, <2>8 DEF StrongestOf
    <3> QED
      BY <2>1, <2>3, <2>4, <2>5, <2>8, <3>1 DEF MergedTo
  <2>9. ~(\E i \in 1..(n + 1) : HasKey(i, "mcpServers.x")) => next.scope = Unset
    BY <1>1, <2>1, <2>2, <2>3 DEF MergedTo
  <2>10. ASSUME NEW i, StrongestOf(n + 1, "mcpServers.x", i) PROVE next.scope = Source(i)
    BY <2>1, <2>2, <2>3, <2>5, <2>10 DEF MergedTo
  <2> QED
    BY <2>7, <2>8, <2>9, <2>10
<1> QED
  BY <1>2, <1>3

LEMMA MergeAll == MergedTo(Load, 5)
<1>1. MergedTo(NoSettings, 0)
  BY DEF MergedTo, NoSettings, StrongestOf
<1>2. MergedTo(AddFile(NoSettings, 1), 1)
  <2>1. 0 \in 0..4 /\ 0 + 1 = 1
    OBVIOUS
  <2> QED
    BY <1>1, <2>1, MergeOne
<1>3. \A acc : MergedTo(acc, 1) => MergedTo(AddFile(acc, 2), 2)
  <2>1. 1 \in 0..4 /\ 1 + 1 = 2
    OBVIOUS
  <2> QED
    BY <2>1, MergeOne
<1>4. \A acc : MergedTo(acc, 2) => MergedTo(AddFile(acc, 3), 3)
  <2>1. 2 \in 0..4 /\ 2 + 1 = 3
    OBVIOUS
  <2> QED
    BY <2>1, MergeOne
<1>5. \A acc : MergedTo(acc, 3) => MergedTo(AddFile(acc, 4), 4)
  <2>1. 3 \in 0..4 /\ 3 + 1 = 4
    OBVIOUS
  <2> QED
    BY <2>1, MergeOne
<1>6. \A acc : MergedTo(acc, 4) => MergedTo(AddFile(acc, 5), 5)
  <2>1. 4 \in 0..4 /\ 4 + 1 = 5
    OBVIOUS
  <2> QED
    BY <2>1, MergeOne
<1> QED
  BY <1>2, <1>3, <1>4, <1>5, <1>6 DEF Load

\* One of the files that have a key is the strongest.
LEMMA StrongestIs ==
    ASSUME NEW name, \E i \in 1..5 : HasKey(i, name)
    PROVE  \E i \in 1..5 : StrongestOf(5, name, i)
  BY DEF StrongestOf

LEMMA PrecedenceHolds == ConfigPrecedence
<1> DEFINE config == RuntimeConfig
           Has(i, name) == ~Skipped(i) /\ name \in DOMAIN file[i].key
           Strongest(name) == {i \in Entry : Has(i, name) /\ \A j \in Entry : Has(j, name) => j <= i}
           Of(name) == IF Strongest(name) = {} THEN Unset
                       ELSE file[CHOOSE i \in Strongest(name) : TRUE].key[name]
           Label == IF Of("permissionMode") # Unset THEN Of("permissionMode") ELSE Of(DefaultMode)
<1> SUFFICES ASSUME config.ok
             PROVE  /\ StartMode(config) = IF Label = Unset THEN "DangerFullAccess" ELSE PermissionModeLabel(Label)
                    /\ config.scope = IF Strongest("mcpServers.x") = {} THEN Unset
                                      ELSE Source(CHOOSE i \in Strongest("mcpServers.x") : TRUE)
                    /\ ValueOf(config.key, "mcpServers.x") = Of("mcpServers.x")
                    /\ StartModel(config) = IF Of("model") = "x" /\ Of("aliases.x") # Unset THEN Of("aliases.x") ELSE Of("model")
  BY DEF ConfigPrecedence
<1>1. config = Load
  BY DEF RuntimeConfig
<1>2. /\ \A name : name \in DOMAIN config.key <=> \E i \in 1..5 : HasKey(i, name)
      /\ \A name, i : StrongestOf(5, name, i) => config.key[name] = file[i].key[name]
      /\ ~(\E i \in 1..5 : HasKey(i, "mcpServers.x")) => config.scope = Unset
      /\ \A i : StrongestOf(5, "mcpServers.x", i) => config.scope = Source(i)
  BY <1>1, MergeAll DEF MergedTo
<1>3. \A name : Strongest(name) = {i \in 1..5 : StrongestOf(5, name, i)}
  BY DEF Entry, StrongestOf, HasKey
<1>4. \A name : Strongest(name) = {} <=> ~(\E i \in 1..5 : HasKey(i, name))
  BY <1>3, StrongestIs DEF StrongestOf
<1>5. \A name : Strongest(name) # {} => StrongestOf(5, name, CHOOSE i \in Strongest(name) : TRUE)
  BY <1>3
<1> HIDE DEF config, Has, Strongest
<1>6. \A name : ValueOf(config.key, name) = Of(name)
  BY <1>2, <1>4, <1>5 DEF ValueOf
<1>7. config.scope = IF Strongest("mcpServers.x") = {} THEN Unset
                     ELSE Source(CHOOSE i \in Strongest("mcpServers.x") : TRUE)
  BY <1>2, <1>4, <1>5
<1>8. \A name : ValueOf(config.key, name) # Unset => config.key[name] = Of(name)
  BY <1>6 DEF ValueOf
<1> HIDE DEF Of
<1>9. ConfiguredMode(config.key) = IF Label = Unset THEN Unset ELSE PermissionModeLabel(Label)
  BY <1>6, <1>8 DEF ConfiguredMode
<1>10. \A label : PermissionModeLabel(label) # Unset
  BY DEF PermissionModeLabel, Unset
<1>11. StartMode(config) = IF Label = Unset THEN "DangerFullAccess" ELSE PermissionModeLabel(Label)
  BY <1>9, <1>10 DEF StartMode
<1>12. StartModel(config) = IF Of("model") = "x" /\ Of("aliases.x") # Unset THEN Of("aliases.x") ELSE Of("model")
  BY <1>6, <1>8 DEF StartModel
<1> QED
  BY <1>6, <1>7, <1>11, <1>12

\* Each setting comes from the strongest file that has it, whatever the five files hold,
\* and plan mode gives back the mode that was chosen last other than by itself.
THEOREM SettingsAreMeant == SettingsSpec => []SettingsHold
<1>1. PlanInv => SettingsHold
  <2> SUFFICES ASSUME PlanInv PROVE PlanModeRestores
    BY PrecedenceHolds DEF SettingsHold
  <2> QED
    BY DEF PlanInv, Restorable, PlanModeRestores
<1> QED
  BY <1>1, PlanInvariant, PTL
-----------------------------------------------------------------------------
(***************************************************************************)
(* Recovery.  The count of a scenario says whether it was attempted; what  *)
(* is refused was attempted before, and a person is told next.             *)
(***************************************************************************)
RecoveryEvent == [kind : {"attempted", "succeeded", "failed", "escalated"}, scenario : FailureScenario,
                  result : {"recovered", "escalation_required", "partial_recovery", "refused", ""}]
AttemptOf(events, s, i) == events[i].kind = "attempted" /\ events[i].scenario = s
RecoveryInv ==
    /\ recovery = [attempts |-> recovery.attempts, events |-> recovery.events]
    /\ recovery.attempts \in [FailureScenario -> Nat] /\ recovery.events \in Seq(RecoveryEvent)
    /\ \A s \in FailureScenario :
          recovery.attempts[s] = 0 <=> ~(\E i \in 1..Len(recovery.events) : AttemptOf(recovery.events, s, i))
    /\ \A s \in FailureScenario, i \in 1..Len(recovery.events) :
          AttemptOf(recovery.events, s, i) =>
              /\ recovery.events[i].result = "refused" <=> \E j \in 1..(i - 1) : AttemptOf(recovery.events, s, j)
              /\ recovery.events[i].result = "refused" =>
                    i + 1 \in 1..Len(recovery.events) /\ recovery.events[i + 1].kind = "escalated"

LEMMA LeastIs ==
    ASSUME NEW S \in SUBSET Nat, S # {}
    PROVE  \E x \in S : \A y \in S : x <= y
<1>1. PICK x \in S : \A y \in S : <<y, x>> \notin OpToRel(<, Nat)
  BY NatLessThanWellFounded, WFMin
<1>2. \A y \in S : ~(y < x)
  BY <1>1 DEF OpToRel
<1>3. \A y \in S : x \in Int /\ y \in Int
  OBVIOUS
<1>4. \A y \in S : x <= y
  BY <1>2, <1>3
<1> QED
  BY <1>4

LEMMA AttemptKeeps ==
    ASSUME RecoveryInv, NEW s \in FailureScenario, NEW failAt, AttemptRecovery(s, failAt)
    PROVE  RecoveryInv'
<1> DEFINE spent == recovery.attempts[s] >= MaxAttempts
           result == IF spent THEN "escalation_required" ELSE RunRecipe(s, failAt)
           said == CASE result = "recovered" -> "succeeded" [] result = "partial_recovery" -> "failed"
                     [] OTHER -> "escalated"
<1>1. PICK events, attempts : events = recovery.events /\ attempts = recovery.attempts
  OBVIOUS
<1>2. PICK a, b : a = Attempted(s, IF spent THEN "refused" ELSE result) /\ b = Outcome(said, s)
  OBVIOUS
<1>3. PICK count : count = [attempts EXCEPT ![s] = IF spent THEN @ ELSE Counted(@, result)]
  OBVIOUS
<1>4. recovery' = [attempts |-> count, events |-> events \o <<a, b>>]
  BY <1>1, <1>2, <1>3 DEF AttemptRecovery
<1>5. RunRecipe(s, failAt) \in {"recovered", "escalation_required", "partial_recovery"}
  BY DEF RunRecipe
<1>6. result \in {"recovered", "escalation_required", "partial_recovery"}
  BY <1>5
<1>7. said \in {"succeeded", "failed", "escalated"} /\ (spent => said = "escalated")
  BY <1>6
<1>8. /\ a \in RecoveryEvent /\ b \in RecoveryEvent
      /\ a.kind = "attempted" /\ a.scenario = s /\ b.kind # "attempted"
      /\ a.result = "refused" <=> spent
      /\ spent => b.kind = "escalated"
  BY <1>2, <1>6, <1>7 DEF Attempted, Outcome, RecoveryEvent
<1>9. /\ events \in Seq(RecoveryEvent) /\ attempts \in [FailureScenario -> Nat]
      /\ \A t \in FailureScenario :
             attempts[t] = 0 <=> ~(\E i \in 1..Len(events) : AttemptOf(events, t, i))
      /\ \A t \in FailureScenario, i \in 1..Len(events) :
             AttemptOf(events, t, i) =>
                 /\ events[i].result = "refused" <=> \E j \in 1..(i - 1) : AttemptOf(events, t, j)
                 /\ events[i].result = "refused" => i + 1 \in 1..Len(events) /\ events[i + 1].kind = "escalated"
  BY <1>1 DEF RecoveryInv
<1>10. spent <=> attempts[s] # 0
  BY <1>1, <1>9 DEF MaxAttempts
<1>11. /\ count \in [FailureScenario -> Nat] /\ count[s] # 0
       /\ \A t \in FailureScenario : t # s => count[t] = attempts[t]
  BY <1>3, <1>9, <1>10 DEF Counted
<1> HIDE DEF spent
<1>12. PICK later : later = events \o <<a, b>>
  OBVIOUS
<1>13. PICK n \in Nat : n = Len(events)
  BY <1>9
<1>14. /\ later \in Seq(RecoveryEvent) /\ Len(later) = n + 2
       /\ \A i \in 1..n : later[i] = events[i]
       /\ later[n + 1] = a /\ later[n + 2] = b
  <2>1. <<a, b>> \in Seq(RecoveryEvent) /\ Len(<<a, b>>) = 2 /\ <<a, b>>[1] = a /\ <<a, b>>[2] = b
    BY <1>8
  <2>2. \A i \in 1..(n + 2) : later[i] = IF i <= n THEN events[i] ELSE <<a, b>>[i - n]
    BY <1>9, <1>12, <1>13, <2>1, ConcatProperties
  <2>3. later \in Seq(RecoveryEvent) /\ Len(later) = n + 2
    BY <1>9, <1>12, <1>13, <2>1, ConcatProperties
  <2>4. later[n + 1] = a /\ later[n + 2] = b
    <3>1. n + 1 \in 1..(n + 2) /\ n + 2 \in 1..(n + 2) /\ (n + 1) - n = 1 /\ (n + 2) - n = 2
          /\ ~(n + 1 <= n) /\ ~(n + 2 <= n)
      OBVIOUS
    <3> QED
      BY <2>1, <2>2, <3>1
  <2> QED
    BY <2>2, <2>3, <2>4
<1>15. \A t, i : i \in 1..n => (AttemptOf(later, t, i) <=> AttemptOf(events, t, i))
  BY <1>14 DEF AttemptOf
<1>16. \A t : AttemptOf(later, t, n + 1) <=> t = s
  BY <1>8, <1>14 DEF AttemptOf
<1>17. \A t : ~AttemptOf(later, t, n + 2)
  BY <1>8, <1>14 DEF AttemptOf
<1>18. \A i : i \in 1..(n + 2) <=> i \in 1..n \/ i = n + 1 \/ i = n + 2
  OBVIOUS
<1>19. \A t \in FailureScenario : count[t] = 0 <=> ~(\E i \in 1..(n + 2) : AttemptOf(later, t, i))
  <2> SUFFICES ASSUME NEW t \in FailureScenario
               PROVE  count[t] = 0 <=> ~(\E i \in 1..(n + 2) : AttemptOf(later, t, i))
    OBVIOUS
  <2>1. CASE t = s
    BY <1>11, <1>16, <1>18, <2>1
  <2>2. CASE t # s
    BY <1>9, <1>11, <1>13, <1>15, <1>16, <1>17, <1>18, <2>2
  <2> QED
    BY <2>1, <2>2
<1>20. ASSUME NEW t \in FailureScenario, NEW i \in 1..(n + 2), AttemptOf(later, t, i)
       PROVE  /\ later[i].result = "refused" <=> \E j \in 1..(i - 1) : AttemptOf(later, t, j)
              /\ later[i].result = "refused" => i + 1 \in 1..(n + 2) /\ later[i + 1].kind = "escalated"
  <2>1. CASE i \in 1..n
    <3>1. AttemptOf(events, t, i) /\ later[i] = events[i] /\ i <= n
      BY <1>14, <1>15, <1>20, <2>1
    <3>2. \A j \in 1..(i - 1) : j \in 1..n
      BY <3>1
    <3>3. i + 1 \in 1..n \/ i = n
      BY <2>1
    <3>4. CASE i + 1 \in 1..n
      <4>1. /\ events[i].result = "refused" <=> \E j \in 1..(i - 1) : AttemptOf(events, t, j)
            /\ events[i].result = "refused" => events[i + 1].kind = "escalated"
        BY <1>9, <1>13, <2>1, <3>1
      <4>2. later[i + 1] = events[i + 1] /\ i + 1 \in 1..(n + 2)
        BY <1>14, <1>18, <3>4
      <4>3. (\E j \in 1..(i - 1) : AttemptOf(events, t, j)) <=> \E j \in 1..(i - 1) : AttemptOf(later, t, j)
        BY <1>15, <3>2
      <4> QED
        BY <3>1, <4>1, <4>2, <4>3
    <3>5. CASE i = n
      <4>1. ~(events[i].result = "refused")
        BY <1>9, <1>13, <2>1, <3>1, <3>5
      <4> QED
        BY <1>9, <1>13, <1>14, <1>15, <2>1, <3>1, <3>2, <3>5, <4>1
    <3> QED
      BY <3>3, <3>4, <3>5
  <2>2. CASE i = n + 1
    <3>1. t = s /\ later[i] = a /\ later[i + 1] = b
      <4>1. (n + 1) + 1 = n + 2
        OBVIOUS
      <4> QED
        BY <1>14, <1>16, <1>20, <2>2, <4>1
    <3>2. \A j : j \in 1..(i - 1) <=> j \in 1..n
      BY <2>2
    <3>3. (\E j \in 1..(i - 1) : AttemptOf(later, t, j)) <=> attempts[s] # 0
      BY <1>9, <1>13, <1>15, <3>1, <3>2
    <3>4. i + 1 \in 1..(n + 2)
      BY <2>2
    <3> QED
      BY <1>8, <1>10, <3>1, <3>3, <3>4
  <2> QED
    BY <1>17, <1>18, <1>20, <2>1, <2>2
<1> QED
  BY <1>4, <1>11, <1>12, <1>14, <1>19, <1>20 DEF RecoveryInv

\* A scenario counts as attempted exactly when its first attempt is on record.
THEOREM RecoveryInvariant == LanesSpec => []RecoveryInv
<1>1. LanesInit => RecoveryInv
  <2> SUFFICES ASSUME LanesInit PROVE RecoveryInv
    OBVIOUS
  <2>1. recovery.events = <<>> /\ recovery.attempts = [s \in FailureScenario |-> 0]
        /\ recovery = [attempts |-> recovery.attempts, events |-> recovery.events]
    BY DEF LanesInit
  <2>2. <<>> \in Seq(RecoveryEvent) /\ Len(<<>>) = 0
    OBVIOUS
  <2> QED
    BY <2>1, <2>2 DEF RecoveryInv
<1>2. RecoveryInv /\ [LanesNext]_recovery => RecoveryInv'
  <2> SUFFICES ASSUME RecoveryInv, [LanesNext]_recovery PROVE RecoveryInv'
    OBVIOUS
  <2>1. CASE UNCHANGED recovery
    BY <2>1 DEF RecoveryInv, AttemptOf
  <2> QED
    BY <2>1, AttemptKeeps DEF LanesNext
<1> QED
  BY <1>1, <1>2, PTL DEF LanesSpec

\* A recipe is run once for each scenario, and from then on a person is told.
THEOREM RecoveredOnce == LanesSpec => []RecoveryOnce
<1>1. RecoveryInv => RecoveryOnce
  <2> SUFFICES ASSUME RecoveryInv, NEW s \in FailureScenario
               PROVE  LET Of(i) == recovery.events[i].kind = "attempted" /\ recovery.events[i].scenario = s
                          Indices == {i \in DOMAIN recovery.events : Of(i)}
                      IN  \A i \in Indices :
                            /\ (recovery.events[i].result # "refused") = (i = Min(Indices))
                            /\ recovery.events[i].result = "refused" => recovery.events[i + 1].kind = "escalated"
    BY DEF RecoveryOnce
  <2> DEFINE Indices == {i \in 1..Len(recovery.events) : AttemptOf(recovery.events, s, i)}
  <2>1. recovery.events \in Seq(RecoveryEvent) /\ DOMAIN recovery.events = 1..Len(recovery.events)
        /\ Len(recovery.events) \in Nat
    BY DEF RecoveryInv
  <2>2. ASSUME NEW i \in Indices
        PROVE  /\ recovery.events[i].result # "refused" <=> i = Min(Indices)
               /\ recovery.events[i].result = "refused" => recovery.events[i + 1].kind = "escalated"
    <3>1. /\ recovery.events[i].result = "refused" <=> \E j \in 1..(i - 1) : AttemptOf(recovery.events, s, j)
          /\ recovery.events[i].result = "refused" => recovery.events[i + 1].kind = "escalated"
      BY <2>2 DEF RecoveryInv
    <3>2. (\E j \in 1..(i - 1) : AttemptOf(recovery.events, s, j)) <=> \E j \in Indices : j < i
      BY <2>1
    <3>0. Indices \in SUBSET Nat
      BY <2>1
    <3>3. \A j \in Indices : j \in Int
      BY <3>0
    <3> HIDE DEF Indices
    <3>4. i = Min(Indices) <=> ~(\E j \in Indices : j < i)
      <4>1. ASSUME \A j \in Indices : i <= j PROVE i = Min(Indices)
        <5>1. \A x \in Indices : (\A y \in Indices : x <= y) <=> x = i
          BY <2>2, <3>3, <4>1
        <5> QED
          BY <2>2, <5>1 DEF Min
      <4>2. ASSUME i = Min(Indices) PROVE \A j \in Indices : i <= j
        <5>1. PICK x \in Indices : \A y \in Indices : x <= y
          BY <2>2, <3>0, LeastIs
        <5> QED
          BY <4>2, <5>1 DEF Min
      <4> QED
        BY <2>2, <3>3, <4>1, <4>2
    <3> QED
      BY <3>1, <3>2, <3>4
  <2> QED
    BY <2>1, <2>2 DEF AttemptOf
<1> QED
  BY <1>1, RecoveryInvariant, PTL
-----------------------------------------------------------------------------
(***************************************************************************)
(* Branches, locks and tests, whatever is asked of them.  A sequence is a  *)
(* prefix of another when they agree as far as it goes (PrefixIs); two     *)
(* prefixes of one sequence are prefixes of one another, so two lanes that *)
(* both lock a path have modules of which one holds the other.             *)
(***************************************************************************)
LEMMA PrefixIs ==
    ASSUME NEW P, NEW s \in Seq(P), NEW t \in Seq(P)
    PROVE  IsPrefix(s, t) <=> Len(s) <= Len(t) /\ \A i \in 1..Len(s) : s[i] = t[i]
<1>1. ASSUME Len(s) <= Len(t)
      PROVE  SubSeq(s, 1, Len(s)) = SubSeq(t, 1, Len(s)) <=> \A i \in 1..Len(s) : s[i] = t[i]
  <2>1. SubSeq(s, 1, Len(s)) = [i \in 1..Len(s) |-> s[i]]
    OBVIOUS
  <2>2. SubSeq(t, 1, Len(s)) = [i \in 1..Len(s) |-> t[i]]
    BY <1>1
  <2> QED
    BY <2>1, <2>2
<1> QED
  BY <1>1 DEF IsPrefix

\* ModulesOverlap: a path below both is what both of them begin.
LEMMA OverlapIs ==
    ASSUME NEW P, NEW l \in Seq(P), NEW r \in Seq(P)
    PROVE  /\ ModulesOverlap(l, r) <=> \E m \in {l, r} : IsPrefix(l, m) /\ IsPrefix(r, m)
           /\ \A m \in Seq(P) : IsPrefix(l, m) /\ IsPrefix(r, m) => ModulesOverlap(l, r)
           /\ ModulesOverlap(l, r) => IsPrefix(SharedScope(l, r), l) /\ IsPrefix(SharedScope(l, r), r)
<1>1. IsPrefix(l, l) /\ IsPrefix(r, r)
  BY PrefixIs
<1>2. ASSUME NEW m \in Seq(P), IsPrefix(l, m), IsPrefix(r, m) PROVE ModulesOverlap(l, r)
  <2>1. Len(l) <= Len(m) /\ \A i \in 1..Len(l) : l[i] = m[i]
    BY <1>2, PrefixIs
  <2>2. Len(r) <= Len(m) /\ \A i \in 1..Len(r) : r[i] = m[i]
    BY <1>2, PrefixIs
  <2>3. CASE Len(l) <= Len(r)
    <3>1. \A i \in 1..Len(l) : l[i] = r[i]
      BY <2>1, <2>2, <2>3
    <3> QED
      BY <2>3, <3>1, PrefixIs DEF ModulesOverlap
  <2>4. CASE Len(r) <= Len(l)
    <3>1. \A i \in 1..Len(r) : r[i] = l[i]
      BY <2>1, <2>2, <2>4
    <3> QED
      BY <2>4, <3>1, PrefixIs DEF ModulesOverlap
  <2> QED
    BY <2>3, <2>4
<1> QED
  BY <1>1, <1>2 DEF ModulesOverlap, SharedScope

LEMMA CollidingIs ==
    ASSUME NEW left, NEW right, NEW c
    PROVE  c \in Colliding(left, right) <=>
              /\ left.branch = right.branch
              /\ \E l \in left.modules, r \in right.modules :
                    /\ ModulesOverlap(l, r)
                    /\ c = [branch |-> left.branch, module |-> SharedScope(l, r), lanes |-> <<left.lane, right.lane>>]
<1> DEFINE Report(l, r) ==
             [branch |-> left.branch, module |-> SharedScope(l, r), lanes |-> <<left.lane, right.lane>>]
           Pairs == {p \in left.modules \X right.modules : ModulesOverlap(p[1], p[2])}
<1>1. CASE left.branch # right.branch
  BY <1>1 DEF Colliding
<1>2. CASE left.branch = right.branch
  <2>1. c \in Colliding(left, right) <=> \E m \in Pairs : c = Report(m[1], m[2])
    BY <1>2 DEF Colliding
  <2> HIDE DEF Report
  <2>2. ASSUME NEW m \in Pairs, c = Report(m[1], m[2])
        PROVE  \E l \in left.modules, r \in right.modules : ModulesOverlap(l, r) /\ c = Report(l, r)
    BY <2>2
  <2>3. ASSUME NEW l \in left.modules, NEW r \in right.modules, ModulesOverlap(l, r), c = Report(l, r)
        PROVE  \E m \in Pairs : c = Report(m[1], m[2])
    <3>1. <<l, r>> \in Pairs
      BY <2>3
    <3> QED
      BY <2>3, <3>1
  <2>4. c \in Colliding(left, right) <=>
           \E l \in left.modules, r \in right.modules : ModulesOverlap(l, r) /\ c = Report(l, r)
    BY <2>1, <2>2, <2>3
  <2> QED
    BY <1>2, <2>4 DEF Report
<1> QED
  BY <1>1, <1>2

(***************************************************************************)
(* LocksReported, a part of LanesHold: two lanes on one branch are         *)
(* reported exactly when a path lies within what both of them lock, with   *)
(* a scope that takes in both, for any lanes with different names.         *)
(***************************************************************************)
THEOREM CollisionsReported ==
    ASSUME NEW P, NEW Lane, NEW Branch, NEW paths \in SUBSET Seq(P),
           NEW intents \in Seq([lane : Lane, branch : Branch, modules : SUBSET paths]),
           \A i, j \in 1..Len(intents) : intents[i].lane = intents[j].lane => i = j
    PROVE  LocksReported(intents, paths)
<1> DEFINE N == Len(intents)
<1>0. DOMAIN intents = 1..N /\ N \in Nat
  OBVIOUS
<1>1. \A i \in 1..N : intents[i].modules \subseteq paths /\ intents[i].modules \subseteq Seq(P)
  <2>1. \A i \in 1..N : intents[i] \in [lane : Lane, branch : Branch, modules : SUBSET paths]
    BY ElementOfSeq
  <2> QED
    BY <2>1
<1>2. \A c : c \in Collisions(intents) <=>
               \E i, j \in 1..N : i < j /\ c \in Colliding(intents[i], intents[j])
  <2>1. \A i \in 1..N : \A j : j \in (i + 1)..N <=> j \in 1..N /\ i < j
    BY <1>0
  <2> QED
    BY <1>0, <2>1 DEF Collisions
<1>3. ASSUME NEW i \in 1..N, NEW j \in 1..N
      PROVE  \A c : c \in Colliding(intents[i], intents[j]) <=>
                /\ intents[i].branch = intents[j].branch
                /\ \E l \in intents[i].modules, r \in intents[j].modules :
                      /\ ModulesOverlap(l, r)
                      /\ c = [branch |-> intents[i].branch, module |-> SharedScope(l, r),
                              lanes |-> <<intents[i].lane, intents[j].lane>>]
  BY CollidingIs
<1> DEFINE Locks(i, m) == \E k \in intents[i].modules : IsPrefix(k, m)
<1>4. ASSUME NEW i \in 1..N, NEW j \in 1..N, i < j
      PROVE  (\E c \in Collisions(intents) : c.lanes = <<intents[i].lane, intents[j].lane>>)
             <=> intents[i].branch = intents[j].branch /\ \E m \in paths : Locks(i, m) /\ Locks(j, m)
  <2>1. ASSUME NEW c \in Collisions(intents), c.lanes = <<intents[i].lane, intents[j].lane>>
        PROVE  intents[i].branch = intents[j].branch /\ \E m \in paths : Locks(i, m) /\ Locks(j, m)
    <3>1. PICK a \in 1..N, b \in 1..N : a < b /\ c \in Colliding(intents[a], intents[b])
      BY <1>2, <2>1
    <3>0. intents[a].branch = intents[b].branch
      BY <3>1, CollidingIs
    <3>2. PICK l \in intents[a].modules, r \in intents[b].modules :
             /\ ModulesOverlap(l, r)
             /\ c = [branch |-> intents[a].branch, module |-> SharedScope(l, r),
                     lanes |-> <<intents[a].lane, intents[b].lane>>]
      BY <3>1, CollidingIs
    <3>3. <<intents[a].lane, intents[b].lane>> = <<intents[i].lane, intents[j].lane>>
      BY <2>1, <3>2
    <3>4. a = i /\ b = j
      BY <3>3
    <3>5. l \in Seq(P) /\ r \in Seq(P) /\ l \in paths /\ r \in paths
      BY <1>1
    <3>6. PICK m \in {l, r} : IsPrefix(l, m) /\ IsPrefix(r, m)
      BY <3>2, <3>5, OverlapIs
    <3> QED
      BY <3>0, <3>2, <3>4, <3>5, <3>6
  <2>2. ASSUME intents[i].branch = intents[j].branch, NEW m \in paths, Locks(i, m), Locks(j, m)
        PROVE  \E c \in Collisions(intents) : c.lanes = <<intents[i].lane, intents[j].lane>>
    <3>1. PICK l \in intents[i].modules, r \in intents[j].modules : IsPrefix(l, m) /\ IsPrefix(r, m)
      BY <2>2
    <3>2. ModulesOverlap(l, r)
      BY <1>1, <3>1, OverlapIs
    <3>3. PICK c : c = [branch |-> intents[i].branch, module |-> SharedScope(l, r),
                        lanes |-> <<intents[i].lane, intents[j].lane>>]
      OBVIOUS
    <3>4. c \in Collisions(intents)
      BY <1>2, <1>3, <1>4, <2>2, <3>2, <3>3
    <3> QED
      BY <3>3, <3>4
  <2> QED
    BY <2>1, <2>2
<1>5. ASSUME NEW c \in Collisions(intents)
      PROVE  \E i, j \in 1..N : \E l \in intents[i].modules, r \in intents[j].modules :
                i < j /\ IsPrefix(c.module, l) /\ IsPrefix(c.module, r)
  <2>1. PICK a \in 1..N, b \in 1..N : a < b /\ c \in Colliding(intents[a], intents[b])
    BY <1>2
  <2>2. PICK l \in intents[a].modules, r \in intents[b].modules :
           ModulesOverlap(l, r) /\ c.module = SharedScope(l, r)
    BY <1>3, <2>1
  <2>3. l \in Seq(P) /\ r \in Seq(P)
    BY <1>1
  <2>4. IsPrefix(c.module, l) /\ IsPrefix(c.module, r)
    BY <2>2, <2>3, OverlapIs
  <2> QED
    BY <2>1, <2>4
<1> QED
  BY <1>0, <1>4, <1>5 DEF LocksReported

(***************************************************************************)
(* BranchTold, a part of LanesHold: a branch counts as fresh, and is left  *)
(* as it is, only if it has all of main or git cannot be asked.            *)
(***************************************************************************)
THEOREM FreshHasMain ==
    ASSUME NEW q, IsFiniteSet(q.main), q.git \in BOOLEAN,
           q.policy \in {"warn_only", "block", "auto_rebase", "auto_merge_forward"}
    PROVE  BranchTold(q)
<1>1. IsFiniteSet(q.main \ q.branch)
  BY FS_Difference
<1>2. Cardinality(q.main \ q.branch) = 0 <=> q.main \ q.branch = {}
  BY <1>1, FS_EmptySet
<1>3. (Freshness(q) = "fresh" /\ q.git) => q.main \subseteq q.branch
  BY <1>2 DEF Freshness, Behind
<1>4. Freshness(q) \in {"fresh", "diverged", "stale"}
  BY DEF Freshness
<1>5. (ApplyPolicy(Freshness(q), q.policy) = "noop") <=> (Freshness(q) = "fresh")
  BY <1>4 DEF ApplyPolicy
<1> QED
  BY <1>3, <1>5 DEF BranchTold

(***************************************************************************)
(* TestsHeld, a part of LanesHold: what is held back is a test of the      *)
(* workspace on a branch that lacks a commit of the ref that is named, and *)
(* no such test runs, for any branches and refs.                           *)
(***************************************************************************)
THEOREM TestsAreHeld ==
    ASSUME NEW q, NEW Word, q.command \in Seq(Word), q.git \in BOOLEAN, IsFiniteSet(q.branch),
           \A ref \in DOMAIN q.heads : IsFiniteSet(q.heads[ref])
    PROVE  TestsHeld(q)
<1> DEFINE refs == ResolveMainRef(q.name, DOMAIN q.heads)
           about == [git |-> q.git, branch |-> q.branch, main |-> q.heads[refs[1]]]
           held == WorkspaceTestBranchPreflight(q)
           Lacks(ref) == ref \in DOMAIN q.heads /\ ~(q.heads[ref] \subseteq q.branch)
<1>1. refs = <<>> \/ \E ref \in DOMAIN q.heads : refs = <<ref>>
  BY DEF ResolveMainRef
<1>2. ASSUME refs # <<>>
      PROVE  /\ refs[1] \in DOMAIN q.heads /\ Freshness(about) \in {"fresh", "diverged", "stale"}
             /\ Freshness(about) = "fresh" <=> ~q.git \/ q.heads[refs[1]] \subseteq q.branch
             /\ Freshness(about) # "fresh" => (Freshness(about) = "stale" <=> q.branch \subseteq q.heads[refs[1]])
  <2>1. PICK ref \in DOMAIN q.heads : refs = <<ref>>
    BY <1>1, <1>2
  <2>2. refs[1] = ref
    BY <2>1
  <2> HIDE DEF refs
  <2>3. IsFiniteSet(q.heads[ref] \ q.branch) /\ IsFiniteSet(q.branch \ q.heads[ref])
    BY FS_Difference
  <2>4. /\ Cardinality(q.heads[ref] \ q.branch) \in Nat /\ Cardinality(q.branch \ q.heads[ref]) \in Nat
        /\ Cardinality(q.heads[ref] \ q.branch) = 0 <=> q.heads[ref] \subseteq q.branch
        /\ Cardinality(q.branch \ q.heads[ref]) = 0 <=> q.branch \subseteq q.heads[ref]
    <3>1. \A S : IsFiniteSet(S) => Cardinality(S) \in Nat /\ (Cardinality(S) = 0 <=> S = {})
      BY FS_EmptySet, FS_CardinalityType
    <3>2. \A S, T : S \ T = {} <=> S \subseteq T
      OBVIOUS
    <3> QED
      BY <2>3, <3>1, <3>2
  <2>5. /\ Behind(about) = (IF q.git THEN Cardinality(q.heads[ref] \ q.branch) ELSE 0)
        /\ Ahead(about) = (IF q.git THEN Cardinality(q.branch \ q.heads[ref]) ELSE 0)
    BY <2>2 DEF Behind, Ahead
  <2> HIDE DEF about
  <2> QED
    BY <2>2, <2>4, <2>5 DEF Freshness
<1>3. held = IF ~IsWorkspaceTestCommand(q.command) \/ q.name = "detached" \/ refs = <<>> THEN <<>>
             ELSE IF Freshness(about) = "fresh" THEN <<>> ELSE <<refs[1], Freshness(about)>>
  BY DEF WorkspaceTestBranchPreflight
<1>4. ASSUME IsWorkspaceTestCommand(q.command) PROVE "cargo" \in ToSet(q.command)
  <2> DEFINE W == Word \cup WorkspaceWords \cup {"cargo", "test", "nextest", "run"}
  <2>1. PICK run \in {<<"cargo", "test">>, <<"cargo", "nextest", "run">>}, flag \in WorkspaceWords :
           \E i \in DOMAIN q.command : IsPrefix(Append(run, flag), SubSeq(q.command, i, Len(q.command)))
    BY <1>4 DEF IsWorkspaceTestCommand
  <2>2. PICK i \in DOMAIN q.command : IsPrefix(Append(run, flag), SubSeq(q.command, i, Len(q.command)))
    BY <2>1
  <2> DEFINE s == Append(run, flag)
             t == SubSeq(q.command, i, Len(q.command))
  <2>3. run \in Seq(W) /\ Len(run) \in {2, 3} /\ run[1] = "cargo"
    <3>1. CASE run = <<"cargo", "test">>
      BY <3>1
    <3>2. CASE run = <<"cargo", "nextest", "run">>
      BY <3>2
    <3> QED
      BY <3>1, <3>2
  <2>4. s \in Seq(W) /\ 1 \in 1..Len(s) /\ s[1] = "cargo"
    BY <2>3
  <2>5. q.command \in Seq(W)
    OBVIOUS
  <2>6. t \in Seq(W) /\ Len(t) = Len(q.command) - i + 1 /\ t[1] = q.command[i]
    BY <2>5
  <2>8. IsPrefix(s, t)
    BY <2>2
  <2> HIDE DEF s, t, W
  <2>7. s[1] = t[1]
    <3>1. \A k \in 1..Len(s) : s[k] = t[k]
      BY <2>4, <2>6, <2>8, PrefixIs
    <3> QED
      BY <2>4, <3>1
  <2> QED
    BY <2>4, <2>6, <2>7 DEF ToSet
<1>5. held # <<>> => /\ "cargo" \in ToSet(q.command) /\ Lacks(held[1])
                     /\ (held[2] = "stale") = (q.branch \subseteq q.heads[held[1]])
  <2> SUFFICES ASSUME held # <<>> PROVE /\ "cargo" \in ToSet(q.command) /\ Lacks(held[1])
                                        /\ (held[2] = "stale") = (q.branch \subseteq q.heads[held[1]])
    OBVIOUS
  <2> HIDE DEF held, refs, about
  <2>1. /\ IsWorkspaceTestCommand(q.command) /\ refs # <<>> /\ Freshness(about) # "fresh"
        /\ held = <<refs[1], Freshness(about)>>
    BY <1>3
  <2>2. held[1] = refs[1] /\ held[2] = Freshness(about)
    BY <2>1
  <2> QED
    BY <1>2, <1>4, <2>1, <2>2
<1>6. (/\ IsWorkspaceTestCommand(q.command) /\ q.git /\ q.name # "detached"
       /\ Lacks(IF q.name = "main" THEN "origin/main" ELSE "main")) => held # <<>>
  <2> SUFFICES ASSUME IsWorkspaceTestCommand(q.command), q.git, q.name # "detached",
                      Lacks(IF q.name = "main" THEN "origin/main" ELSE "main")
               PROVE  held # <<>>
    OBVIOUS
  <2>1. refs = <<IF q.name = "main" THEN "origin/main" ELSE "main">>
    BY DEF ResolveMainRef
  <2>2. refs # <<>> /\ Lacks(refs[1])
    BY <2>1
  <2> HIDE DEF refs, held, about
  <2>3. Freshness(about) # "fresh"
    BY <1>2, <2>2
  <2> QED
    BY <1>3, <2>2, <2>3
<1> QED
  BY <1>5, <1>6 DEF TestsHeld
-----------------------------------------------------------------------------
(***************************************************************************)
(* Requests.  Each attempt of a client and each provider of a chain has    *)
(* its share of requests, one for the stream and, where nothing may follow *)
(* but the whole answer, one for that, with their retries.                 *)
(***************************************************************************)
K == MaxRetries + 1
\* What may be spent of one attempt of the CLI's client or one provider.
Share == IF call.client = "agent" THEN 2 * K ELSE K
\* What was spent before the turn that is under way.
Before == (turn - 1) * Share
LastTurn == IF call.client = "agent" THEN ChainLen ELSE IF call.post THEN 2 ELSE 1
Waiting == {"idle", "done", "failed"}
PostsInv ==
    /\ posts \in Nat /\ tries \in Nat /\ turn \in Nat
    /\ call.client \in {"cli", "agent"}
    /\ pc \in Waiting \cup {"preflight", "send", "events", "exhausted", "fatal", "lookup", "preflight2", "send2"}
    /\ RequestsBounded
    /\ pc \notin Waiting => turn \in 1..LastTurn
    /\ pc = "preflight" => posts <= Before
    /\ pc = "send" => tries <= MaxRetries /\ posts <= Before + tries
    /\ pc \in {"events", "lookup", "preflight2"} => posts <= Before + K
    /\ pc = "send2" => tries <= MaxRetries /\ posts <= Before + K + tries
    /\ pc \in {"exhausted", "fatal"} => posts <= Before + 2 * K

LEMMA Shares ==
    ASSUME PostsInv, pc \notin Waiting
    PROVE  /\ K \in Nat /\ K >= 1 /\ Share \in Nat /\ Before \in Nat
           /\ Before + 2 * K <= K * (IF call.client = "agent" THEN 2 * ChainLen ELSE IF call.post THEN 3 ELSE 2)
           /\ call.client = "cli" /\ turn = 1 => Before = 0
<1>1. K \in Nat /\ K >= 1 /\ ChainLen \in Nat \ {0} /\ turn \in 1..LastTurn
  BY StreamBounds DEF K, PostsInv
<1>2. CASE call.client = "agent"
  <2>1. turn \in 1..ChainLen /\ Share = 2 * K /\ Before = (turn - 1) * (2 * K)
    BY <1>1, <1>2 DEF LastTurn, Share, Before
  <2>2. PICK rest \in Nat : ChainLen = turn + rest
    <3>1. ChainLen - turn \in Nat /\ ChainLen = turn + (ChainLen - turn)
      BY <1>1, <2>1
    <3> QED
      BY <3>1
  <2>3. K * (2 * ChainLen) = (turn - 1) * (2 * K) + 2 * K + rest * (2 * K)
    BY <1>1, <2>1, <2>2
  <2>4. rest * (2 * K) \in Nat /\ (turn - 1) * (2 * K) \in Nat
    BY <1>1, <2>1, <2>2
  <2> QED
    BY <1>1, <1>2, <2>1, <2>3, <2>4
<1>3. CASE call.client # "agent"
  <2>1. Share = K /\ turn \in {1, 2} /\ (turn = 2 => call.post)
    BY <1>1, <1>3 DEF LastTurn, Share
  <2>2. CASE turn = 1
    BY <1>1, <1>3, <2>1, <2>2 DEF Before
  <2>3. CASE turn = 2
    BY <1>1, <1>3, <2>1, <2>3 DEF Before
  <2> QED
    BY <2>1, <2>2, <2>3
<1> QED
  BY <1>2, <1>3

\* A step that stays in its turn and spends nothing.
LEMMA SpendsNothing ==
    ASSUME PostsInv, UNCHANGED <<posts, turn, call>>, tries' \in Nat, pc \notin Waiting,
           \/ pc' \in {"done", "failed"}
           \/ pc = "preflight" /\ pc' = "send" /\ tries' = 0
           \/ pc = "preflight2" /\ pc' = "send2" /\ tries' = 0
           \/ pc \in {"events", "lookup"} /\ pc' \in {"events", "lookup", "preflight2", "exhausted", "fatal"}
    PROVE  PostsInv'
<1>1. /\ K \in Nat /\ K >= 1 /\ Before \in Nat
      /\ Before + 2 * K <= K * (IF call.client = "agent" THEN 2 * ChainLen ELSE IF call.post THEN 3 ELSE 2)
  BY Shares
<1>2. K' = K /\ Before' = Before /\ LastTurn' = LastTurn
  BY DEF K, Share, Before, LastTurn
<1>3. /\ posts \in Nat /\ RequestsBounded' /\ MaxRetries \in Nat
      /\ turn \in Nat /\ turn \in 1..LastTurn /\ call.client \in {"cli", "agent"}
  BY StreamBounds DEF PostsInv, RequestsBounded
<1>4. /\ pc = "preflight" => posts <= Before
      /\ pc \in {"events", "lookup", "preflight2"} => posts <= Before + K
  BY DEF PostsInv
<1>5. /\ posts <= Before => posts <= Before + 0
      /\ posts <= Before + K => posts <= Before + K + 0 /\ posts <= Before + 2 * K
  BY <1>1, <1>3
<1>6. /\ pc' = "send" => tries' = 0 /\ posts' <= Before' + tries'
      /\ pc' = "send2" => tries' = 0 /\ posts' <= Before' + K' + tries'
      /\ pc' \in {"events", "lookup", "preflight2"} => posts' <= Before' + K'
      /\ pc' \in {"exhausted", "fatal"} => posts' <= Before' + 2 * K'
      /\ pc' # "preflight"
      /\ pc' \in Waiting \cup {"preflight", "send", "events", "exhausted", "fatal", "lookup", "preflight2", "send2"}
  BY <1>2, <1>4, <1>5 DEF Waiting
<1> QED
  BY <1>2, <1>3, <1>6 DEF PostsInv
\* A request is sent in its turn.
LEMMA SpendsOne ==
    ASSUME PostsInv, pc \in {"send", "send2"}, posts' = posts + 1, tries' = tries + 1, UNCHANGED <<turn, call>>,
           \/ pc' = pc /\ tries' <= MaxRetries
           \/ pc' \in {"exhausted", "fatal", "done"}
           \/ pc = "send" /\ pc' = "events"
    PROVE  PostsInv'
<1>1. /\ K \in Nat /\ K >= 1 /\ Before \in Nat
      /\ Before + 2 * K <= K * (IF call.client = "agent" THEN 2 * ChainLen ELSE IF call.post THEN 3 ELSE 2)
  BY Shares DEF Waiting
<1>2. K' = K /\ Before' = Before /\ LastTurn' = LastTurn /\ MaxRetries + 1 = K
  BY DEF K, Share, Before, LastTurn
<1>3. /\ posts \in Nat /\ tries \in Nat /\ MaxRetries \in Nat
      /\ turn \in Nat /\ turn \in 1..LastTurn /\ call.client \in {"cli", "agent"}
  BY StreamBounds DEF PostsInv, Waiting
<1>4. tries <= MaxRetries /\ posts <= (IF pc = "send" THEN Before + tries ELSE Before + K + tries)
  BY DEF PostsInv
<1>5. posts' \in Nat /\ tries' \in Nat /\ tries' <= K /\ posts' <= Before + 2 * K
      /\ (pc = "send" => posts' <= Before + K /\ posts' <= Before + tries')
      /\ (pc = "send2" => posts' <= Before + K + tries')
  BY <1>1, <1>2, <1>3, <1>4
<1>6. RequestsBounded'
  <2>1. PICK most : most = K * (IF call.client = "agent" THEN 2 * ChainLen ELSE IF call.post THEN 3 ELSE 2)
    OBVIOUS
  <2>2. most \in Nat
    BY <1>1, <1>3, <2>1, StreamBounds
  <2>3. posts' <= most
    BY <1>1, <1>5, <2>1, <2>2
  <2> QED
    BY <2>1, <2>3 DEF RequestsBounded, K
<1> QED
  BY <1>1, <1>2, <1>3, <1>5, <1>6 DEF PostsInv, Waiting
\* The next turn begins.
LEMMA NextTurn ==
    ASSUME PostsInv, pc \notin Waiting, turn' = turn + 1, pc' = "preflight", UNCHANGED <<posts, call, tries>>,
           turn + 1 <= LastTurn, posts <= Before + Share
    PROVE  PostsInv'
<1>1. K \in Nat /\ Share \in Nat /\ Before \in Nat /\ turn \in 1..LastTurn
  BY Shares DEF PostsInv
<1>2. K' = K /\ Share' = Share /\ LastTurn' = LastTurn
  BY DEF K, Share, LastTurn
<1>3. LastTurn \in Nat
  BY StreamBounds DEF LastTurn
<1>4. Before' = Before + Share
  <2>1. \A n \in Nat, share \in Nat : ((n + 1) - 1) * share = (n - 1) * share + share
    OBVIOUS
  <2> QED
    BY <1>1, <1>2, <2>1 DEF Before
<1>5. RequestsBounded'
  BY DEF PostsInv, RequestsBounded
<1> QED
  BY <1>1, <1>2, <1>3, <1>4, <1>5 DEF PostsInv, Waiting

LEMMA PostsStep == ASSUME PostsInv, [Next]_vars PROVE PostsInv'
<1>0. /\ posts \in Nat /\ tries \in Nat /\ turn \in Nat /\ call.client \in {"cli", "agent"}
      /\ pc \notin Waiting => turn \in 1..LastTurn
      /\ K \in Nat /\ K >= 1 /\ MaxRetries \in Nat /\ MaxRetries + 1 = K
  BY StreamBounds DEF PostsInv, K
<1>1. CASE \E client \in {"cli", "agent"}, k \in Key : Stream(client, k)
  <2>1. PICK client \in {"cli", "agent"}, k \in Key : Stream(client, k)
    BY <1>1
  <2>2. call'.client \in {"cli", "agent"} /\ posts' = 0 /\ tries' = 0 /\ turn' = 1 /\ pc' = "preflight"
    BY <2>1 DEF Stream
  <2>3. LastTurn' \in Nat /\ LastTurn' >= 1
    BY <2>2, StreamBounds DEF LastTurn
  <2>4. Before' = 0
    <3>1. Share' \in Nat
      BY <1>0, StreamBounds DEF Share, K
    <3>2. \A n \in Nat : (1 - 1) * n = 0
      OBVIOUS
    <3> QED
      BY <2>2, <3>1, <3>2 DEF Before
  <2>5. RequestsBounded'
    BY <2>2, StreamBounds DEF RequestsBounded
  <2> QED
    BY <2>2, <2>3, <2>4, <2>5 DEF PostsInv, Waiting
<1>2. CASE Preflight
  BY <1>2, SpendsNothing DEF Preflight, Fails, Keep, Waiting
<1>3. CASE SendError
  <2>1. /\ pc \in {"send", "send2"} /\ tries' = tries + 1 /\ posts' = posts + 1 /\ UNCHANGED <<turn, call>>
        /\ pc' \in {IF tries' > MaxRetries THEN "exhausted" ELSE pc, "fatal"}
    BY <1>3 DEF SendError, Post, Keep
  <2>2. ~(tries' > MaxRetries) => tries' <= MaxRetries
    BY <1>0, <2>1
  <2> QED
    BY <2>1, <2>2, SpendsOne
<1>4. CASE SendFails
  <2>1. pc \in {"exhausted", "fatal"} /\ UNCHANGED <<tries, posts, call>> /\ posts <= Before + 2 * K
    BY <1>4 DEF SendFails, Keep, PostsInv
  <2>2. CASE call.client = "agent" /\ pc = "exhausted" /\ turn < ChainLen
    <3>1. turn' = turn + 1 /\ pc' = "preflight"
      BY <1>4, <2>2 DEF SendFails
    <3>2. Share = 2 * K /\ LastTurn = ChainLen /\ turn + 1 <= LastTurn
      BY <1>0, <2>2, StreamBounds DEF Share, LastTurn
    <3> QED
      BY <2>1, <3>1, <3>2, NextTurn DEF Waiting
  <2>3. CASE ~(call.client = "agent" /\ pc = "exhausted" /\ turn < ChainLen)
    <3>1. pc' = "failed" /\ turn' = turn
      BY <1>4, <2>3 DEF SendFails, Fails
    <3> QED
      BY <1>0, <2>1, <3>1, SpendsNothing DEF Waiting
  <2> QED
    BY <2>2, <2>3
<1>5. CASE SendOk
  BY <1>5, SpendsOne DEF SendOk, Post
<1>6. CASE Event
  <2>1. pc = "events" /\ UNCHANGED <<call, pc, turn, tries, posts>>
    BY <1>6 DEF Event
  <2> QED
    BY <1>0, <2>1, SpendsNothing DEF Waiting
<1>7. CASE Chunk
  <2>1. pc = "events" /\ UNCHANGED <<call, pc, turn, tries, posts>>
    BY <1>7 DEF Chunk, history
  <2> QED
    BY <1>0, <2>1, SpendsNothing DEF Waiting
<1>8. CASE StreamError
  BY <1>0, <1>8, SpendsNothing DEF StreamError, Keep, Waiting
<1>9. CASE Stall
  <2>1. /\ pc = "events" /\ call.client = "cli" /\ call.post /\ turn = 1 /\ turn' = 2 /\ pc' = "preflight"
        /\ UNCHANGED <<tries, posts, call>>
    BY <1>9 DEF Stall, Keep
  <2>2. Share = K /\ LastTurn = 2 /\ posts <= Before + K
    BY <2>1 DEF Share, LastTurn, PostsInv
  <2> QED
    BY <2>1, <2>2, NextTurn DEF Waiting
<1>10. CASE Eof
  <2>1. pc = "events" /\ pc' \in {"done", "lookup"} /\ UNCHANGED <<turn, tries, posts, call>>
    BY <1>10 DEF Eof, Keep
  <2> QED
    BY <1>0, <2>1, SpendsNothing DEF Waiting
<1>11. CASE Lookup
  <2>1. pc = "lookup" /\ pc' \in {"done", "preflight2"} /\ UNCHANGED <<turn, tries, posts, call>>
    BY <1>11 DEF Lookup, history
  <2> QED
    BY <1>0, <2>1, SpendsNothing DEF Waiting
<1>12. CASE SendOk2
  BY <1>12, SpendsOne DEF SendOk2, Post
<1>13. CASE Return
  <2>1. pc' = "idle" /\ UNCHANGED <<call, turn, tries, posts>>
    BY <1>13 DEF Return, history
  <2>2. RequestsBounded'
    BY <2>1 DEF PostsInv, RequestsBounded
  <2> QED
    BY <1>0, <2>1, <2>2 DEF PostsInv, Waiting
<1>14. CASE UNCHANGED vars
  <2>1. UNCHANGED <<call, pc, turn, tries, posts>>
    BY <1>14 DEF vars
  <2> QED
    BY <2>1 DEF PostsInv, RequestsBounded, LastTurn, Before, Share, K
<1> QED
  BY <1>1, <1>2, <1>3, <1>4, <1>5, <1>6, <1>7, <1>8, <1>9, <1>10, <1>11, <1>12, <1>13, <1>14 DEF Next

\* However attempts, nudges, providers and the second request combine, a call of the
\* model sends a bounded number of requests, for every number of retries and providers.
THEOREM RequestsAreBounded == Spec => []RequestsBounded
<1>1. Init => PostsInv
  <2> SUFFICES ASSUME Init PROVE PostsInv
    OBVIOUS
  <2>1. posts = 0 /\ tries = 0 /\ turn = 0 /\ pc = "idle" /\ call.client = "cli" /\ ~call.post
    BY DEF Init, NoCall
  <2>2. RequestsBounded
    BY <2>1, StreamBounds DEF RequestsBounded
  <2> QED
    BY <2>1, <2>2 DEF PostsInv, Waiting
<1>2. PostsInv => RequestsBounded
  BY DEF PostsInv
<1> QED
  BY <1>1, <1>2, PostsStep, PTL DEF Spec

(***************************************************************************)
(* Answers.  An answer is numbered when it is given and is ever after the  *)
(* answer to that request; the completion cache keeps it under the key of  *)
(* that request; what a client holds is a given answer from the moment its *)
(* events begin.  A client notes the prompt cache with the last event of   *)
(* an answer, after which it neither reads on nor takes it for stalled.    *)
(***************************************************************************)
AnswerInv ==
    /\ answers \in Nat /\ keyOf \in Seq(Key) /\ Len(keyOf) = answers
    /\ {"n", "kind", "over"} \subseteq DOMAIN srv /\ cache \in [Key -> Nat]
    /\ call.client \in {"cli", "agent"} /\ (pc # "idle" => call.key \in Key)
    /\ \A k \in Key : cache[k] # 0 => cache[k] \in 1..answers /\ keyOf[cache[k]] = k
    /\ pc \in {"events", "done"} => srv.n \in 1..answers /\ keyOf[srv.n] = call.key
    /\ pc \in {"preflight", "send", "lookup", "preflight2", "send2", "done"} \/ call.client = "agent" => noted = 0
    /\ pc = "events" =>
          /\ srv.kind = "anthropic" => "got" \in DOMAIN st
          /\ call.client = "cli" => srv.kind = "anthropic"
          /\ noted # 0 => noted = srv.n /\ srv.over /\ st.got

\* An answer that is given leaves those before it what they were.
LEMMA AnswerGiven ==
    ASSUME AnswerInv, pc # "idle", NEW kind, NEW plan, Answered(kind, plan)
    PROVE  /\ answers' \in Nat /\ keyOf' \in Seq(Key) /\ Len(keyOf') = answers' /\ answers' = answers + 1
           /\ {"n", "kind", "over"} \subseteq DOMAIN srv' /\ srv'.kind = kind /\ srv'.n \in 1..answers' /\ keyOf'[srv'.n] = call.key
           /\ \A i \in 1..answers : i \in 1..answers' /\ keyOf'[i] = keyOf[i]
<1>1. call.key \in Key /\ answers \in Nat /\ keyOf \in Seq(Key) /\ Len(keyOf) = answers
  BY DEF AnswerInv
<1>2. answers' = answers + 1 /\ keyOf' = Append(keyOf, call.key)
  BY DEF Answered
<1>3. {"n", "kind", "over"} \subseteq DOMAIN srv' /\ srv'.kind = kind /\ srv'.n = answers'
  BY DEF Answered, NoAnswer
<1>4. keyOf' \in Seq(Key) /\ Len(keyOf') = answers' /\ answers' \in Nat
  BY <1>1, <1>2
<1>5. \A i \in 1..answers : keyOf'[i] = keyOf[i]
  BY <1>1, <1>2
<1>6. keyOf'[answers'] = call.key
  BY <1>1, <1>2
<1> QED
  BY <1>1, <1>2, <1>3, <1>4, <1>5, <1>6

LEMMA AnswerStep == ASSUME AnswerInv, [Next]_vars PROVE AnswerInv'
<1> USE DEF AnswerInv
<1>1. ASSUME NEW client \in {"cli", "agent"}, NEW k \in Key, Stream(client, k) PROVE AnswerInv'
  <2>1. call'.client = client /\ call'.key = k /\ pc' = "preflight" /\ noted' = 0 /\ srv' = NoAnswer /\ UNCHANGED <<cache, answers, keyOf>>
    BY <1>1 DEF Stream
  <2>2. {"n", "kind", "over"} \subseteq DOMAIN NoAnswer
    BY DEF NoAnswer
  <2> QED
    BY <2>1, <2>2
<1>2. CASE Preflight
  BY <1>2 DEF Preflight, Fails, Keep
<1>3. CASE SendError
  BY <1>3 DEF SendError, Keep
<1>4. CASE SendFails
  BY <1>4 DEF SendFails, Fails, Keep, NoAnswer
<1>5. CASE SendOk
  <2>1. PICK kind \in {"anthropic", "openai"}, plan \in Plan :
           (call.client = "cli" => kind = "anthropic") /\ Answered(kind, plan)
    BY <1>5 DEF SendOk
  <2>2. pc = "send" /\ pc' = "events" /\ st' = FreshSt /\ UNCHANGED <<call, cache, noted>>
    BY <1>5 DEF SendOk
  <2>3. "got" \in DOMAIN FreshSt
    BY DEF FreshSt
  <2>4. /\ answers' \in Nat /\ keyOf' \in Seq(Key) /\ Len(keyOf') = answers'
        /\ {"n", "kind", "over"} \subseteq DOMAIN srv' /\ srv'.kind = kind
        /\ srv'.n \in 1..answers' /\ keyOf'[srv'.n] = call.key
        /\ \A i \in 1..answers : i \in 1..answers' /\ keyOf'[i] = keyOf[i]
    BY <2>1, <2>2, AnswerGiven
  <2> QED
    BY <2>1, <2>2, <2>3, <2>4
<1>6. CASE Event
  <2>1. /\ pc = "events" /\ srv.kind = "anthropic" /\ ~srv.over
        /\ UNCHANGED <<call, pc, cache, answers, keyOf>>
    BY <1>6 DEF Event
  <2>2. PICK e, block, at :
           /\ srv' = [srv EXCEPT !.block = block, !.at = at, !.over = e.k = "end"] /\ st' = Feed(call.client, st, e)
           /\ \E blank \in BOOLEAN : Observe(e.k = "end" /\ blank)
    BY <1>6 DEF Event
  <2>3. /\ {"n", "kind", "over"} \subseteq DOMAIN srv' /\ srv'.n = srv.n /\ srv'.kind = srv.kind
        /\ srv'.over = (e.k = "end")
    BY <2>2
  <2>4. "got" \in DOMAIN st' /\ (e.k = "end" => st'.got)
    <3>1. "got" \in DOMAIN st
      BY <2>1
    <3>2. PICK g : g = [st EXCEPT !.got = TRUE]
      OBVIOUS
    <3>3. "got" \in DOMAIN g /\ g.got
      BY <3>1, <3>2
    <3>4. "got" \in DOMAIN FeedSlot(g, e) /\ "got" \in DOMAIN FeedByIndex(g, e)
      BY <3>3 DEF FeedSlot, FeedByIndex
    <3> QED
      BY <2>2, <3>2, <3>3, <3>4 DEF Feed
  <2>5. noted = 0
    BY <2>1
  <2>6. noted' = 0 \/ (noted' = srv.n /\ e.k = "end" /\ call.client = "cli")
    BY <2>2, <2>5 DEF Observe
  <2> QED
    BY <2>1, <2>3, <2>4, <2>6
<1>7. CASE Chunk
  <2>1. pc = "events" /\ srv.kind = "openai" /\ UNCHANGED <<call, pc, noted, cache, answers, keyOf>>
    BY <1>7 DEF Chunk, history
  <2>2. {"n", "kind", "over"} \subseteq DOMAIN srv' /\ srv'.n = srv.n /\ srv'.kind = srv.kind
    BY <1>7 DEF Chunk
  <2>3. noted = 0
    BY <2>1
  <2> QED
    BY <2>1, <2>2, <2>3
<1>8. CASE StreamError
  BY <1>8 DEF StreamError, Keep
<1>9. CASE Stall
  BY <1>9 DEF Stall, Keep, NoAnswer
<1>10. CASE Eof
  <2>1. pc = "events" /\ pc' \in {"done", "lookup"} /\ noted' = 0 /\ UNCHANGED <<srv, call, cache, answers, keyOf>>
    BY <1>10 DEF Eof, Keep
  <2> QED
    BY <2>1
<1>11. CASE Lookup
  <2>1. pc = "lookup" /\ UNCHANGED <<call, noted, answers, keyOf>> /\ call.key \in Key
    BY <1>11 DEF Lookup, history
  <2>2. CASE /\ cache[call.key] # 0 /\ srv' = [NoAnswer EXCEPT !.n = cache[call.key], !.over = TRUE]
             /\ pc' = "done" /\ UNCHANGED cache
    <3>1. {"n", "kind", "over"} \subseteq DOMAIN srv' /\ srv'.n = cache[call.key]
      BY <2>2 DEF NoAnswer
    <3> QED
      BY <2>1, <2>2, <3>1
  <2>3. CASE pc' = "preflight2" /\ UNCHANGED srv /\ cache' \in {cache, [cache EXCEPT ![call.key] = 0]}
    <3>1. cache' \in [Key -> Nat] /\ \A k \in Key : cache'[k] \in {0, cache[k]}
      BY <2>3
    <3> QED
      BY <2>1, <2>3, <3>1
  <2> QED
    BY <1>11, <2>2, <2>3 DEF Lookup
<1>12. CASE SendOk2
  <2>1. /\ pc = "send2" /\ pc' = "done" /\ UNCHANGED <<call, noted>>
        /\ cache' = IF call.client = "cli" THEN [cache EXCEPT ![call.key] = answers'] ELSE cache
        /\ \E plan : Answered(srv.kind, plan)
    BY <1>12 DEF SendOk2
  <2>2. /\ answers' \in Nat /\ keyOf' \in Seq(Key) /\ Len(keyOf') = answers' /\ answers' = answers + 1
        /\ {"n", "kind", "over"} \subseteq DOMAIN srv' /\ srv'.n \in 1..answers' /\ keyOf'[srv'.n] = call.key
        /\ \A i \in 1..answers : i \in 1..answers' /\ keyOf'[i] = keyOf[i]
    BY <2>1, AnswerGiven
  <2>3. srv'.n = answers'
    BY <2>1 DEF Answered, NoAnswer
  <2>4. cache' \in [Key -> Nat]
    BY <2>1, <2>2
  <2>5. ASSUME NEW k \in Key, cache'[k] # 0 PROVE cache'[k] \in 1..answers' /\ keyOf'[cache'[k]] = k
    <3>1. CASE cache'[k] = cache[k]
      BY <2>2, <2>5, <3>1
    <3>2. CASE cache'[k] # cache[k]
      <4>1. k = call.key /\ cache'[k] = answers'
        BY <2>1, <3>2
      <4> QED
        BY <2>2, <2>3, <4>1
    <3> QED
      BY <3>1, <3>2
  <2> QED
    BY <2>1, <2>2, <2>4, <2>5
<1>13. CASE Return
  BY <1>13 DEF Return, history
<1>14. CASE UNCHANGED vars
  BY <1>14 DEF vars
<1> QED
  BY <1>1, <1>2, <1>3, <1>4, <1>5, <1>6, <1>7, <1>8, <1>9, <1>10, <1>11, <1>12, <1>13, <1>14 DEF Next

(***************************************************************************)
(* OwnAnswer, a part of StreamKept: what a call returns is one answer that *)
(* was given to its own request, whether streamed, asked for again or out  *)
(* of the completion cache, for any number of requests and conversations.  *)
(***************************************************************************)
THEOREM AnswersAreOwn == Spec => []OwnAnswer
<1>1. Init => AnswerInv
  BY DEF Init, AnswerInv, NoAnswer, NoCall
<1>2. AnswerInv => OwnAnswer
  BY DEF AnswerInv, OwnAnswer
<1> QED
  BY <1>1, <1>2, AnswerStep, PTL DEF Spec
-----------------------------------------------------------------------------
(***************************************************************************)
(* What an answer says.  Anthropic sends one block after another, so what  *)
(* the turn has got is the beginning of the whole answer, as long as the   *)
(* blocks that are over.  Of OpenAI's tool calls some have begun and some  *)
(* are closed; what has come of each is what the adaptor has sent of it,   *)
(* and only what is closed is handed on.                                   *)
(***************************************************************************)
TextEv == [k |-> "text", t |-> 0, n |-> 0]
ToolEv(t, n) == [k |-> "tool", t |-> t, n |-> n]
OutEv == [k : {"text", "tool"}, t : 0..MaxTools, n : Nat]
Assembled == [out : Seq(OutEv), pend : [Tool -> Int], slot : 0..MaxTools, stop : BOOLEAN, got : BOOLEAN]
Served == [n : Nat, kind : {"anthropic", "openai"}, plan : Plan, block : Nat, at : Nat,
           parts : [Tool -> 0..Parts], said : BOOLEAN, over : BOOLEAN]
Adaptor == [text : BOOLEAN, reason : BOOLEAN,
            tool : [Tool -> [name : BOOLEAN, args : Nat, emitted : Nat, started : BOOLEAN, stopped : BOOLEAN]]]
StreamTypes == srv \in Served /\ ad \in Adaptor /\ st \in Assembled /\ call.client \in {"cli", "agent"}

\* How many of the events for the turn are in the blocks, and the events, that were sent.
Texts(plan) == IF plan.text THEN 1 ELSE 0
Delivered(plan, block, at) ==
    IF block = 0 THEN IF at >= 2 THEN 1 ELSE 0
    ELSE Texts(plan) + (IF block <= plan.tools THEN block - 1 ELSE plan.tools)
\* What a client has of the call whose block is sent, and between the blocks.
Holding(client, s, t, n) ==
    IF client = "cli" THEN s.slot = t /\ s.pend[t] = n
    ELSE \A u \in Tool : s.pend[u] = IF u = t THEN n ELSE -1
Free(client, s) == IF client = "cli" THEN s.slot = 0 ELSE \A u \in Tool : s.pend[u] = -1
Sending(client, s, plan, block, at, over) ==
    LET much == Delivered(plan, block, at)
    IN  /\ IF over THEN block = plan.tools + 2 /\ at = 0
           ELSE block <= plan.tools + 1 /\ at < Len(Script(plan, block))
        /\ Len(s.out) = much /\ \A i \in 1..much : s.out[i] = Whole(plan).out[i]
        /\ IF block \in 1..plan.tools /\ at >= 1 THEN Holding(client, s, block, at - 1) ELSE Free(client, s)
OneByOne == Sending(call.client, st, srv.plan, srv.block, srv.at, srv.over)

\* What is closed has been handed on, each once, with all that has come of it.
HandedOn(out, said, come, closed) ==
    /\ IsInjective(out)
    /\ \A i \in DOMAIN out : \/ said /\ out[i] = TextEv
                             \/ \E t \in closed : out[i] = ToolEv(t, come[t])
    /\ said => \E i \in DOMAIN out : out[i] = TextEv
    /\ \A t \in closed : \E i \in DOMAIN out : out[i] = ToolEv(t, come[t])
Gathered(s, said, come, begun, closed) ==
    /\ s \in Assembled /\ begun \cap closed = {}
    /\ \A t \in Tool : s.pend[t] = IF t \in begun THEN come[t] ELSE -1
    /\ HandedOn(s.out, said, come, closed)
Come(a) == [t \in Tool |-> a.tool[t].emitted]
Begun(a) == {t \in Tool : a.tool[t].started /\ ~a.tool[t].stopped}
Closed(a) == {t \in Tool : a.tool[t].stopped}
\* A call is begun when its name has come, and then all that came of it is sent.
Caught(c) == (c.started <=> c.name) /\ (c.stopped => c.started) /\ c.emitted = IF c.started THEN c.args ELSE 0
InPieces ==
    /\ call.client = "agent" /\ ad.text = srv.said /\ (srv.said => srv.plan.text)
    /\ ~st.got => ~srv.over /\ st.out = <<>>
    /\ Gathered(st, srv.said, Come(ad), Begun(ad), Closed(ad))
    /\ \A t \in Tool : LET c == ad.tool[t]
                       IN  /\ Caught(c) /\ c.args = srv.parts[t] /\ (c.stopped => srv.over)
                           /\ c.args = Parts => c.name
                           /\ t > srv.plan.tools => c.args = 0 /\ ~c.name
                           /\ srv.over /\ t <= srv.plan.tools => c.stopped /\ c.args = Parts
    /\ srv.over /\ srv.plan.text => srv.said
\* The last three parts of StreamFaithful.
Faithful ==
    /\ srv.kind = "anthropic" => IsPrefix(st.out, Whole(srv.plan).out)
    /\ IsInjective(st.out)
    /\ \A i \in DOMAIN st.out : st.out[i].n <= Parts
    /\ srv.over => ToSet(st.out) = ToSet(Whole(srv.plan).out)
SaysInv ==
    /\ StreamTypes
    /\ pc = "events" /\ srv.kind = "anthropic" => OneByOne
    /\ pc = "events" /\ srv.kind = "openai" => InPieces
    /\ pc = "done" => Faithful
LEMMA FeedNone == ASSUME NEW client, NEW s PROVE FeedAll(client, s, <<>>) = s
<1> DEFINE f == [n \in 0..0 |-> s]
           g == [n \in 0..Len(<<>>) |-> IF n = 0 THEN s ELSE Feed(client, f[n - 1], <<>>[n])]
           After == CHOOSE h : h = [n \in 0..Len(<<>>) |-> IF n = 0 THEN s ELSE Feed(client, h[n - 1], <<>>[n])]
<1>1. \E h : h = [n \in 0..Len(<<>>) |-> IF n = 0 THEN s ELSE Feed(client, h[n - 1], <<>>[n])]
  <2>1. f = g
    OBVIOUS
  <2> HIDE DEF f
  <2> QED
    BY <2>1
<1>2. After = [n \in 0..Len(<<>>) |-> IF n = 0 THEN s ELSE Feed(client, After[n - 1], <<>>[n])]
  BY <1>1
<1>3. FeedAll(client, s, <<>>) = After[Len(<<>>)]
  BY DEF FeedAll
<1> HIDE DEF After
<1> QED
  BY <1>2, <1>3

LEMMA FeedOne == ASSUME NEW client, NEW s, NEW e PROVE FeedAll(client, s, <<e>>) = Feed(client, s, e)
<1> DEFINE f == [n \in 0..1 |-> IF n = 0 THEN s ELSE Feed(client, s, e)]
           g == [n \in 0..Len(<<e>>) |-> IF n = 0 THEN s ELSE Feed(client, f[n - 1], <<e>>[n])]
           After == CHOOSE h : h = [n \in 0..Len(<<e>>) |-> IF n = 0 THEN s ELSE Feed(client, h[n - 1], <<e>>[n])]
<1>0. Len(<<e>>) = 1 /\ <<e>>[1] = e /\ 0..1 = {0, 1}
  OBVIOUS
<1>1. \E h : h = [n \in 0..Len(<<e>>) |-> IF n = 0 THEN s ELSE Feed(client, h[n - 1], <<e>>[n])]
  <2>1. DOMAIN g = 0..1 /\ \A n \in 0..1 : f[n] = g[n]
    BY <1>0
  <2>2. f = g
    BY <2>1
  <2> HIDE DEF f
  <2> QED
    BY <2>2
<1>2. After = [n \in 0..Len(<<e>>) |-> IF n = 0 THEN s ELSE Feed(client, After[n - 1], <<e>>[n])]
  BY <1>1
<1>3. FeedAll(client, s, <<e>>) = After[Len(<<e>>)]
  BY DEF FeedAll
<1> HIDE DEF After
<1>4. After[0] = s
  BY <1>0, <1>2
<1>5. After[1] = Feed(client, After[0], e)
  BY <1>0, <1>2
<1> QED
  BY <1>0, <1>3, <1>4, <1>5

LEMMA FeedTwo ==
    ASSUME NEW client, NEW s, NEW d, NEW e PROVE FeedAll(client, s, <<d, e>>) = Feed(client, Feed(client, s, d), e)
<1> DEFINE es == <<d, e>>
           f == [n \in 0..2 |-> IF n = 0 THEN s ELSE IF n = 1 THEN Feed(client, s, d) ELSE Feed(client, Feed(client, s, d), e)]
           g == [n \in 0..Len(es) |-> IF n = 0 THEN s ELSE Feed(client, f[n - 1], es[n])]
           After == CHOOSE h : h = [n \in 0..Len(es) |-> IF n = 0 THEN s ELSE Feed(client, h[n - 1], es[n])]
<1>0. Len(es) = 2 /\ es[1] = d /\ es[2] = e /\ 0..2 = {0, 1, 2}
  OBVIOUS
<1>1. \E h : h = [n \in 0..Len(es) |-> IF n = 0 THEN s ELSE Feed(client, h[n - 1], es[n])]
  <2>0. f[0] = s /\ f[1] = Feed(client, s, d) /\ f[2] = Feed(client, Feed(client, s, d), e)
    OBVIOUS
  <2>1. DOMAIN g = 0..2 /\ g[0] = s /\ g[1] = Feed(client, f[0], d) /\ g[2] = Feed(client, f[1], e)
    BY <1>0
  <2>2. f = g
    <3>1. DOMAIN f = DOMAIN g /\ \A n \in DOMAIN f : f[n] = g[n]
      BY <1>0, <2>0, <2>1
    <3>2. f = [n \in DOMAIN f |-> f[n]] /\ g = [n \in DOMAIN g |-> g[n]]
      OBVIOUS
    <3> HIDE DEF f, g
    <3> QED
      BY <3>1, <3>2
  <2> HIDE DEF f
  <2> QED
    BY <2>2
<1>2. After = [n \in 0..Len(es) |-> IF n = 0 THEN s ELSE Feed(client, After[n - 1], es[n])]
  BY <1>1
<1>3. FeedAll(client, s, es) = After[Len(es)]
  BY DEF FeedAll
<1> HIDE DEF After, es
<1>4. After[0] = s
  BY <1>0, <1>2
<1>5. After[1] = Feed(client, After[0], d)
  BY <1>0, <1>2
<1>6. After[2] = Feed(client, After[1], e)
  BY <1>0, <1>2
<1>7. FeedAll(client, s, es) = Feed(client, Feed(client, s, d), e)
  BY <1>0, <1>3, <1>4, <1>5, <1>6
<1> QED
  BY <1>7 DEF es

\* The events of the tool calls are fed call by call.
LEMMA FeedEachIs ==
    ASSUME NEW client, NEW s, NEW es
    PROVE  \E f : /\ f[0] = s /\ \A t \in Tool : f[t] = FeedAll(client, f[t - 1], es[t])
                  /\ FeedEach(client, s, es) = f[MaxTools]
<1> DEFINE Part(f, m) == f = [t \in 0..m |-> IF t = 0 THEN s ELSE FeedAll(client, f[t - 1], es[t])]
           S == {m \in Nat : \E f : Part(f, m)}
           After == CHOOSE f : Part(f, MaxTools)
<1>1. 0 \in S
  <2> DEFINE f == [t \in 0..0 |-> s]
             g == [t \in 0..0 |-> IF t = 0 THEN s ELSE FeedAll(client, f[t - 1], es[t])]
  <2>1. f = g
    OBVIOUS
  <2> HIDE DEF f
  <2> QED
    BY <2>1
<1>2. ASSUME NEW m \in Nat, m \in S PROVE m + 1 \in S
  <2>1. PICK f : Part(f, m)
    BY <1>2
  <2> DEFINE new == FeedAll(client, f[m], es[m + 1])
             h == [t \in 0..(m + 1) |-> IF t = m + 1 THEN new ELSE f[t]]
             g == [t \in 0..(m + 1) |-> IF t = 0 THEN s ELSE FeedAll(client, h[t - 1], es[t])]
  <2> HIDE DEF new
  <2>2. h[m] = f[m] /\ h[m + 1] = new
    OBVIOUS
  <2>3. ASSUME NEW t \in 0..(m + 1) PROVE h[t] = g[t]
    <3>1. CASE t = m + 1
      <4>1. g[t] = FeedAll(client, h[m], es[m + 1])
        BY <3>1
      <4> QED
        BY <2>2, <3>1, <4>1 DEF new
    <3>2. CASE t # m + 1
      <4>1. t \in 0..m /\ h[t] = f[t] /\ (t # 0 => t - 1 \in 0..m /\ h[t - 1] = f[t - 1])
        BY <3>2
      <4>2. f[t] = IF t = 0 THEN s ELSE FeedAll(client, f[t - 1], es[t])
        BY <2>1, <4>1
      <4> QED
        BY <4>1, <4>2
    <3> QED
      BY <3>1, <3>2
  <2>4. h = g
    <3>1. h = [t \in 0..(m + 1) |-> h[t]] /\ g = [t \in 0..(m + 1) |-> g[t]]
      OBVIOUS
    <3> HIDE DEF h, g
    <3> QED
      BY <2>3, <3>1
  <2> HIDE DEF h
  <2> QED
    BY <2>4
<1> HIDE DEF S
<1>3. MaxTools \in S
  BY <1>1, <1>2, CountUp, StreamBounds
<1>4. \E f : Part(f, MaxTools)
  BY <1>3 DEF S
<1>5. Part(After, MaxTools)
  BY <1>4
<1>6. FeedEach(client, s, es) = After[MaxTools]
  BY DEF FeedEach
<1> HIDE DEF After
<1>7. After[0] = s /\ \A t \in Tool : After[t] = FeedAll(client, After[t - 1], es[t])
  BY <1>5, StreamBounds DEF Tool
<1> QED
  BY <1>6, <1>7
\* What a client makes of each kind of event: what it has got, and of which call.
LEMMA ToolIsNat == Tool \subseteq 1..MaxTools /\ MaxTools \in Nat /\ 0 \notin Tool /\ Parts \in Nat /\ Parts >= 1
  BY StreamBounds DEF Tool

LEMMA HandsOn ==
    ASSUME NEW out \in Seq(OutEv), NEW e \in OutEv
    PROVE  /\ Append(out, e) \in Seq(OutEv) /\ Len(Append(out, e)) = Len(out) + 1
           /\ \A i \in 1..Len(out) : Append(out, e)[i] = out[i]
           /\ Append(out, e)[Len(out) + 1] = e
           /\ DOMAIN out = 1..Len(out) /\ DOMAIN Append(out, e) = 1..(Len(out) + 1) /\ Len(out) \in Nat
  OBVIOUS

LEMMA FeedIdle ==
    ASSUME NEW client \in {"cli", "agent"}, NEW s \in Assembled, NEW e, e.k \in {"other", "end", "stop"},
           e.k = "stop" => e.t = 0 /\ (client = "cli" => s.slot = 0)
    PROVE  LET r == Feed(client, s, e)
           IN  r \in Assembled /\ r.out = s.out /\ r.pend = s.pend /\ r.slot = s.slot /\ r.got
               /\ (r.stop <=> s.stop \/ e.k = "end")
<1> DEFINE g == [s EXCEPT !.got = TRUE]
           h == [g EXCEPT !.stop = TRUE]
<1>1. g \in Assembled /\ g.out = s.out /\ g.pend = s.pend /\ g.slot = s.slot /\ g.stop = s.stop /\ g.got
  BY DEF Assembled
<1>2. h \in Assembled /\ h.out = s.out /\ h.pend = s.pend /\ h.slot = s.slot /\ h.stop /\ h.got
  BY <1>1 DEF Assembled
<1>3. Feed(client, s, e) = IF e.k = "end" THEN h ELSE g
  <2>1. CASE e.k = "end"
    BY <2>1 DEF Feed
  <2>2. CASE e.k = "other"
    BY <2>2 DEF Feed
  <2>3. CASE e.k = "stop"
    <3>1. Feed(client, s, e) = IF client = "cli" THEN FeedSlot(g, e) ELSE FeedByIndex(g, e)
      BY <2>3 DEF Feed
    <3>2. e.t = 0 /\ (client = "cli" => g.slot = 0)
      BY <1>1, <2>3
    <3> HIDE DEF g
    <3>3. FeedByIndex(g, e) = g /\ (client = "cli" => FeedSlot(g, e) = g)
      BY <2>3, <3>2 DEF FeedByIndex, FeedSlot
    <3> QED
      BY <2>3, <3>1, <3>3
  <2> QED
    BY <2>1, <2>2, <2>3
<1> HIDE DEF g, h
<1> QED
  BY <1>1, <1>2, <1>3 DEF Assembled

LEMMA FeedText ==
    ASSUME NEW client \in {"cli", "agent"}, NEW s \in Assembled
    PROVE  LET r == Feed(client, s, Ev("text", 0, 0))
           IN  r \in Assembled /\ r.out = Append(s.out, TextEv) /\ r.pend = s.pend /\ r.slot = s.slot /\ r.got
<1> DEFINE g == [s EXCEPT !.got = TRUE]
           h == [g EXCEPT !.out = Append(@, TextEv)]
<1>1. g \in Assembled /\ g.out = s.out /\ g.pend = s.pend /\ g.slot = s.slot /\ g.got
  BY DEF Assembled
<1>2. TextEv \in OutEv
  BY ToolIsNat DEF TextEv, OutEv
<1>3. Append(s.out, TextEv) \in Seq(OutEv)
  BY <1>2, HandsOn DEF Assembled
<1> HIDE DEF g
<1>4. h \in Assembled /\ h.out = Append(s.out, TextEv) /\ h.pend = s.pend /\ h.slot = s.slot /\ h.got
  BY <1>1, <1>3 DEF Assembled
<1>5. Feed(client, s, Ev("text", 0, 0)) = h
  BY DEF Feed, Ev, TextEv, g
<1> HIDE DEF h
<1> QED
  BY <1>4, <1>5

LEMMA FeedStart ==
    ASSUME NEW s \in Assembled, NEW t \in Tool
    PROVE  LET r == Feed("agent", s, Ev("start", t, 0))
           IN  r \in Assembled /\ r.out = s.out /\ r.pend = [s.pend EXCEPT ![t] = 0] /\ r.got
<1> DEFINE g == [s EXCEPT !.got = TRUE]
           np == [s.pend EXCEPT ![t] = 0]
           r == [g EXCEPT !.pend = np]
<1>1. g \in Assembled /\ g.out = s.out /\ g.pend = s.pend /\ g.slot = s.slot /\ g.got
  BY DEF Assembled
<1>2. Feed("agent", s, Ev("start", t, 0)) = FeedByIndex(g, Ev("start", t, 0))
  BY DEF Feed, Ev
<1>3. s.pend \in [Tool -> Int] /\ np \in [Tool -> Int]
  BY DEF Assembled
<1> HIDE DEF g
<1>4. FeedByIndex(g, Ev("start", t, 0)) = [g EXCEPT !.pend[t] = 0]
  BY DEF FeedByIndex, Ev
<1>5. [g EXCEPT !.pend[t] = 0] = r
  BY <1>1
<1> HIDE DEF np
<1>6. r \in Assembled /\ r.out = s.out /\ r.pend = np /\ r.got
  BY <1>1, <1>3 DEF Assembled
<1> HIDE DEF r
<1> QED
  BY <1>2, <1>4, <1>5, <1>6 DEF np

LEMMA FeedDelta ==
    ASSUME NEW s \in Assembled, NEW t \in Tool, NEW n \in Nat, s.pend[t] # -1
    PROVE  LET r == Feed("agent", s, Ev("delta", t, n))
           IN  r \in Assembled /\ r.out = s.out /\ r.pend = [s.pend EXCEPT ![t] = @ + n] /\ r.got
<1> DEFINE g == [s EXCEPT !.got = TRUE]
           np == [s.pend EXCEPT ![t] = @ + n]
           r == [g EXCEPT !.pend = np]
<1>1. g \in Assembled /\ g.out = s.out /\ g.pend = s.pend /\ g.slot = s.slot /\ g.got
  BY DEF Assembled
<1>2. Feed("agent", s, Ev("delta", t, n)) = FeedByIndex(g, Ev("delta", t, n))
  BY DEF Feed, Ev
<1>3. s.pend \in [Tool -> Int] /\ np \in [Tool -> Int]
  BY DEF Assembled
<1> HIDE DEF g
<1>4. FeedByIndex(g, Ev("delta", t, n)) = [g EXCEPT !.pend[t] = IF @ = -1 THEN @ ELSE @ + n]
  BY DEF FeedByIndex, Ev
<1>5. [g EXCEPT !.pend[t] = IF @ = -1 THEN @ ELSE @ + n] = r
  BY <1>1
<1> HIDE DEF np
<1>6. r \in Assembled /\ r.out = s.out /\ r.pend = np /\ r.got
  BY <1>1, <1>3 DEF Assembled
<1> HIDE DEF r
<1> QED
  BY <1>2, <1>4, <1>5, <1>6 DEF np

LEMMA FeedStop ==
    ASSUME NEW s \in Assembled, NEW t \in Tool, s.pend[t] \in Nat
    PROVE  LET r == Feed("agent", s, Ev("stop", t, 0))
           IN  /\ r \in Assembled /\ r.out = Append(s.out, ToolEv(t, s.pend[t])) /\ r.got
               /\ r.pend = [s.pend EXCEPT ![t] = -1]
<1> DEFINE g == [s EXCEPT !.got = TRUE]
           np == [s.pend EXCEPT ![t] = -1]
           no == Append(s.out, ToolEv(t, s.pend[t]))
           r == [g EXCEPT !.pend = np, !.out = no]
<1>1. g \in Assembled /\ g.out = s.out /\ g.pend = s.pend /\ g.slot = s.slot /\ g.got
  BY DEF Assembled
<1>2. Feed("agent", s, Ev("stop", t, 0)) = FeedByIndex(g, Ev("stop", t, 0))
  BY DEF Feed, Ev
<1>3. s.pend \in [Tool -> Int] /\ np \in [Tool -> Int] /\ t # 0 /\ s.pend[t] # -1
  BY ToolIsNat DEF Assembled
<1>4. no \in Seq(OutEv)
  <2>1. ToolEv(t, s.pend[t]) \in OutEv
    BY ToolIsNat DEF ToolEv, OutEv
  <2>2. s.out \in Seq(OutEv)
    BY DEF Assembled
  <2> QED
    BY <2>1, <2>2, HandsOn
<1> HIDE DEF g
<1>5. FeedByIndex(g, Ev("stop", t, 0))
      = [g EXCEPT !.pend[t] = -1, !.out = Append(@, [k |-> "tool", t |-> t, n |-> g.pend[t]])]
  BY <1>1, <1>3 DEF FeedByIndex, Ev
<1>6. [g EXCEPT !.pend[t] = -1, !.out = Append(@, [k |-> "tool", t |-> t, n |-> g.pend[t]])] = r
  BY <1>1 DEF ToolEv
<1> HIDE DEF np, no
<1>7. r \in Assembled /\ r.out = no /\ r.pend = np /\ r.got
  BY <1>1, <1>3, <1>4 DEF Assembled
<1> HIDE DEF r
<1> QED
  BY <1>2, <1>5, <1>6, <1>7 DEF np, no
\* How each event changes what has been gathered.
LEMMA GatherIdle ==
    ASSUME NEW s, NEW said, NEW come, NEW begun, NEW closed, Gathered(s, said, come, begun, closed),
           NEW e, e.k \in {"other", "end", "stop"}, e.k = "stop" => e.t = 0
    PROVE  Gathered(Feed("agent", s, e), said, come, begun, closed) /\ Feed("agent", s, e).got
<1>1. s \in Assembled
  BY DEF Gathered
<1>2. PICK r : r = Feed("agent", s, e)
  OBVIOUS
<1>3. r \in Assembled /\ r.out = s.out /\ r.pend = s.pend /\ r.got
  BY <1>1, <1>2, FeedIdle
<1> QED
  BY <1>2, <1>3 DEF Gathered

LEMMA GatherMore ==
    ASSUME NEW out \in Seq(OutEv), NEW e, NEW said \in BOOLEAN, NEW more \in BOOLEAN, NEW come \in [Tool -> Nat],
           NEW closed \in SUBSET Tool, NEW wider \in SUBSET Tool, HandedOn(out, said, come, closed),
           \/ ~said /\ more /\ e = TextEv /\ wider = closed
           \/ said = more /\ \E t \in Tool \ closed : e = ToolEv(t, come[t]) /\ wider = closed \cup {t}
    PROVE  HandedOn(Append(out, e), more, come, wider)
<1> USE DEF HandedOn
<1>1. e \in OutEv
  BY ToolIsNat DEF TextEv, ToolEv, OutEv
<1>2. PICK all : all = Append(out, e)
  OBVIOUS
<1>3. /\ all \in Seq(OutEv) /\ DOMAIN all = 1..(Len(out) + 1) /\ DOMAIN out = 1..Len(out) /\ Len(out) \in Nat
      /\ \A i \in 1..Len(out) : all[i] = out[i]
      /\ all[Len(out) + 1] = e
  BY <1>1, <1>2, HandsOn
<1>4. /\ \A t \in Tool, u \in Tool : ToolEv(t, come[t]) = ToolEv(u, come[u]) => t = u
      /\ \A t \in Tool : ToolEv(t, come[t]) # TextEv
  BY DEF ToolEv, TextEv
<1>5. \A i \in DOMAIN out : out[i] # e
  BY <1>4
<1>6. IsInjective(all)
  <2>1. ASSUME NEW i \in DOMAIN all, NEW j \in DOMAIN all, all[i] = all[j] PROVE i = j
    <3>1. i = Len(out) + 1 \/ i \in DOMAIN out
      BY <1>3
    <3>2. j = Len(out) + 1 \/ j \in DOMAIN out
      BY <1>3
    <3>3. i \in DOMAIN out /\ j \in DOMAIN out => i = j
      BY <1>3, <2>1 DEF IsInjective
    <3> QED
      BY <1>3, <1>5, <2>1, <3>1, <3>2, <3>3
  <2> QED
    BY <2>1 DEF IsInjective
<1>7. ASSUME NEW i \in DOMAIN all PROVE (more /\ all[i] = TextEv) \/ \E t \in wider : all[i] = ToolEv(t, come[t])
  <2>1. CASE i \in DOMAIN out
    BY <1>3, <2>1
  <2>2. CASE i = Len(out) + 1
    BY <1>3, <2>2
  <2> QED
    BY <1>3, <2>1, <2>2
<1>8. \A i \in DOMAIN out : i \in DOMAIN all /\ all[i] = out[i]
  BY <1>3
<1>9. Len(out) + 1 \in DOMAIN all
  BY <1>3
<1>10. more => \E i \in DOMAIN all : all[i] = TextEv
  BY <1>3, <1>8, <1>9
<1>11. \A t \in wider : \E i \in DOMAIN all : all[i] = ToolEv(t, come[t])
  BY <1>3, <1>8, <1>9
<1> QED
  BY <1>2, <1>3, <1>6, <1>7, <1>10, <1>11

LEMMA GatherText ==
    ASSUME NEW s, NEW come \in [Tool -> Nat], NEW begun \in SUBSET Tool, NEW closed \in SUBSET Tool,
           Gathered(s, FALSE, come, begun, closed)
    PROVE  Gathered(Feed("agent", s, Ev("text", 0, 0)), TRUE, come, begun, closed)
           /\ Feed("agent", s, Ev("text", 0, 0)).got
<1>1. s \in Assembled /\ s.out \in Seq(OutEv)
  BY DEF Gathered, Assembled
<1>2. PICK r : r = Feed("agent", s, Ev("text", 0, 0))
  OBVIOUS
<1>3. r \in Assembled /\ r.out = Append(s.out, TextEv) /\ r.pend = s.pend /\ r.got
  BY <1>1, <1>2, FeedText
<1>4. HandedOn(r.out, TRUE, come, closed)
  <2>1. HandedOn(s.out, FALSE, come, closed)
    BY DEF Gathered
  <2>2. PICK said \in BOOLEAN, more \in BOOLEAN : said = FALSE /\ more = TRUE
    OBVIOUS
  <2>3. HandedOn(Append(s.out, TextEv), more, come, closed)
    BY <1>1, <2>1, <2>2, GatherMore
  <2> QED
    BY <1>3, <2>2, <2>3
<1> QED
  BY <1>2, <1>3, <1>4 DEF Gathered

LEMMA GatherStart ==
    ASSUME NEW s, NEW said, NEW come \in [Tool -> Nat], NEW begun \in SUBSET Tool, NEW closed \in SUBSET Tool,
           NEW t \in Tool \ (begun \cup closed), Gathered(s, said, come, begun, closed)
    PROVE  /\ Gathered(Feed("agent", s, Ev("start", t, 0)), said, [come EXCEPT ![t] = 0], begun \cup {t}, closed)
           /\ Feed("agent", s, Ev("start", t, 0)).got
<1>1. s \in Assembled /\ s.pend \in [Tool -> Int]
  BY DEF Gathered, Assembled
<1>2. PICK r : r = Feed("agent", s, Ev("start", t, 0))
  OBVIOUS
<1>3. r \in Assembled /\ r.out = s.out /\ r.pend = [s.pend EXCEPT ![t] = 0] /\ r.got
  BY <1>1, <1>2, FeedStart
<1>4. PICK new : new = [come EXCEPT ![t] = 0]
  OBVIOUS
<1>5. new \in [Tool -> Nat] /\ new[t] = 0 /\ \A u \in Tool : u # t => new[u] = come[u]
  BY <1>4
<1>6. HandedOn(s.out, said, new, closed)
  <2>1. \A u \in closed : new[u] = come[u]
    BY <1>5
  <2>2. HandedOn(s.out, said, come, closed)
    BY DEF Gathered
  <2> QED
    BY <2>1, <2>2 DEF HandedOn
<1>7. \A u \in Tool : r.pend[u] = IF u \in begun \cup {t} THEN new[u] ELSE -1
  BY <1>1, <1>3, <1>5 DEF Gathered
<1>8. Gathered(r, said, new, begun \cup {t}, closed)
  BY <1>3, <1>6, <1>7 DEF Gathered
<1> QED
  BY <1>2, <1>3, <1>4, <1>8

LEMMA GatherDelta ==
    ASSUME NEW s, NEW said, NEW come \in [Tool -> Nat], NEW begun \in SUBSET Tool, NEW closed \in SUBSET Tool,
           NEW t \in begun, NEW n \in Nat, Gathered(s, said, come, begun, closed)
    PROVE  /\ Gathered(Feed("agent", s, Ev("delta", t, n)), said, [come EXCEPT ![t] = @ + n], begun, closed)
           /\ Feed("agent", s, Ev("delta", t, n)).got
<1>1. s \in Assembled /\ s.pend \in [Tool -> Int] /\ t \in Tool /\ s.pend[t] = come[t] /\ s.pend[t] # -1
  BY DEF Gathered, Assembled
<1>2. PICK r : r = Feed("agent", s, Ev("delta", t, n))
  OBVIOUS
<1>3. r \in Assembled /\ r.out = s.out /\ r.pend = [s.pend EXCEPT ![t] = @ + n] /\ r.got
  BY <1>1, <1>2, FeedDelta
<1>4. PICK new : new = [come EXCEPT ![t] = @ + n]
  OBVIOUS
<1>5. new \in [Tool -> Nat] /\ new[t] = come[t] + n /\ \A u \in Tool : u # t => new[u] = come[u]
  BY <1>1, <1>4
<1>6. HandedOn(s.out, said, new, closed)
  <2>1. \A u \in closed : new[u] = come[u]
    BY <1>5 DEF Gathered
  <2>2. HandedOn(s.out, said, come, closed)
    BY DEF Gathered
  <2> QED
    BY <2>1, <2>2 DEF HandedOn
<1>7. \A u \in Tool : r.pend[u] = IF u \in begun THEN new[u] ELSE -1
  BY <1>1, <1>3, <1>5 DEF Gathered
<1>8. Gathered(r, said, new, begun, closed)
  BY <1>3, <1>6, <1>7 DEF Gathered
<1> QED
  BY <1>2, <1>3, <1>4, <1>8

LEMMA GatherStop ==
    ASSUME NEW s, NEW said \in BOOLEAN, NEW come \in [Tool -> Nat], NEW begun \in SUBSET Tool, NEW closed \in SUBSET Tool,
           NEW t \in begun, Gathered(s, said, come, begun, closed)
    PROVE  /\ Gathered(Feed("agent", s, Ev("stop", t, 0)), said, come, begun \ {t}, closed \cup {t})
           /\ Feed("agent", s, Ev("stop", t, 0)).got
<1>1. /\ s \in Assembled /\ s.pend \in [Tool -> Int] /\ t \in Tool /\ s.pend[t] = come[t] /\ s.pend[t] \in Nat
      /\ s.out \in Seq(OutEv) /\ t \notin closed
  BY DEF Gathered, Assembled
<1>2. PICK r : r = Feed("agent", s, Ev("stop", t, 0))
  OBVIOUS
<1>3. r \in Assembled /\ r.out = Append(s.out, ToolEv(t, come[t])) /\ r.got /\ r.pend = [s.pend EXCEPT ![t] = -1]
  <2>1. r.out = Append(s.out, ToolEv(t, s.pend[t])) /\ r \in Assembled /\ r.got /\ r.pend = [s.pend EXCEPT ![t] = -1]
    BY <1>1, <1>2, FeedStop
  <2> QED
    BY <1>1, <2>1
<1>5. PICK wider : wider = closed \cup {t}
  OBVIOUS
<1>6. wider \in SUBSET Tool /\ \E u \in Tool \ closed : ToolEv(t, come[t]) = ToolEv(u, come[u]) /\ wider = closed \cup {u}
  BY <1>1, <1>5
<1>7. HandedOn(r.out, said, come, wider)
  <2>1. HandedOn(s.out, said, come, closed)
    BY DEF Gathered
  <2>2. HandedOn(Append(s.out, ToolEv(t, come[t])), said, come, wider)
    BY <1>1, <1>6, <2>1, GatherMore
  <2> QED
    BY <1>3, <2>2
<1>8. \A u \in Tool : r.pend[u] = IF u \in begun \ {t} THEN come[u] ELSE -1
  BY <1>1, <1>3 DEF Gathered
<1>9. (begun \ {t}) \cap wider = {}
  BY <1>5 DEF Gathered
<1> QED
  BY <1>2, <1>3, <1>5, <1>7, <1>8, <1>9 DEF Gathered
LEMMA OneThenOne == ASSUME NEW d, NEW e PROVE <<d>> \o <<e>> = <<d, e>>
<1>1. PICK S : S = {d, e}
  OBVIOUS
<1>2. <<d>> \in Seq(S) /\ <<e>> \in Seq(S) /\ <<d, e>> \in Seq(S)
  BY <1>1
<1>3. Len(<<d>>) = 1 /\ Len(<<e>>) = 1 /\ Len(<<d, e>>) = 2
  OBVIOUS
<1>4. /\ (<<d>> \o <<e>>) \in Seq(S) /\ Len(<<d>> \o <<e>>) = 2
      /\ (<<d>> \o <<e>>)[1] = d /\ (<<d>> \o <<e>>)[2] = e
  BY <1>2, <1>3
<1>5. <<d, e>>[1] = d /\ <<d, e>>[2] = e
  OBVIOUS
<1>6. \A i \in 1..2 : (<<d>> \o <<e>>)[i] = <<d, e>>[i]
  BY <1>4, <1>5
<1> QED
  BY <1>2, <1>3, <1>4, <1>6, SeqEqual

(***************************************************************************)
(* The adaptor: a piece of a call that has no name yet is kept, the piece  *)
(* with the name begins the call with all that was kept, and a later one   *)
(* is passed on; closing hands on every call that was begun.               *)
(***************************************************************************)
LEMMA IngestGathers ==
    ASSUME NEW a \in Adaptor, NEW t \in Tool, NEW name \in BOOLEAN, NEW s, NEW said \in BOOLEAN, s.got,
           Caught(a.tool[t]), ~a.tool[t].stopped, Gathered(s, said, Come(a), Begun(a), Closed(a))
    PROVE  LET i == IngestTool(a, t, name)
           IN  /\ i.a \in Adaptor /\ i.a.text = a.text /\ \A u \in Tool : u # t => i.a.tool[u] = a.tool[u]
               /\ i.a.tool[t].args = a.tool[t].args + 1 /\ (i.a.tool[t].name <=> a.tool[t].name \/ name)
               /\ ~i.a.tool[t].stopped /\ Caught(i.a.tool[t])
               /\ Gathered(FeedAll("agent", s, i.es), said, Come(i.a), Begun(i.a), Closed(i.a))
               /\ FeedAll("agent", s, i.es).got
<1> DEFINE c == a.tool[t]
           d == [c EXCEPT !.name = @ \/ name, !.args = @ + 1]
           b == [a EXCEPT !.tool[t] = d]
           n == c.args + 1
           e == [d EXCEPT !.started = TRUE, !.emitted = n]
           z == [a EXCEPT !.tool[t] = e]
           i == IngestTool(a, t, name)
           come == Come(a)
<1>1. /\ a.tool \in [Tool -> [name : BOOLEAN, args : Nat, emitted : Nat, started : BOOLEAN, stopped : BOOLEAN]]
      /\ c \in [name : BOOLEAN, args : Nat, emitted : Nat, started : BOOLEAN, stopped : BOOLEAN]
  BY DEF Adaptor
<1>2. /\ d \in [name : BOOLEAN, args : Nat, emitted : Nat, started : BOOLEAN, stopped : BOOLEAN]
      /\ d.started = c.started /\ d.stopped = c.stopped /\ d.emitted = c.emitted /\ d.args = n
      /\ d.name <=> c.name \/ name
  <2>1. (c.name \/ name) \in BOOLEAN /\ c.args + 1 \in Nat
    BY <1>1
  <2> QED
    BY <1>1, <2>1
<1>3. /\ e \in [name : BOOLEAN, args : Nat, emitted : Nat, started : BOOLEAN, stopped : BOOLEAN]
      /\ e.started /\ e.stopped = c.stopped /\ e.emitted = n /\ e.args = n /\ e.name = d.name /\ n \in Nat
  <2> HIDE DEF d
  <2> QED
    BY <1>1, <1>2
<1> HIDE DEF c, d, e
<1>4. b \in Adaptor /\ b.text = a.text /\ b.tool[t] = d /\ \A u \in Tool : u # t => b.tool[u] = a.tool[u]
  BY <1>1, <1>2 DEF Adaptor
<1>5. z \in Adaptor /\ z.text = a.text /\ z.tool[t] = e /\ \A u \in Tool : u # t => z.tool[u] = a.tool[u]
  BY <1>1, <1>3 DEF Adaptor
<1>6. i = StartAndDelta(b, t)
  <2>1. [a EXCEPT !.tool[t].name = @ \/ name, !.tool[t].args = @ + 1] = b
    BY <1>1 DEF c, d, Adaptor
  <2> QED
    BY <2>1 DEF IngestTool
<1>7. (c.started <=> c.name) /\ c.emitted = (IF c.started THEN c.args ELSE 0) /\ ~c.stopped
  BY DEF Caught, c
<1>8. [b EXCEPT !.tool[t].started = TRUE, !.tool[t].emitted = b.tool[t].args] = z
  <2>1. [b EXCEPT !.tool[t].started = TRUE, !.tool[t].emitted = b.tool[t].args]
        = [b EXCEPT !.tool[t] = [b.tool[t] EXCEPT !.started = TRUE, !.emitted = b.tool[t].args]]
    BY <1>4 DEF Adaptor
  <2>2. [b.tool[t] EXCEPT !.started = TRUE, !.emitted = b.tool[t].args] = e
    BY <1>2, <1>4 DEF e
  <2>3. [b EXCEPT !.tool[t] = e] = z
    BY <1>1 DEF Adaptor
  <2> QED
    BY <2>1, <2>2, <2>3
<1>9. come \in [Tool -> Nat] /\ Begun(a) \in SUBSET Tool /\ Closed(a) \in SUBSET Tool /\ come[t] = c.emitted
  BY <1>1 DEF Come, Begun, Closed, c
<1> HIDE DEF b, z, i
<1>10. CASE ~d.name
  <2>1. ~c.started /\ ~c.name
    BY <1>2, <1>7, <1>10
  <2>2. ~d.started
    BY <1>2, <2>1
  <2>3. i = [a |-> b, es |-> <<>> \o <<>>]
    BY <1>4, <1>6, <1>10, <2>2 DEF StartAndDelta
  <2>4. i.a = b /\ i.es = <<>>
    BY <2>3
  <2>5. Come(b) = Come(a) /\ Begun(b) = Begun(a) /\ Closed(b) = Closed(a)
    <3>1. \A u \in Tool : /\ b.tool[u].emitted = a.tool[u].emitted
                          /\ b.tool[u].started = a.tool[u].started /\ b.tool[u].stopped = a.tool[u].stopped
      BY <1>2, <1>4 DEF c
    <3> QED
      BY <3>1 DEF Come, Begun, Closed
  <2>6. Caught(d)
    BY <1>2, <1>7, <1>10, <2>1 DEF Caught
  <2>7. FeedAll("agent", s, i.es) = s
    BY <2>4, FeedNone
  <2> QED
    BY <1>2, <1>4, <1>7, <2>4, <2>5, <2>6, <2>7 DEF i, c
<1>11. CASE d.name
  <2>1. i.a = z
    BY <1>4, <1>6, <1>8, <1>11 DEF StartAndDelta
  <2>2. Caught(e) /\ ~e.stopped /\ e.args = c.args + 1 /\ (e.name <=> c.name \/ name)
    BY <1>2, <1>3, <1>7, <1>11 DEF Caught
  <2>3. Come(z) = [come EXCEPT ![t] = n] /\ Closed(z) = Closed(a) /\ Begun(z) = Begun(a) \cup {t}
    <3>1. \A u \in Tool : u # t => z.tool[u] = a.tool[u]
      BY <1>5
    <3>2. z.tool[t].emitted = n /\ z.tool[t].started /\ ~z.tool[t].stopped /\ ~a.tool[t].stopped
      BY <1>3, <1>5, <1>7 DEF c
    <3>3. Come(z) = [come EXCEPT ![t] = n]
      BY <1>9, <3>1, <3>2 DEF Come
    <3> QED
      BY <3>1, <3>2, <3>3 DEF Begun, Closed
  <2>4. CASE c.started
    <3>1. c.emitted = c.args /\ d.started /\ n > d.emitted /\ n - d.emitted = 1
      BY <1>1, <1>2, <1>7, <2>4
    <3>2. i.es = <<>> \o <<Ev("delta", t, n - d.emitted)>>
      BY <1>2, <1>4, <1>6, <1>11, <3>1 DEF StartAndDelta
    <3>3. i.es = <<Ev("delta", t, 1)>>
      BY <3>1, <3>2
    <3>4. t \in Begun(a)
      BY <1>7, <2>4 DEF Begun, c
    <3>5. FeedAll("agent", s, i.es) = Feed("agent", s, Ev("delta", t, 1))
      BY <3>3, FeedOne
    <3>6. [come EXCEPT ![t] = @ + 1] = [come EXCEPT ![t] = n] /\ Begun(a) \cup {t} = Begun(a)
      BY <1>9, <3>1, <3>4
    <3>7. Gathered(s, said, come, Begun(a), Closed(a)) /\ 1 \in Nat
      OBVIOUS
    <3> HIDE DEF come
    <3>8. /\ Gathered(Feed("agent", s, Ev("delta", t, 1)), said, [come EXCEPT ![t] = @ + 1], Begun(a), Closed(a))
          /\ Feed("agent", s, Ev("delta", t, 1)).got
      BY <1>9, <3>4, <3>7, GatherDelta
    <3> QED
      BY <1>5, <2>1, <2>2, <2>3, <3>5, <3>6, <3>8 DEF i, c
  <2>5. CASE ~c.started
    <3>1. c.emitted = 0 /\ ~d.started /\ n > d.emitted /\ n - d.emitted = n
      BY <1>1, <1>2, <1>7, <2>5
    <3>2. i.es = <<Ev("start", t, 0)>> \o <<Ev("delta", t, n - d.emitted)>>
      BY <1>2, <1>4, <1>6, <1>11, <3>1 DEF StartAndDelta
    <3>3. i.es = <<Ev("start", t, 0), Ev("delta", t, n)>>
      BY <3>1, <3>2, OneThenOne
    <3>4. t \notin Begun(a) /\ t \notin Closed(a)
      BY <1>7, <2>5 DEF Begun, Closed, c
    <3> DEFINE r == Feed("agent", s, Ev("start", t, 0))
               mid == [come EXCEPT ![t] = 0]
    <3>5. FeedAll("agent", s, i.es) = Feed("agent", r, Ev("delta", t, n))
      BY <3>3, FeedTwo
    <3>6. mid \in [Tool -> Nat] /\ [mid EXCEPT ![t] = @ + n] = [come EXCEPT ![t] = n]
      <4> HIDE DEF come, n
      <4>1. mid \in [Tool -> Nat] /\ mid[t] = 0 /\ mid[t] + n = n
        BY <1>3, <1>9
      <4>2. [mid EXCEPT ![t] = n] = [come EXCEPT ![t] = n]
        BY <1>9
      <4>3. [mid EXCEPT ![t] = @ + n] = [mid EXCEPT ![t] = n]
        BY <4>1
      <4> QED
        BY <4>1, <4>2, <4>3
    <3>7. Gathered(s, said, come, Begun(a), Closed(a))
      OBVIOUS
    <3> HIDE DEF come
    <3>8. Gathered(r, said, mid, Begun(a) \cup {t}, Closed(a))
      BY <1>9, <3>4, <3>7, GatherStart
    <3> HIDE DEF r, mid
    <3>9. /\ Gathered(Feed("agent", r, Ev("delta", t, n)), said, [mid EXCEPT ![t] = @ + n], Begun(a) \cup {t}, Closed(a))
          /\ Feed("agent", r, Ev("delta", t, n)).got
      <4>1. PICK more : more = Begun(a) \cup {t}
        OBVIOUS
      <4>2. more \in SUBSET Tool /\ t \in more
        BY <1>9, <4>1
      <4> QED
        BY <1>3, <1>9, <3>6, <3>8, <4>1, <4>2, GatherDelta
    <3> QED
      BY <1>5, <2>1, <2>2, <2>3, <3>5, <3>6, <3>9 DEF i, c
  <2> QED
    BY <2>4, <2>5
<1> QED
  BY <1>10, <1>11

LEMMA ClosesAll ==
    ASSUME NEW s, NEW said \in BOOLEAN, NEW come \in [Tool -> Nat], NEW begun \in SUBSET Tool, NEW closed \in SUBSET Tool,
           Gathered(s, said, come, begun, closed), s.got,
           NEW es, \A t \in Tool : es[t] = IF t \in begun THEN <<Ev("stop", t, 0)>> ELSE <<>>
    PROVE  /\ Gathered(FeedEach("agent", s, es), said, come, {}, closed \cup begun)
           /\ FeedEach("agent", s, es).got
<1>1. PICK f : /\ f[0] = s /\ \A t \in Tool : f[t] = FeedAll("agent", f[t - 1], es[t])
               /\ FeedEach("agent", s, es) = f[MaxTools]
  BY FeedEachIs
<1>0. MaxTools \in Nat /\ \A u \in begun : u \in Nat /\ u >= 1 /\ u <= MaxTools
  BY ToolIsNat DEF Tool
<1> DEFINE Left(t) == {u \in begun : u > t}
           S == {t \in Nat : t <= MaxTools => Gathered(f[t], said, come, Left(t), closed \cup (begun \ Left(t))) /\ f[t].got}
<1>2. 0 \in S
  <2>1. Left(0) = begun /\ closed \cup (begun \ Left(0)) = closed
    BY <1>0
  <2> QED
    BY <1>1, <2>1
<1>3. ASSUME NEW m \in Nat, m \in S PROVE m + 1 \in S
  <2> SUFFICES ASSUME m + 1 <= MaxTools
               PROVE  /\ Gathered(f[m + 1], said, come, Left(m + 1), closed \cup (begun \ Left(m + 1)))
                      /\ f[m + 1].got
    OBVIOUS
  <2>1. /\ Gathered(f[m], said, come, Left(m), closed \cup (begun \ Left(m))) /\ f[m].got
        /\ m + 1 \in Tool /\ f[m + 1] = FeedAll("agent", f[m], es[m + 1])
    <3>1. m + 1 \in Tool /\ (m + 1) - 1 = m
      BY ToolIsNat DEF Tool
    <3>2. m <= MaxTools
      BY ToolIsNat
    <3> QED
      BY <1>1, <1>3, <3>1, <3>2
  <2>2. CASE m + 1 \in begun
    <3>1. m + 1 \in Left(m) /\ Left(m + 1) = Left(m) \ {m + 1}
      BY <1>0, <2>2
    <3>2. closed \cup (begun \ Left(m + 1)) = (closed \cup (begun \ Left(m))) \cup {m + 1}
      BY <2>2, <3>1
    <3>3. FeedAll("agent", f[m], es[m + 1]) = Feed("agent", f[m], Ev("stop", m + 1, 0))
      BY <2>1, <2>2, FeedOne
    <3>4. PICK left, done : left = Left(m) /\ done = closed \cup (begun \ Left(m))
      OBVIOUS
    <3>5. left \in SUBSET Tool /\ done \in SUBSET Tool /\ Gathered(f[m], said, come, left, done) /\ m + 1 \in left
      BY <2>1, <3>1, <3>4
    <3> HIDE DEF Left, S
    <3>6. /\ Gathered(Feed("agent", f[m], Ev("stop", m + 1, 0)), said, come, left \ {m + 1}, done \cup {m + 1})
          /\ Feed("agent", f[m], Ev("stop", m + 1, 0)).got
      BY <3>5, GatherStop
    <3> QED
      BY <2>1, <3>1, <3>2, <3>3, <3>4, <3>6
  <2>3. CASE m + 1 \notin begun
    <3>1. Left(m + 1) = Left(m)
      BY <1>0, <2>3
    <3>2. f[m + 1] = f[m]
      BY <2>1, <2>3, FeedNone
    <3> QED
      BY <2>1, <3>1, <3>2
  <2> QED
    BY <2>2, <2>3
<1> HIDE DEF S
<1>4. MaxTools \in S
  BY <1>2, <1>3, CountUp, ToolIsNat
<1>5. Left(MaxTools) = {} /\ closed \cup (begun \ Left(MaxTools)) = closed \cup begun
  BY <1>0
<1> HIDE DEF Left
<1>6. Gathered(f[MaxTools], said, come, Left(MaxTools), closed \cup (begun \ Left(MaxTools))) /\ f[MaxTools].got
  BY <1>0, <1>4 DEF S
<1> QED
  BY <1>1, <1>5, <1>6

LEMMA CloseGathers ==
    ASSUME NEW a \in Adaptor, NEW s, NEW said \in BOOLEAN, s.got, Gathered(s, said, Come(a), Begun(a), Closed(a)),
           \A t \in Tool : Caught(a.tool[t])
    PROVE  LET b == Close(a).a
               r == FeedEach("agent", s, Close(a).es)
           IN  /\ b \in Adaptor /\ b.text = a.text
               /\ \A t \in Tool : /\ Caught(b.tool[t]) /\ b.tool[t].args = a.tool[t].args
                                  /\ b.tool[t].name = a.tool[t].name /\ (b.tool[t].stopped <=> a.tool[t].started)
               /\ Gathered(r, said, Come(b), Begun(b), Closed(b)) /\ r.got
<1> DEFINE Over(t) == [a.tool[t] EXCEPT !.stopped = @ \/ a.tool[t].started]
           b == [a EXCEPT !.tool = [t \in Tool |-> Over(t)]]
           r == FeedEach("agent", s, Close(a).es)
<1>1. a.tool \in [Tool -> [name : BOOLEAN, args : Nat, emitted : Nat, started : BOOLEAN, stopped : BOOLEAN]]
  BY DEF Adaptor
<1>2. ASSUME NEW t \in Tool
      PROVE  /\ Over(t) \in [name : BOOLEAN, args : Nat, emitted : Nat, started : BOOLEAN, stopped : BOOLEAN]
             /\ Over(t).name = a.tool[t].name /\ Over(t).args = a.tool[t].args
             /\ Over(t).emitted = a.tool[t].emitted /\ Over(t).started = a.tool[t].started
             /\ Over(t).stopped <=> a.tool[t].started
  <2>1. PICK c : c = a.tool[t]
    OBVIOUS
  <2>2. c \in [name : BOOLEAN, args : Nat, emitted : Nat, started : BOOLEAN, stopped : BOOLEAN] /\ (c.stopped => c.started)
    BY <1>1, <2>1 DEF Caught
  <2>3. PICK over \in BOOLEAN : over = (c.stopped \/ c.started) /\ (over <=> c.started)
    BY <2>2
  <2>4. Over(t) = [c EXCEPT !.stopped = over]
    BY <2>1, <2>3
  <2> QED
    BY <2>1, <2>2, <2>3, <2>4
<1> HIDE DEF Over
<1>3. Close(a).a = b
  BY DEF Close, Over
<1>4. b \in Adaptor /\ b.text = a.text /\ \A t \in Tool : b.tool[t] = Over(t)
  BY <1>2 DEF Adaptor
<1> HIDE DEF b
<1>5. \A t \in Tool : Close(a).es[t] = IF t \in Begun(a) THEN <<Ev("stop", t, 0)>> ELSE <<>>
  BY DEF Close, Begun
<1>6. Come(a) \in [Tool -> Nat] /\ Begun(a) \in SUBSET Tool /\ Closed(a) \in SUBSET Tool
  BY <1>1 DEF Come, Begun, Closed
<1>7. Gathered(r, said, Come(a), {}, Closed(a) \cup Begun(a)) /\ r.got
  BY <1>5, <1>6, ClosesAll
<1>8. Come(b) = Come(a) /\ Begun(b) = {} /\ Closed(b) = Closed(a) \cup Begun(a)
  <2>1. Come(b) = Come(a)
    BY <1>2, <1>4 DEF Come
  <2>2. Begun(b) = {}
    BY <1>2, <1>4 DEF Begun
  <2>3. ASSUME NEW t \in Tool PROVE t \in Closed(b) <=> t \in Closed(a) \cup Begun(a)
    BY <1>2, <1>4 DEF Begun, Closed, Caught
  <2> QED
    BY <2>1, <2>2, <2>3 DEF Closed, Begun
<1>9. \A t \in Tool : Caught(b.tool[t])
  BY <1>2, <1>4 DEF Caught
<1> HIDE DEF r
<1>10. Gathered(r, said, Come(b), Begun(b), Closed(b))
  BY <1>7, <1>8
<1> QED
  BY <1>2, <1>3, <1>4, <1>7, <1>9, <1>10 DEF r

LEMMA FinishGathers ==
    ASSUME NEW a \in Adaptor, NEW s, NEW said \in BOOLEAN, s.got, Gathered(s, said, Come(a), Begun(a), Closed(a)),
           \A t \in Tool : Caught(a.tool[t])
    PROVE  Gathered(Finish("agent", s, a), said, Come(a), {}, Closed(a) \cup Begun(a))
<1> DEFINE text == IF a.text THEN Feed("agent", s, Ev("stop", 0, 0)) ELSE s
           late == [t \in Tool |-> LateEvents(a, t)]
           tools == FeedEach("agent", text, late)
<1>1. a.tool \in [Tool -> [name : BOOLEAN, args : Nat, emitted : Nat, started : BOOLEAN, stopped : BOOLEAN]]
  BY DEF Adaptor
<1>2. Gathered(text, said, Come(a), Begun(a), Closed(a)) /\ text.got
  <2>1. Ev("stop", 0, 0).k = "stop" /\ Ev("stop", 0, 0).t = 0
    BY DEF Ev
  <2> QED
    BY <2>1, GatherIdle
<1>3. ASSUME NEW t \in Tool PROVE late[t] = IF t \in Begun(a) THEN <<Ev("stop", t, 0)>> ELSE <<>>
  <2>1. PICK c : c = a.tool[t]
    OBVIOUS
  <2>2. c \in [name : BOOLEAN, args : Nat, emitted : Nat, started : BOOLEAN, stopped : BOOLEAN]
        /\ (c.started <=> c.name) /\ (c.stopped => c.started)
    BY <1>1, <2>1 DEF Caught
  <2>3. t \in Begun(a) <=> c.started /\ ~c.stopped
    BY <2>1 DEF Begun
  <2>4. CASE c.started
    <3>1. StartAndDelta(a, t).a = [a EXCEPT !.tool[t].started = TRUE, !.tool[t].emitted = c.args]
      BY <2>1, <2>4 DEF StartAndDelta
    <3>2. StartAndDelta(a, t).a.tool[t].started
      BY <1>1, <3>1 DEF Adaptor
    <3>3. late[t] = <<>> \o (IF ~c.stopped THEN <<Ev("stop", t, 0)>> ELSE <<>>)
      BY <2>1, <2>4, <3>2 DEF LateEvents
    <3> QED
      BY <2>3, <2>4, <3>3
  <2>5. CASE ~c.started
    <3>1. StartAndDelta(a, t) = [a |-> a, es |-> <<>> \o <<>>]
      BY <2>1, <2>2, <2>5 DEF StartAndDelta
    <3>2. StartAndDelta(a, t).a = a /\ StartAndDelta(a, t).es = <<>>
      BY <3>1
    <3>3. late[t] = <<>> \o <<>>
      BY <2>1, <2>5, <3>2 DEF LateEvents
    <3> QED
      BY <2>3, <2>5, <3>3
  <2> QED
    BY <2>4, <2>5
<1>4. Come(a) \in [Tool -> Nat] /\ Begun(a) \in SUBSET Tool /\ Closed(a) \in SUBSET Tool
  BY <1>1 DEF Come, Begun, Closed
<1>5. Finish("agent", s, a) = Feed("agent", Feed("agent", tools, Ev("other", 0, 0)), Ev("end", 0, 0))
  BY DEF Finish
<1> HIDE DEF text, late
<1>6. Gathered(tools, said, Come(a), {}, Closed(a) \cup Begun(a))
  BY <1>2, <1>3, <1>4, ClosesAll
<1> HIDE DEF tools
<1>7. Gathered(Feed("agent", tools, Ev("other", 0, 0)), said, Come(a), {}, Closed(a) \cup Begun(a))
  <2>1. Ev("other", 0, 0).k = "other"
    BY DEF Ev
  <2> QED
    BY <1>6, <2>1, GatherIdle
<1>8. Gathered(Feed("agent", Feed("agent", tools, Ev("other", 0, 0)), Ev("end", 0, 0)), said, Come(a), {}, Closed(a) \cup Begun(a))
  <2>1. Ev("end", 0, 0).k = "end"
    BY DEF Ev
  <2> QED
    BY <1>7, <2>1, GatherIdle
<1> QED
  BY <1>5, <1>8
(***************************************************************************)
(* Anthropic's blocks: whichever way a client keeps the call it is given,  *)
(* it holds the one whose block is sent, and none between the blocks.      *)
(***************************************************************************)
LEMMA BlockStart ==
    ASSUME NEW client \in {"cli", "agent"}, NEW s \in Assembled, NEW t \in Tool, Free(client, s)
    PROVE  LET r == Feed(client, s, Ev("start", t, 0))
           IN  r \in Assembled /\ r.out = s.out /\ Holding(client, r, t, 0)
<1>1. CASE client = "agent"
  <2>1. PICK r : r = Feed("agent", s, Ev("start", t, 0))
    OBVIOUS
  <2>2. r \in Assembled /\ r.out = s.out /\ r.pend = [s.pend EXCEPT ![t] = 0]
    BY <2>1, FeedStart
  <2>3. s.pend \in [Tool -> Int] /\ \A u \in Tool : s.pend[u] = -1
    BY <1>1 DEF Free, Assembled
  <2>4. Holding("agent", r, t, 0)
    BY <2>2, <2>3 DEF Holding
  <2> QED
    BY <1>1, <2>1, <2>2, <2>4
<1>2. CASE client = "cli"
  <2> DEFINE g == [s EXCEPT !.got = TRUE]
             np == [FreshSt.pend EXCEPT ![t] = 0]
             r == [g EXCEPT !.slot = t, !.pend = np]
  <2>1. g \in Assembled /\ g.out = s.out
    BY DEF Assembled
  <2>2. Feed("cli", s, Ev("start", t, 0)) = FeedSlot(g, Ev("start", t, 0))
    BY DEF Feed, Ev
  <2> HIDE DEF g
  <2>3. FeedSlot(g, Ev("start", t, 0)) = r
    BY DEF FeedSlot, Ev
  <2>4. np \in [Tool -> Int] /\ np[t] = 0 /\ t \in 0..MaxTools
    BY ToolIsNat DEF FreshSt, Tool
  <2> HIDE DEF np
  <2>5. r \in Assembled /\ r.out = s.out /\ r.slot = t /\ r.pend = np
    BY <2>1, <2>4 DEF Assembled
  <2> HIDE DEF r
  <2>6. Holding("cli", r, t, 0)
    BY <2>4, <2>5 DEF Holding
  <2> QED
    BY <1>2, <2>2, <2>3, <2>5, <2>6
<1> QED
  BY <1>1, <1>2

LEMMA BlockDelta ==
    ASSUME NEW client \in {"cli", "agent"}, NEW s \in Assembled, NEW t \in Tool, NEW n \in Nat, Holding(client, s, t, n)
    PROVE  LET r == Feed(client, s, Ev("delta", t, 1))
           IN  r \in Assembled /\ r.out = s.out /\ Holding(client, r, t, n + 1)
<1>0. s.pend \in [Tool -> Int] /\ s.pend[t] = n /\ n # -1
  BY DEF Holding, Assembled
<1>1. CASE client = "agent"
  <2>1. PICK r : r = Feed("agent", s, Ev("delta", t, 1))
    OBVIOUS
  <2>2. r \in Assembled /\ r.out = s.out /\ r.pend = [s.pend EXCEPT ![t] = @ + 1]
    <3>1. 1 \in Nat /\ s.pend[t] # -1
      BY <1>0
    <3> QED
      BY <2>1, <3>1, FeedDelta
  <2>3. \A u \in Tool : s.pend[u] = IF u = t THEN n ELSE -1
    BY <1>1 DEF Holding
  <2>4. Holding("agent", r, t, n + 1)
    BY <1>0, <2>2, <2>3 DEF Holding
  <2> QED
    BY <1>1, <2>1, <2>2, <2>4
<1>2. CASE client = "cli"
  <2> DEFINE g == [s EXCEPT !.got = TRUE]
             np == [s.pend EXCEPT ![t] = n + 1]
             r == [g EXCEPT !.pend = np]
  <2>1. g \in Assembled /\ g.out = s.out /\ g.pend = s.pend /\ g.slot = s.slot
    BY DEF Assembled
  <2>2. Feed("cli", s, Ev("delta", t, 1)) = FeedSlot(g, Ev("delta", t, 1))
    BY DEF Feed, Ev
  <2>3. s.slot = t /\ t # 0
    BY <1>2, ToolIsNat DEF Holding
  <2> HIDE DEF g
  <2>4. FeedSlot(g, Ev("delta", t, 1)) = [g EXCEPT !.pend[t] = @ + 1]
    BY <2>1, <2>3 DEF FeedSlot, Ev
  <2>5. [g EXCEPT !.pend[t] = @ + 1] = r
    BY <1>0, <2>1
  <2>6. np \in [Tool -> Int] /\ np[t] = n + 1
    BY <1>0
  <2> HIDE DEF np
  <2>7. r \in Assembled /\ r.out = s.out /\ r.slot = t /\ r.pend = np
    BY <2>1, <2>3, <2>6 DEF Assembled
  <2> HIDE DEF r
  <2>8. Holding("cli", r, t, n + 1)
    BY <2>6, <2>7 DEF Holding
  <2> QED
    BY <1>2, <2>2, <2>4, <2>5, <2>7, <2>8
<1> QED
  BY <1>1, <1>2

LEMMA BlockStop ==
    ASSUME NEW client \in {"cli", "agent"}, NEW s \in Assembled, NEW t \in Tool, NEW n \in Nat, Holding(client, s, t, n)
    PROVE  LET r == Feed(client, s, Ev("stop", t, 0))
           IN  r \in Assembled /\ r.out = Append(s.out, ToolEv(t, n)) /\ Free(client, r)
<1>0. s.pend \in [Tool -> Int] /\ s.pend[t] = n /\ s.pend[t] \in Nat
  BY DEF Holding, Assembled
<1>1. CASE client = "agent"
  <2>1. PICK r : r = Feed("agent", s, Ev("stop", t, 0))
    OBVIOUS
  <2>2. r \in Assembled /\ r.out = Append(s.out, ToolEv(t, s.pend[t])) /\ r.pend = [s.pend EXCEPT ![t] = -1]
    BY <1>0, <2>1, FeedStop
  <2>3. \A u \in Tool : s.pend[u] = IF u = t THEN n ELSE -1
    BY <1>1 DEF Holding
  <2>4. Free("agent", r)
    BY <1>0, <2>2, <2>3 DEF Free
  <2> QED
    BY <1>0, <1>1, <2>1, <2>2, <2>4
<1>2. CASE client = "cli"
  <2> DEFINE g == [s EXCEPT !.got = TRUE]
             np == [s.pend EXCEPT ![t] = -1]
             no == Append(s.out, ToolEv(t, n))
             r == [g EXCEPT !.slot = 0, !.pend = np, !.out = no]
  <2>1. g \in Assembled /\ g.out = s.out /\ g.pend = s.pend /\ g.slot = s.slot
    BY DEF Assembled
  <2>2. Feed("cli", s, Ev("stop", t, 0)) = FeedSlot(g, Ev("stop", t, 0))
    BY DEF Feed, Ev
  <2>3. s.slot = t /\ t # 0
    BY <1>2, ToolIsNat DEF Holding
  <2>4. no \in Seq(OutEv)
    <3>1. ToolEv(t, n) \in OutEv
      BY ToolIsNat DEF ToolEv, OutEv
    <3>2. s.out \in Seq(OutEv)
      BY DEF Assembled
    <3> QED
      BY <3>1, <3>2, HandsOn
  <2> HIDE DEF g
  <2>5. FeedSlot(g, Ev("stop", t, 0))
        = [g EXCEPT !.slot = 0, !.pend[t] = -1, !.out = Append(@, [k |-> "tool", t |-> t, n |-> g.pend[t]])]
    BY <2>1, <2>3 DEF FeedSlot, Ev
  <2>6. [g EXCEPT !.slot = 0, !.pend[t] = -1, !.out = Append(@, [k |-> "tool", t |-> t, n |-> g.pend[t]])] = r
    BY <1>0, <2>1 DEF ToolEv
  <2>7. np \in [Tool -> Int]
    BY <1>0
  <2> HIDE DEF np, no
  <2>8. r \in Assembled /\ r.out = no /\ r.slot = 0
    <3>1. 0 \in 0..MaxTools
      BY ToolIsNat
    <3>2. [g EXCEPT !.slot = 0] \in Assembled
      BY <2>1, <3>1 DEF Assembled
    <3>3. [[g EXCEPT !.slot = 0] EXCEPT !.pend = np] \in Assembled
      BY <2>7, <3>2 DEF Assembled
    <3>4. [[[g EXCEPT !.slot = 0] EXCEPT !.pend = np] EXCEPT !.out = no] \in Assembled
      BY <2>4, <3>3 DEF Assembled
    <3>5. r = [[[g EXCEPT !.slot = 0] EXCEPT !.pend = np] EXCEPT !.out = no]
      BY <2>1 DEF Assembled
    <3>6. r.out = no /\ r.slot = 0
      BY <2>1 DEF Assembled
    <3> HIDE DEF r
    <3> QED
      BY <3>4, <3>5, <3>6
  <2> HIDE DEF r
  <2>9. Free("cli", r)
    BY <2>8 DEF Free
  <2> QED
    BY <1>2, <2>2, <2>5, <2>6, <2>8, <2>9 DEF no
<1> QED
  BY <1>1, <1>2

LEMMA BetweenBlocks ==
    ASSUME NEW client \in {"cli", "agent"}, NEW s \in Assembled, Free(client, s)
    PROVE  /\ \A e \in {Ev("other", 0, 0), Ev("end", 0, 0), Ev("stop", 0, 0)} :
                 LET r == Feed(client, s, e) IN r \in Assembled /\ r.out = s.out /\ Free(client, r)
           /\ LET r == Feed(client, s, Ev("text", 0, 0))
              IN  r \in Assembled /\ r.out = Append(s.out, TextEv) /\ Free(client, r)
<1>1. ASSUME NEW e \in {Ev("other", 0, 0), Ev("end", 0, 0), Ev("stop", 0, 0)}
      PROVE  LET r == Feed(client, s, e) IN r \in Assembled /\ r.out = s.out /\ Free(client, r)
  <2>1. e.k \in {"other", "end", "stop"} /\ e.t = 0
    BY DEF Ev
  <2>2. client = "cli" => s.slot = 0
    BY DEF Free
  <2>3. PICK r : r = Feed(client, s, e)
    OBVIOUS
  <2>4. r \in Assembled /\ r.out = s.out /\ r.pend = s.pend /\ r.slot = s.slot
    BY <2>1, <2>2, <2>3, FeedIdle
  <2> QED
    BY <2>3, <2>4 DEF Free
<1>2. PICK r : r = Feed(client, s, Ev("text", 0, 0))
  OBVIOUS
<1>3. r \in Assembled /\ r.out = Append(s.out, TextEv) /\ r.pend = s.pend /\ r.slot = s.slot
  BY <1>2, FeedText
<1>4. Free(client, r)
  BY <1>3 DEF Free
<1> QED
  BY <1>1, <1>2, <1>3, <1>4

LEMMA WholeIs ==
    ASSUME NEW plan \in Plan
    PROVE  /\ Whole(plan) \in Assembled /\ Whole(plan).out \in Seq(OutEv)
           /\ Len(Whole(plan).out) = Texts(plan) + plan.tools /\ Texts(plan) \in {0, 1} /\ plan.tools \in 0..MaxTools
           /\ plan.text => Texts(plan) = 1 /\ Whole(plan).out[1] = TextEv
           /\ ~plan.text => Texts(plan) = 0
           /\ \A t \in 1..plan.tools : t \in Tool /\ Whole(plan).out[Texts(plan) + t] = ToolEv(t, Parts)
<1> DEFINE text == IF plan.text THEN <<TextEv>> ELSE <<>>
           tools == [t \in 1..plan.tools |-> ToolEv(t, Parts)]
           out == text \o tools
<1>1. plan.text \in BOOLEAN /\ plan.tools \in 0..MaxTools /\ Texts(plan) \in {0, 1}
      /\ (plan.text => Texts(plan) = 1) /\ (~plan.text => Texts(plan) = 0)
  BY DEF Plan, Texts
<1>2. \A t \in 1..plan.tools : t \in Tool /\ ToolEv(t, Parts) \in OutEv
  BY <1>1, ToolIsNat DEF Tool, ToolEv, OutEv
<1>3. text \in Seq(OutEv) /\ Len(text) = Texts(plan) /\ (plan.text => text[1] = TextEv)
  <2>1. TextEv \in OutEv
    BY ToolIsNat DEF TextEv, OutEv
  <2> QED
    BY <1>1, <2>1
<1>4. tools \in Seq(OutEv) /\ Len(tools) = plan.tools /\ \A t \in 1..plan.tools : tools[t] = ToolEv(t, Parts)
  <2>1. plan.tools \in Nat
    BY <1>1, ToolIsNat
  <2> QED
    BY <1>2, <2>1, IsASeq
<1> HIDE DEF text, tools
<1>5. /\ out \in Seq(OutEv) /\ Len(out) = Texts(plan) + plan.tools
      /\ \A i \in 1..(Texts(plan) + plan.tools) : out[i] = IF i <= Texts(plan) THEN text[i] ELSE tools[i - Texts(plan)]
  <2>1. /\ (text \o tools) \in Seq(OutEv) /\ Len(text \o tools) = Len(text) + Len(tools)
        /\ \A i \in 1..(Len(text) + Len(tools)) :
              (text \o tools)[i] = IF i <= Len(text) THEN text[i] ELSE tools[i - Len(text)]
    BY <1>3, <1>4, ConcatProperties
  <2> QED
    BY <1>3, <1>4, <2>1
<1>6. Whole(plan) = [FreshSt EXCEPT !.stop = TRUE, !.out = out]
  BY DEF Whole, text, tools, ToolEv, TextEv
<1>7. FreshSt \in Assembled
  BY ToolIsNat DEF FreshSt, Assembled
<1> HIDE DEF out
<1>8. Whole(plan) \in Assembled /\ Whole(plan).out = out
  BY <1>5, <1>6, <1>7 DEF Assembled
<1>9. plan.text => out[1] = TextEv
  BY <1>1, <1>3, <1>5, ToolIsNat
<1>10. ASSUME NEW t \in 1..plan.tools PROVE out[Texts(plan) + t] = ToolEv(t, Parts)
  <2>1. Texts(plan) + t \in 1..(Texts(plan) + plan.tools) /\ ~(Texts(plan) + t <= Texts(plan)) /\ (Texts(plan) + t) - Texts(plan) = t
    BY <1>1, ToolIsNat
  <2> QED
    BY <1>4, <1>5, <2>1
<1> QED
  BY <1>1, <1>2, <1>5, <1>8, <1>9, <1>10
LEMMA SendsOn ==
    ASSUME NEW client \in {"cli", "agent"}, NEW s \in Assembled, NEW plan \in Plan, NEW b \in Nat, NEW a \in Nat,
           Sending(client, s, plan, b, a, FALSE)
    PROVE  LET e == Script(plan, b)[a + 1]
               last == a + 1 = Len(Script(plan, b))
           IN  /\ Feed(client, s, e) \in Assembled
               /\ Sending(client, Feed(client, s, e), plan, IF last THEN b + 1 ELSE b, IF last THEN 0 ELSE a + 1, e.k = "end")
<1> DEFINE e == Script(plan, b)[a + 1]
           last == a + 1 = Len(Script(plan, b))
           b2 == IF last THEN b + 1 ELSE b
           a2 == IF last THEN 0 ELSE a + 1
           r == Feed(client, s, e)
           much == Delivered(plan, b, a)
           more == Delivered(plan, b2, a2)
           whole == Whole(plan).out
           tools == plan.tools
           n == Texts(plan)
<1>1. /\ whole \in Seq(OutEv) /\ Len(whole) = n + tools /\ n \in {0, 1} /\ tools \in 0..MaxTools /\ tools \in Nat
      /\ plan.text => n = 1 /\ whole[1] = TextEv
      /\ ~plan.text => n = 0
      /\ \A t \in 1..tools : t \in Tool /\ whole[n + t] = ToolEv(t, Parts)
  <2>1. plan.tools \in Nat
    BY ToolIsNat DEF Plan
  <2> QED
    BY <2>1, WholeIs
<1>2. /\ b <= tools + 1 /\ a < Len(Script(plan, b)) /\ Len(s.out) = much
      /\ \A i \in 1..much : s.out[i] = whole[i]
      /\ IF b \in 1..tools /\ a >= 1 THEN Holding(client, s, b, a - 1) ELSE Free(client, s)
  BY DEF Sending
<1>3. ASSUME NEW s2, s2 = r, s2 \in Assembled,
             \/ more = much /\ s2.out = s.out
             \/ more = much + 1 /\ s2.out = Append(s.out, whole[much + 1]) /\ whole[much + 1] \in OutEv,
             IF e.k = "end" THEN b2 = tools + 2 /\ a2 = 0 ELSE b2 <= tools + 1 /\ a2 < Len(Script(plan, b2)),
             IF b2 \in 1..tools /\ a2 >= 1 THEN Holding(client, s2, b2, a2 - 1) ELSE Free(client, s2)
      PROVE  r \in Assembled /\ Sending(client, r, plan, b2, a2, e.k = "end")
  <2> HIDE DEF e, last, b2, a2, r, much, more, whole, tools, n
  <2>1. s.out \in Seq(OutEv) /\ s2.out \in Seq(OutEv)
    BY <1>3 DEF Assembled
  <2>2. Len(s2.out) = more /\ \A i \in 1..more : s2.out[i] = whole[i]
    <3>1. CASE more = much /\ s2.out = s.out
      BY <1>2, <3>1
    <3>2. CASE more = much + 1 /\ s2.out = Append(s.out, whole[much + 1]) /\ whole[much + 1] \in OutEv
      <4>1. /\ Len(s2.out) = Len(s.out) + 1 /\ \A i \in 1..Len(s.out) : s2.out[i] = s.out[i]
            /\ s2.out[Len(s.out) + 1] = whole[much + 1] /\ Len(s.out) \in Nat
        BY <2>1, <3>2, HandsOn
      <4>2. \A i \in 1..more : i \in 1..much \/ i = much + 1
        BY <1>2, <3>2, <4>1
      <4> QED
        BY <1>2, <3>2, <4>1, <4>2
    <3> QED
      BY <1>3, <3>1, <3>2
  <2>3. Delivered(plan, b2, a2) = more
    BY DEF more
  <2> QED
    BY <1>3, <2>2, <2>3 DEF Sending, whole, tools
<1>4. CASE b = 0
  <2>1. Free(client, s)
    BY <1>2, <1>4
  <2>2. CASE plan.text
    <3>1. Script(plan, b) = <<Ev("other", 0, 0), Ev("text", 0, 0), Ev("stop", 0, 0)>> /\ Len(Script(plan, b)) = 3
      BY <1>4, <2>2 DEF Script
    <3>2. a \in {0, 1, 2}
      BY <1>2, <3>1
    <3>3. CASE a = 0
      <4>1. e = Ev("other", 0, 0) /\ ~last /\ b2 = 0 /\ a2 = 1
        BY <1>4, <3>1, <3>3
      <4>2. e.k # "end" /\ much = 0 /\ more = 0
        BY <1>4, <3>3, <4>1 DEF Ev, Delivered
      <4>3. PICK s2 : s2 = r
        OBVIOUS
      <4>4. s2 \in Assembled /\ s2.out = s.out /\ Free(client, s2)
        BY <2>1, <4>1, <4>3, BetweenBlocks
      <4>5. b2 <= tools + 1 /\ a2 < Len(Script(plan, b2)) /\ ~(b2 \in 1..tools)
        <5>1. b2 = b /\ Len(Script(plan, b2)) = 3
          BY <1>4, <3>1, <4>1
        <5> HIDE DEF e, last, b2, a2, r, much, more, whole, tools, n
        <5>2. tools \in Nat /\ b2 = 0 /\ a2 = 1
          BY <1>1, <4>1
        <5>3. ~(b2 \in 1..tools) /\ b2 <= tools + 1
          BY <5>2
        <5> QED
          BY <5>1, <5>2, <5>3
      <4> HIDE DEF e, last, b2, a2, r, much, more, whole, tools, n
      <4> QED
        BY <1>3, <4>2, <4>3, <4>4, <4>5 DEF r, b2, a2, e, last
    <3>4. CASE a = 1
      <4>1. e = Ev("text", 0, 0) /\ ~last /\ b2 = 0 /\ a2 = 2
        BY <1>4, <3>1, <3>4
      <4>2. e.k # "end" /\ much = 0 /\ more = 1
        BY <1>4, <3>4, <4>1 DEF Ev, Delivered
      <4>3. PICK s2 : s2 = r
        OBVIOUS
      <4>4. s2 \in Assembled /\ s2.out = Append(s.out, TextEv) /\ Free(client, s2)
        BY <2>1, <4>1, <4>3, BetweenBlocks
      <4>5. b2 <= tools + 1 /\ a2 < Len(Script(plan, b2)) /\ ~(b2 \in 1..tools)
        <5>1. b2 = b /\ Len(Script(plan, b2)) = 3
          BY <1>4, <3>1, <4>1
        <5> HIDE DEF e, last, b2, a2, r, much, more, whole, tools, n
        <5>2. tools \in Nat /\ b2 = 0 /\ a2 = 2
          BY <1>1, <4>1
        <5>3. ~(b2 \in 1..tools) /\ b2 <= tools + 1
          BY <5>2
        <5> QED
          BY <5>1, <5>2, <5>3
      <4>6. whole[much + 1] = TextEv /\ TextEv \in OutEv /\ more = much + 1
        BY <1>1, <2>2, <4>2, ToolIsNat DEF TextEv, OutEv
      <4> HIDE DEF e, last, b2, a2, r, much, more, whole, tools, n
      <4> QED
        BY <1>3, <4>2, <4>3, <4>4, <4>5, <4>6 DEF r, b2, a2, e, last
    <3>5. CASE a = 2
      <4>1. e = Ev("stop", 0, 0) /\ last /\ b2 = 1 /\ a2 = 0
        BY <1>4, <3>1, <3>5
      <4>2. e.k # "end" /\ much = 1 /\ more = 1
        BY <1>1, <1>4, <2>2, <3>5, <4>1 DEF Ev, Delivered
      <4>3. PICK s2 : s2 = r
        OBVIOUS
      <4>4. s2 \in Assembled /\ s2.out = s.out /\ Free(client, s2)
        BY <2>1, <4>1, <4>3, BetweenBlocks
      <4>5. b2 <= tools + 1 /\ a2 < Len(Script(plan, b2)) /\ ~(a2 >= 1)
        BY <1>1, <4>1, ToolIsNat DEF Script, BlockEvents
      <4> HIDE DEF e, last, b2, a2, r, much, more, whole, tools, n
      <4> QED
        BY <1>3, <4>2, <4>3, <4>4, <4>5 DEF r, b2, a2, e, last
    <3> QED
      BY <3>2, <3>3, <3>4, <3>5
  <2>3. CASE ~plan.text
    <3>1. Script(plan, b) = <<Ev("other", 0, 0)>> /\ Len(Script(plan, b)) = 1
      BY <1>4, <2>3 DEF Script
    <3>2. a = 0
      BY <1>2, <3>1
    <3>3. e = Ev("other", 0, 0) /\ last /\ b2 = 1 /\ a2 = 0
      BY <1>4, <3>1, <3>2
    <3>4. e.k # "end" /\ much = 0 /\ more = 0
      BY <1>1, <1>4, <2>3, <3>2, <3>3 DEF Ev, Delivered
    <3>5. PICK s2 : s2 = r
      OBVIOUS
    <3>6. s2 \in Assembled /\ s2.out = s.out /\ Free(client, s2)
      BY <2>1, <3>3, <3>5, BetweenBlocks
    <3>7. b2 <= tools + 1 /\ a2 < Len(Script(plan, b2)) /\ ~(a2 >= 1)
      BY <1>1, <3>3, ToolIsNat DEF Script, BlockEvents
    <3> HIDE DEF e, last, b2, a2, r, much, more, whole, tools, n
    <3> QED
      BY <1>3, <3>4, <3>5, <3>6, <3>7 DEF r, b2, a2, e, last
  <2> QED
    BY <2>2, <2>3
<1>5. CASE b \in 1..tools
  <2>1. /\ Script(plan, b) = BlockEvents(b) /\ Len(Script(plan, b)) = Parts + 2 /\ b \in Tool
        /\ \A i \in 1..(Parts + 2) : Script(plan, b)[i] = IF i = 1 THEN Ev("start", b, 0)
                                        ELSE IF i < Parts + 2 THEN Ev("delta", b, 1) ELSE Ev("stop", b, 0)
    BY <1>1, <1>5, ToolIsNat DEF Script, BlockEvents
  <2>2. CASE a = 0
    <3>1. e = Ev("start", b, 0) /\ ~last /\ b2 = b /\ a2 = 1
      BY <2>1, <2>2, ToolIsNat
    <3>2. e.k # "end" /\ more = much
      BY <1>5, <2>2, <3>1 DEF Ev, Delivered
    <3>3. PICK s2 : s2 = r
      OBVIOUS
    <3>4. Free(client, s)
      BY <1>2, <2>2
    <3>5. s2 \in Assembled /\ s2.out = s.out /\ Holding(client, s2, b, 0)
      BY <2>1, <3>1, <3>3, <3>4, BlockStart
    <3>6. b2 <= tools + 1 /\ a2 < Len(Script(plan, b2)) /\ a2 - 1 = 0 /\ b2 = b
      BY <1>2, <2>1, <3>1, ToolIsNat
    <3> HIDE DEF e, last, b2, a2, r, much, more, whole, tools, n
    <3>7. b2 \in 1..tools /\ a2 >= 1
      BY <1>5, <3>1
    <3> QED
      BY <1>3, <3>2, <3>3, <3>5, <3>6, <3>7 DEF r, b2, a2, e, last
  <2>3. CASE a \in 1..Parts
    <3>1. e = Ev("delta", b, 1) /\ ~last /\ b2 = b /\ a2 = a + 1
      BY <2>1, <2>3, ToolIsNat
    <3>2. e.k # "end" /\ more = much
      BY <1>5, <2>3, <3>1 DEF Ev, Delivered
    <3>3. PICK s2 : s2 = r
      OBVIOUS
    <3>4. Holding(client, s, b, a - 1) /\ a - 1 \in Nat /\ (a - 1) + 1 = a
      BY <1>2, <1>5, <2>3
    <3>5. s2 \in Assembled /\ s2.out = s.out /\ Holding(client, s2, b, a)
      BY <2>1, <3>1, <3>3, <3>4, BlockDelta
    <3>6. b2 <= tools + 1 /\ a2 < Len(Script(plan, b2)) /\ a2 - 1 = a /\ b2 = b
      BY <1>2, <2>1, <2>3, <3>1, ToolIsNat
    <3> HIDE DEF e, last, b2, a2, r, much, more, whole, tools, n
    <3>7. b2 \in 1..tools /\ a2 >= 1
      BY <1>5, <3>1
    <3> QED
      BY <1>3, <3>2, <3>3, <3>5, <3>6, <3>7 DEF r, b2, a2, e, last
  <2>4. CASE a = Parts + 1
    <3>1. e = Ev("stop", b, 0) /\ last /\ b2 = b + 1 /\ a2 = 0
      BY <2>1, <2>4, ToolIsNat
    <3>2. e.k # "end"
      BY <3>1 DEF Ev
    <3>3. PICK s2 : s2 = r
      OBVIOUS
    <3>4. Holding(client, s, b, Parts)
      <4>1. a >= 1 /\ a - 1 = Parts
        BY <2>4, ToolIsNat
      <4> QED
        BY <1>2, <1>5, <4>1
    <3>5. s2 \in Assembled /\ s2.out = Append(s.out, ToolEv(b, Parts)) /\ Free(client, s2)
      BY <2>1, <3>1, <3>3, <3>4, ToolIsNat, BlockStop
    <3>6. much = n + (b - 1) /\ more = n + b
      <4>1. b # 0 /\ b2 # 0 /\ b <= tools
        BY <1>5, <3>1
      <4>2. much = n + (b - 1)
        BY <4>1 DEF Delivered
      <4>3. (IF b2 <= tools THEN b2 - 1 ELSE tools) = b
        BY <1>1, <1>2, <3>1, <4>1
      <4> QED
        BY <4>1, <4>2, <4>3 DEF Delivered
    <3>7. more = much + 1 /\ whole[much + 1] = ToolEv(b, Parts) /\ ToolEv(b, Parts) \in OutEv
      <4>1. much + 1 = n + b
        BY <1>1, <3>6
      <4>2. whole[n + b] = ToolEv(b, Parts)
        BY <1>1, <1>5
      <4>3. ToolEv(b, Parts) \in OutEv
        BY <2>1, ToolIsNat DEF ToolEv, OutEv
      <4> HIDE DEF much, more, whole
      <4> QED
        BY <3>6, <4>1, <4>2, <4>3
    <3>8. b2 <= tools + 1 /\ a2 < Len(Script(plan, b2)) /\ ~(a2 >= 1)
      <4>1. b2 <= tools + 1 /\ b2 # 0 /\ a2 = 0
        BY <1>1, <1>2, <1>5, <3>1
      <4> QED
        BY <4>1, ToolIsNat DEF Script, BlockEvents
    <3> HIDE DEF e, last, b2, a2, r, much, more, whole, tools, n
    <3> QED
      BY <1>3, <3>2, <3>3, <3>5, <3>7, <3>8 DEF r, b2, a2, e, last
  <2>5. a = 0 \/ a \in 1..Parts \/ a = Parts + 1
    BY <1>2, <2>1, ToolIsNat
  <2> QED
    BY <2>2, <2>3, <2>4, <2>5
<1>6. CASE b = tools + 1
  <2>1. Script(plan, b) = <<Ev("other", 0, 0), Ev("end", 0, 0)>> /\ Len(Script(plan, b)) = 2 /\ ~(b \in 1..tools)
    BY <1>1, <1>6 DEF Script
  <2>2. Free(client, s)
    BY <1>2, <2>1
  <2>3. much = n + tools
    BY <1>1, <1>6 DEF Delivered
  <2>4. PICK s2 : s2 = r
    OBVIOUS
  <2>5. a \in {0, 1}
    BY <1>2, <2>1
  <2>6. CASE a = 0
    <3>1. e = Ev("other", 0, 0) /\ ~last /\ b2 = b /\ a2 = 1
      BY <2>1, <2>6
    <3>2. e.k # "end" /\ more = much
      BY <1>1, <1>6, <2>6, <3>1 DEF Ev, Delivered
    <3>3. s2 \in Assembled /\ s2.out = s.out /\ Free(client, s2)
      BY <2>2, <2>4, <3>1, BetweenBlocks
    <3>4. b2 <= tools + 1 /\ a2 < Len(Script(plan, b2)) /\ ~(b2 \in 1..tools)
      <4>1. Len(Script(plan, b2)) = 2
        BY <2>1, <3>1
      <4> HIDE DEF e, last, b2, a2, r, much, more, whole, tools, n
      <4>2. b2 = b /\ a2 = 1 /\ b <= tools + 1
        BY <1>2, <3>1
      <4>3. a2 < Len(Script(plan, b2))
        BY <4>1, <4>2
      <4> QED
        BY <2>1, <4>2, <4>3
    <3> HIDE DEF e, last, b2, a2, r, much, more, whole, tools, n
    <3> QED
      BY <1>3, <2>4, <3>2, <3>3, <3>4 DEF r, b2, a2, e, last
  <2>7. CASE a = 1
    <3>1. e = Ev("end", 0, 0) /\ last /\ b2 = tools + 2 /\ a2 = 0
      BY <1>1, <1>6, <2>1, <2>7
    <3>2. e.k = "end" /\ more = much
      <4>1. b2 # 0 /\ ~(b2 <= tools)
        BY <1>1, <3>1
      <4> QED
        BY <2>3, <3>1, <4>1 DEF Ev, Delivered
    <3>3. s2 \in Assembled /\ s2.out = s.out /\ Free(client, s2)
      BY <2>2, <2>4, <3>1, BetweenBlocks
    <3>4. ~(a2 >= 1)
      BY <3>1
    <3> HIDE DEF e, last, b2, a2, r, much, more, whole, tools, n
    <3> QED
      BY <1>3, <2>4, <3>1, <3>2, <3>3, <3>4 DEF r, b2, a2, e, last
  <2> QED
    BY <2>5, <2>6, <2>7
<1> QED
  BY <1>1, <1>2, <1>4, <1>5, <1>6

\* What is delivered is a beginning of the whole answer, and all of it at the end.
LEMMA BeginningIsFaithful ==
    ASSUME NEW client, NEW s \in Assembled, NEW plan \in Plan, NEW b \in Nat, NEW a \in Nat, NEW over \in BOOLEAN,
           Sending(client, s, plan, b, a, over)
    PROVE  /\ IsPrefix(s.out, Whole(plan).out) /\ IsInjective(s.out)
           /\ \A i \in DOMAIN s.out : s.out[i].n <= Parts
           /\ over => ToSet(s.out) = ToSet(Whole(plan).out)
<1> DEFINE whole == Whole(plan).out
           much == Delivered(plan, b, a)
           n == Texts(plan)
           tools == plan.tools
<1>1. /\ whole \in Seq(OutEv) /\ Len(whole) = n + tools /\ n \in {0, 1} /\ tools \in Nat
      /\ plan.text => n = 1 /\ whole[1] = TextEv
      /\ ~plan.text => n = 0
      /\ \A t \in 1..tools : t \in Tool /\ whole[n + t] = ToolEv(t, Parts)
  <2>1. plan.tools \in Nat
    BY ToolIsNat DEF Plan
  <2> QED
    BY <2>1, WholeIs
<1>2. Len(s.out) = much /\ \A i \in 1..much : s.out[i] = whole[i]
  BY DEF Sending
<1>3. much \in 0..(n + tools) /\ (over => much = n + tools)
  <2>1. over => b = tools + 2
    BY DEF Sending
  <2>2. ~over => a < Len(Script(plan, b))
    BY DEF Sending
  <2>3. CASE b = 0
    <3>1. ~over /\ (~plan.text => Len(Script(plan, b)) = 1)
      BY <1>1, <2>1, <2>3 DEF Script
    <3>2. a >= 2 => n = 1
      <4>1. CASE plan.text
        BY <1>1, <4>1
      <4>2. CASE ~plan.text
        <5>1. a < 1
          BY <2>2, <3>1, <4>2
        <5> QED
          BY <5>1
      <4> QED
        BY <4>1, <4>2
    <3> QED
      BY <1>1, <2>3, <3>1, <3>2 DEF Delivered
  <2>4. CASE b # 0
    <3>1. much = n + (IF b <= tools THEN b - 1 ELSE tools)
      BY <2>4 DEF Delivered
    <3> HIDE DEF much, n, tools
    <3> QED
      BY <1>1, <2>1, <2>4, <3>1
  <2> QED
    BY <2>3, <2>4
<1>4. ASSUME NEW i \in 1..Len(whole) PROVE \/ i = 1 /\ n = 1 /\ whole[i] = TextEv
                                           \/ \E t \in 1..tools : i = n + t /\ whole[i] = ToolEv(t, Parts)
  <2>1. CASE i <= n
    BY <1>1, <2>1
  <2>2. CASE i > n
    <3>1. i - n \in 1..tools /\ n + (i - n) = i
      BY <1>1, <2>2
    <3> QED
      BY <1>1, <3>1
  <2> QED
    BY <1>1, <2>1, <2>2
<1> HIDE DEF whole, n, much, tools
<1>5. s.out \in Seq(OutEv) /\ DOMAIN s.out = 1..much /\ DOMAIN whole = 1..Len(whole)
  BY <1>1, <1>2 DEF Assembled
<1>6. IsPrefix(s.out, whole)
  <2>1. Len(s.out) <= Len(whole)
    BY <1>1, <1>2, <1>3
  <2>2. SubSeq(s.out, 1, Len(s.out)) = [i \in 1..Len(s.out) |-> s.out[i]]
    BY <1>5
  <2>3. SubSeq(whole, 1, Len(s.out)) = [i \in 1..Len(s.out) |-> whole[i]]
    BY <1>1, <1>5, <2>1
  <2> QED
    BY <1>2, <2>1, <2>2, <2>3 DEF IsPrefix
<1>7. \A i \in 1..much : i \in 1..Len(whole)
  BY <1>1, <1>3
<1>8. ASSUME NEW i \in 1..Len(whole), NEW j \in 1..Len(whole), whole[i] = whole[j] PROVE i = j
  <2>1. /\ (i = 1 /\ n = 1 /\ whole[i] = TextEv) \/ (\E t \in 1..tools : i = n + t /\ whole[i] = ToolEv(t, Parts))
        /\ (j = 1 /\ n = 1 /\ whole[j] = TextEv) \/ (\E t \in 1..tools : j = n + t /\ whole[j] = ToolEv(t, Parts))
    BY <1>4
  <2>2. \A t \in 1..tools, u \in 1..tools : ToolEv(t, Parts) = ToolEv(u, Parts) => t = u
    BY DEF ToolEv
  <2>3. \A t \in 1..tools : ToolEv(t, Parts) # TextEv
    BY DEF ToolEv, TextEv
  <2> QED
    BY <1>8, <2>1, <2>2, <2>3
<1>9. IsInjective(s.out)
  BY <1>2, <1>5, <1>7, <1>8 DEF IsInjective
<1>10. \A i \in DOMAIN s.out : s.out[i].n <= Parts
  <2>1. \A i \in 1..Len(whole) : whole[i].n \in {0, Parts}
    <3>1. TextEv.n = 0 /\ \A t \in 1..tools : ToolEv(t, Parts).n = Parts
      BY DEF TextEv, ToolEv
    <3> QED
      BY <1>4, <3>1
  <2> QED
    BY <1>2, <1>5, <1>7, <2>1, ToolIsNat
<1>11. over => ToSet(s.out) = ToSet(whole)
  <2>1. over => DOMAIN s.out = DOMAIN whole /\ \A i \in DOMAIN s.out : s.out[i] = whole[i]
    BY <1>1, <1>2, <1>3, <1>5
  <2> QED
    BY <2>1 DEF ToSet
<1> QED
  BY <1>6, <1>9, <1>10, <1>11 DEF whole

LEMMA FreshIs ==
    /\ NoAnswer \in Served /\ FreshAd \in Adaptor /\ FreshSt \in Assembled
    /\ FreshSt.out = <<>> /\ \A t \in Tool : FreshSt.pend[t] = -1
<1>1. NoAnswer \in Served
  <2>1. [text |-> FALSE, tools |-> 0] \in Plan
    BY ToolIsNat DEF Plan
  <2>2. [t \in Tool |-> 0] \in [Tool -> 0..Parts]
    BY ToolIsNat
  <2> QED
    BY <2>1, <2>2 DEF NoAnswer, Served
<1>2. FreshAd \in Adaptor
  BY DEF FreshAd, Adaptor
<1>3. FreshSt \in Assembled
  BY ToolIsNat DEF FreshSt, Assembled
<1>4. FreshSt.out = <<>> /\ \A t \in Tool : FreshSt.pend[t] = -1
  BY DEF FreshSt
<1> QED
  BY <1>1, <1>2, <1>3, <1>4

LEMMA SendsFirst ==
    ASSUME NEW client \in {"cli", "agent"}, NEW plan \in Plan
    PROVE  Sending(client, FreshSt, plan, 0, 0, FALSE)
<1>1. plan.tools \in Nat
  BY ToolIsNat DEF Plan
<1>2. Delivered(plan, 0, 0) = 0
  BY DEF Delivered
<1>3. Len(Script(plan, 0)) \in {1, 3}
  BY DEF Script
<1>4. Free(client, FreshSt)
  BY FreshIs DEF Free, FreshSt
<1>5. Len(FreshSt.out) = 0
  BY FreshIs
<1>6. ~(0 \in 1..plan.tools) /\ 0 <= plan.tools + 1 /\ 0 < Len(Script(plan, 0))
  <2>1. PICK k : k = plan.tools
    OBVIOUS
  <2>2. ~(0 \in 1..k) /\ 0 <= k + 1
    BY <1>1, <2>1
  <2>3. 0 < Len(Script(plan, 0))
    BY <1>3
  <2> QED
    BY <2>1, <2>2, <2>3
<1> QED
  BY <1>2, <1>4, <1>5, <1>6 DEF Sending

LEMMA WholeIsFaithful ==
    ASSUME NEW plan \in Plan
    PROVE  /\ IsPrefix(Whole(plan).out, Whole(plan).out) /\ IsInjective(Whole(plan).out)
           /\ \A i \in DOMAIN Whole(plan).out : Whole(plan).out[i].n <= Parts
<1>1. PICK s \in Assembled : s = Whole(plan)
  BY WholeIs
<1>2. plan.tools \in Nat
  BY ToolIsNat DEF Plan
<1>3. plan.tools + 2 \in Nat /\ plan.tools + 2 # 0 /\ ~(plan.tools + 2 <= plan.tools) /\ ~(plan.tools + 2 \in 1..plan.tools)
  BY <1>2
<1>4. Delivered(plan, plan.tools + 2, 0) = Texts(plan) + plan.tools
  BY <1>3 DEF Delivered
<1>5. Len(s.out) = Texts(plan) + plan.tools
  BY <1>1, WholeIs
<1>6. Free("agent", s)
  <2>1. s.pend = FreshSt.pend
    BY <1>1 DEF Whole, FreshSt
  <2> QED
    BY <2>1, FreshIs DEF Free
<1>7. Sending("agent", s, plan, plan.tools + 2, 0, TRUE)
  BY <1>1, <1>3, <1>4, <1>5, <1>6 DEF Sending
<1>8. /\ IsPrefix(s.out, Whole(plan).out) /\ IsInjective(s.out)
      /\ \A i \in DOMAIN s.out : s.out[i].n <= Parts
  BY <1>3, <1>7, BeginningIsFaithful
<1> QED
  BY <1>1, <1>8

\* What is gathered when no call is left open is faithful.
LEMMA GatheredIsFaithful ==
    ASSUME StreamTypes, InPieces, NEW s, Gathered(s, srv.said, Come(ad), {}, Closed(ad) \cup Begun(ad))
    PROVE  /\ IsInjective(s.out) /\ \A i \in DOMAIN s.out : s.out[i].n <= Parts
           /\ srv.over => ToSet(s.out) = ToSet(Whole(srv.plan).out)
<1> DEFINE come == Come(ad)
           closed == Closed(ad) \cup Begun(ad)
           whole == Whole(srv.plan).out
           n == Texts(srv.plan)
           tools == srv.plan.tools
<1>1. HandedOn(s.out, srv.said, come, closed)
  BY DEF Gathered
<1>2. /\ srv.plan \in Plan /\ srv.parts \in [Tool -> 0..Parts] /\ srv.said \in BOOLEAN
      /\ ad.tool \in [Tool -> [name : BOOLEAN, args : Nat, emitted : Nat, started : BOOLEAN, stopped : BOOLEAN]]
  BY DEF StreamTypes, Served, Adaptor
<1>3. ASSUME NEW t \in closed
      PROVE  t \in Tool /\ ad.tool[t].started /\ ad.tool[t].name /\ come[t] = ad.tool[t].args /\ come[t] \in 0..Parts
  <2>1. t \in Tool
    BY DEF Closed, Begun
  <2>2. Caught(ad.tool[t]) /\ ad.tool[t].args = srv.parts[t]
    BY <2>1 DEF InPieces
  <2>3. ad.tool[t].started
    BY <2>1, <2>2 DEF Closed, Begun, Caught
  <2>4. come[t] = ad.tool[t].emitted
    BY <2>1 DEF Come
  <2> QED
    BY <1>2, <2>1, <2>2, <2>3, <2>4 DEF Caught
<1>4. /\ whole \in Seq(OutEv) /\ Len(whole) = n + tools /\ n \in {0, 1} /\ tools \in 0..MaxTools
      /\ srv.plan.text => n = 1 /\ whole[1] = TextEv
      /\ ~srv.plan.text => n = 0
      /\ \A t \in 1..tools : t \in Tool /\ whole[n + t] = ToolEv(t, Parts)
  BY <1>2, WholeIs
<1>5. TextEv.n = 0 /\ \A t, p : ToolEv(t, p).n = p
  BY DEF TextEv, ToolEv
<1>6. \A i \in DOMAIN s.out : s.out[i].n <= Parts
  <2> SUFFICES ASSUME NEW i \in DOMAIN s.out PROVE s.out[i].n <= Parts
    OBVIOUS
  <2>1. s.out[i] = TextEv \/ \E t \in closed : s.out[i] = ToolEv(t, come[t])
    BY <1>1 DEF HandedOn
  <2> HIDE DEF come, closed
  <2> QED
    BY <1>3, <1>5, <2>1, ToolIsNat
<1>7. ASSUME srv.over PROVE ToSet(s.out) = ToSet(whole)
  <2>1. srv.said <=> srv.plan.text
    BY <1>7 DEF InPieces
  <2>2. \A t \in closed : t \in 1..tools /\ come[t] = Parts
    <3> SUFFICES ASSUME NEW t \in closed PROVE t \in 1..tools /\ come[t] = Parts
      OBVIOUS
    <3>1. t \in Tool /\ t \in Nat /\ t >= 1
      <4>1. t \in Tool
        BY <1>3
      <4>2. t \in 1..MaxTools /\ MaxTools \in Nat
        BY <4>1, ToolIsNat
      <4> QED
        BY <4>1, <4>2
    <3>2. t <= tools
      <4>1. t > tools => ~ad.tool[t].name
        BY <3>1 DEF InPieces
      <4> QED
        BY <1>3, <1>4, <3>1, <4>1, ToolIsNat
    <3>3. ad.tool[t].args = Parts
      BY <1>7, <3>1, <3>2 DEF InPieces
    <3> QED
      BY <1>3, <1>4, <3>1, <3>2, <3>3, ToolIsNat
  <2>3. \A t \in 1..tools : t \in closed /\ come[t] = Parts
    <3> SUFFICES ASSUME NEW t \in 1..tools PROVE t \in closed /\ come[t] = Parts
      OBVIOUS
    <3>1. t \in Tool /\ t <= tools
      BY <1>4, ToolIsNat
    <3>2. ad.tool[t].stopped
      BY <1>7, <3>1 DEF InPieces
    <3>3. t \in closed
      BY <3>1, <3>2 DEF Closed
    <3> QED
      BY <2>2, <3>3
  <2>4. DOMAIN whole = 1..(n + tools) /\ tools \in Nat
    BY <1>4, ToolIsNat
  <2> HIDE DEF come, closed, whole, n, tools
  <2>5. ASSUME NEW i \in DOMAIN s.out PROVE s.out[i] \in ToSet(whole)
    <3>1. CASE srv.said /\ s.out[i] = TextEv
      <4>1. 1 \in DOMAIN whole /\ whole[1] = s.out[i]
        BY <1>4, <2>1, <2>4, <3>1
      <4> QED
        BY <4>1 DEF ToSet
    <3>2. CASE \E t \in closed : s.out[i] = ToolEv(t, come[t])
      <4>1. PICK t \in closed : s.out[i] = ToolEv(t, come[t])
        BY <3>2
      <4>2. t \in 1..tools /\ s.out[i] = whole[n + t]
        BY <1>4, <2>2, <4>1
      <4>3. n + t \in DOMAIN whole
        BY <1>4, <2>4, <4>2
      <4> QED
        BY <4>2, <4>3 DEF ToSet
    <3> QED
      BY <1>1, <3>1, <3>2 DEF HandedOn
  <2>6. ASSUME NEW i \in DOMAIN whole PROVE whole[i] \in ToSet(s.out)
    <3>1. CASE i <= n
      <4>1. srv.said /\ whole[i] = TextEv
        BY <1>4, <2>1, <2>4, <3>1
      <4> QED
        BY <1>1, <4>1 DEF HandedOn, ToSet
    <3>2. CASE i > n
      <4>1. i - n \in 1..tools /\ n + (i - n) = i
        BY <1>4, <2>4, <3>2
      <4>2. i - n \in closed /\ whole[i] = ToolEv(i - n, come[i - n])
        BY <1>4, <2>3, <4>1
      <4> QED
        BY <1>1, <4>2 DEF HandedOn, ToSet
    <3> QED
      BY <1>4, <2>4, <3>1, <3>2
  <2> QED
    BY <2>5, <2>6 DEF ToSet
<1> QED
  BY <1>1, <1>6, <1>7 DEF HandedOn

LEMMA SaysEvent == ASSUME SaysInv, Event PROVE SaysInv'
<1> DEFINE plan == srv.plan
           b == srv.block
           a == srv.at
           e == Script(plan, b)[a + 1]
           last == a + 1 = Len(Script(plan, b))
           b2 == IF last THEN b + 1 ELSE b
           a2 == IF last THEN 0 ELSE a + 1
<1>1. /\ pc = "events" /\ srv.kind = "anthropic" /\ ~srv.over
      /\ srv' = [srv EXCEPT !.block = b2, !.at = a2, !.over = e.k = "end"]
      /\ st' = Feed(call.client, st, e)
      /\ UNCHANGED <<call, pc, ad>>
  BY DEF Event
<1>2. /\ srv \in Served /\ ad \in Adaptor /\ st \in Assembled /\ call.client \in {"cli", "agent"}
      /\ Sending(call.client, st, plan, b, a, FALSE)
  <2>1. srv \in Served /\ ad \in Adaptor /\ st \in Assembled /\ call.client \in {"cli", "agent"}
    BY DEF SaysInv, StreamTypes
  <2>2. srv.over = FALSE
    BY <1>1, <2>1 DEF Served
  <2>3. Sending(call.client, st, srv.plan, srv.block, srv.at, srv.over)
    BY <1>1 DEF SaysInv, OneByOne
  <2> QED
    BY <2>1, <2>2, <2>3
<1>3. plan \in Plan /\ b \in Nat /\ a \in Nat
  BY <1>2 DEF Served
<1>4. st' \in Assembled /\ Sending(call.client, st', plan, b2, a2, e.k = "end")
  BY <1>1, <1>2, <1>3, SendsOn
<1> HIDE DEF e, last
<1>5. b2 \in Nat /\ a2 \in Nat /\ (e.k = "end") \in BOOLEAN
  BY <1>3
<1>6. /\ srv' \in Served /\ srv'.kind = srv.kind /\ srv'.plan = plan /\ srv'.block = b2 /\ srv'.at = a2
      /\ srv'.over = (e.k = "end")
  <2> HIDE DEF b2, a2, plan, b, a
  <2>1. PICK over \in BOOLEAN : over = (e.k = "end")
    OBVIOUS
  <2>2. srv' = [srv EXCEPT !.block = b2, !.at = a2, !.over = over]
    BY <1>1, <2>1
  <2>3. /\ srv' \in Served /\ srv'.kind = srv.kind /\ srv'.plan = srv.plan /\ srv'.block = b2 /\ srv'.at = a2
        /\ srv'.over = over
    BY <1>2, <1>5, <2>2 DEF Served
  <2> QED
    BY <2>1, <2>3 DEF plan
<1>7. OneByOne'
  <2> HIDE DEF b2, a2, plan, b, a
  <2> QED
    BY <1>1, <1>4, <1>6 DEF OneByOne
<1> QED
  BY <1>1, <1>2, <1>4, <1>6, <1>7 DEF SaysInv, StreamTypes

LEMMA SaysChunk == ASSUME SaysInv, Chunk PROVE SaysInv'
<1>1. /\ pc = "events" /\ srv.kind = "openai" /\ ~srv.over /\ UNCHANGED <<call, pc>>
      /\ srv \in Served /\ ad \in Adaptor /\ st \in Assembled /\ InPieces
  BY DEF Chunk, SaysInv, StreamTypes
<1>2. /\ call.client = "agent" /\ ad.text = srv.said /\ (srv.said => srv.plan.text)
      /\ Gathered(st, srv.said, Come(ad), Begun(ad), Closed(ad))
      /\ srv.said \in BOOLEAN /\ srv.plan \in Plan /\ srv.parts \in [Tool -> 0..Parts]
      /\ ad.text \in BOOLEAN
      /\ ad.tool \in [Tool -> [name : BOOLEAN, args : Nat, emitted : Nat, started : BOOLEAN, stopped : BOOLEAN]]
  BY <1>1 DEF InPieces, Served, Adaptor
<1>3. /\ Come(ad) \in [Tool -> Nat] /\ Begun(ad) \in SUBSET Tool /\ Closed(ad) \in SUBSET Tool
  BY <1>2 DEF Come, Begun, Closed
<1>4. \A t \in Tool : /\ Caught(ad.tool[t]) /\ ad.tool[t].args = srv.parts[t] /\ ~ad.tool[t].stopped
                      /\ (ad.tool[t].args = Parts => ad.tool[t].name)
                      /\ (t > srv.plan.tools => ad.tool[t].args = 0 /\ ~ad.tool[t].name)
  BY <1>1 DEF InPieces
<1>5. PICK got : got = [st EXCEPT !.got = TRUE]
  OBVIOUS
<1>6. got \in Assembled /\ got.got /\ got.out = st.out /\ got.pend = st.pend
  BY <1>1, <1>5 DEF Assembled
<1>7. Gathered(got, srv.said, Come(ad), Begun(ad), Closed(ad))
  BY <1>2, <1>6 DEF Gathered
<1>8. ASSUME NEW v \in Served, NEW a \in Adaptor, NEW s, v = srv', a = ad', s = st',
             v.kind = "openai", a.text = v.said, v.said => v.plan.text, s.got,
             Gathered(s, v.said, Come(a), Begun(a), Closed(a)),
             \A t \in Tool : /\ Caught(a.tool[t]) /\ a.tool[t].args = v.parts[t] /\ (a.tool[t].stopped => v.over)
                             /\ (a.tool[t].args = Parts => a.tool[t].name)
                             /\ (t > v.plan.tools => a.tool[t].args = 0 /\ ~a.tool[t].name)
                             /\ (v.over /\ t <= v.plan.tools => a.tool[t].stopped /\ a.tool[t].args = Parts),
             v.over /\ v.plan.text => v.said
      PROVE  SaysInv'
  <2>1. s \in Assembled
    BY <1>8 DEF Gathered
  <2>2. InPieces'
    BY <1>1, <1>2, <1>8 DEF InPieces
  <2> QED
    BY <1>1, <1>2, <1>8, <2>1, <2>2 DEF SaysInv, StreamTypes
<1>9. CASE /\ srv.plan.text /\ ~srv.said
           /\ srv' = [srv EXCEPT !.said = TRUE] /\ ad' = [ad EXCEPT !.text = TRUE]
           /\ st' = Feed(call.client, st, Ev("text", 0, 0))
  <2>1. /\ srv' \in Served /\ srv'.kind = "openai" /\ srv'.said /\ srv'.plan = srv.plan /\ srv'.parts = srv.parts /\ ~srv'.over
    BY <1>1, <1>9 DEF Served
  <2>2. ad' \in Adaptor /\ ad'.text /\ ad'.tool = ad.tool
    BY <1>1, <1>9 DEF Adaptor
  <2>3. Gathered(st', TRUE, Come(ad), Begun(ad), Closed(ad)) /\ st'.got
    BY <1>2, <1>3, <1>9, GatherText
  <2>4. Come(ad') = Come(ad) /\ Begun(ad') = Begun(ad) /\ Closed(ad') = Closed(ad)
    BY <2>2 DEF Come, Begun, Closed
  <2>5. Gathered(st', srv'.said, Come(ad'), Begun(ad'), Closed(ad'))
    BY <1>1, <2>1, <2>3, <2>4 DEF Served
  <2>6. \A t \in Tool : /\ Caught(ad'.tool[t]) /\ ad'.tool[t].args = srv'.parts[t] /\ (ad'.tool[t].stopped => srv'.over)
                        /\ (ad'.tool[t].args = Parts => ad'.tool[t].name)
                        /\ (t > srv'.plan.tools => ad'.tool[t].args = 0 /\ ~ad'.tool[t].name)
                        /\ (srv'.over /\ t <= srv'.plan.tools => ad'.tool[t].stopped /\ ad'.tool[t].args = Parts)
    BY <1>4, <2>1, <2>2
  <2> QED
    BY <1>8, <1>9, <2>1, <2>2, <2>3, <2>5, <2>6 DEF Served
<1>10. ASSUME NEW t \in 1..srv.plan.tools, NEW name \in BOOLEAN, srv.parts[t] < Parts,
              srv.parts[t] = Parts - 1 => name \/ ad.tool[t].name, srv' = [srv EXCEPT !.parts[t] = @ + 1],
              ad' = IngestTool(ad, t, name).a,
              st' = FeedAll(call.client, [st EXCEPT !.got = TRUE], IngestTool(ad, t, name).es)
       PROVE  SaysInv'
  <2>1. t \in Tool /\ t <= srv.plan.tools /\ t \in Nat /\ srv.plan.tools \in Nat
    BY <1>2, ToolIsNat DEF Plan, Tool
  <2>2. PICK np : np = [srv.parts EXCEPT ![t] = @ + 1]
    OBVIOUS
  <2>3. np \in [Tool -> 0..Parts] /\ np[t] = srv.parts[t] + 1 /\ \A u \in Tool : u # t => np[u] = srv.parts[u]
    BY <1>2, <1>10, <2>1, <2>2, ToolIsNat
  <2>4. srv' = [srv EXCEPT !.parts = np]
    BY <1>1, <1>10, <2>2 DEF Served
  <2>5. srv' \in Served /\ srv'.kind = "openai" /\ srv'.said = srv.said /\ srv'.plan = srv.plan /\ srv'.parts = np /\ ~srv'.over
    BY <1>1, <2>3, <2>4 DEF Served
  <2>6. Caught(ad.tool[t]) /\ ~ad.tool[t].stopped
    BY <1>4, <2>1
  <2>7. /\ ad' \in Adaptor /\ ad'.text = ad.text /\ \A u \in Tool : u # t => ad'.tool[u] = ad.tool[u]
        /\ ad'.tool[t].args = ad.tool[t].args + 1 /\ (ad'.tool[t].name <=> ad.tool[t].name \/ name)
        /\ ~ad'.tool[t].stopped /\ Caught(ad'.tool[t])
        /\ Gathered(st', srv.said, Come(ad'), Begun(ad'), Closed(ad')) /\ st'.got
    <3>1. PICK i : i = IngestTool(ad, t, name)
      OBVIOUS
    <3>2. /\ i.a \in Adaptor /\ i.a.text = ad.text /\ \A u \in Tool : u # t => i.a.tool[u] = ad.tool[u]
          /\ i.a.tool[t].args = ad.tool[t].args + 1 /\ (i.a.tool[t].name <=> ad.tool[t].name \/ name)
          /\ ~i.a.tool[t].stopped /\ Caught(i.a.tool[t])
          /\ Gathered(FeedAll("agent", got, i.es), srv.said, Come(i.a), Begun(i.a), Closed(i.a))
          /\ FeedAll("agent", got, i.es).got
      <4>1. ad \in Adaptor /\ srv.said \in BOOLEAN /\ got.got
        BY <1>1, <1>2, <1>6
      <4>2. PICK said \in BOOLEAN : said = srv.said
        BY <4>1
      <4>3. Gathered(got, said, Come(ad), Begun(ad), Closed(ad))
        BY <1>7, <4>2
      <4>4. LET j == IngestTool(ad, t, name)
            IN  /\ j.a \in Adaptor /\ j.a.text = ad.text /\ \A u \in Tool : u # t => j.a.tool[u] = ad.tool[u]
                /\ j.a.tool[t].args = ad.tool[t].args + 1 /\ (j.a.tool[t].name <=> ad.tool[t].name \/ name)
                /\ ~j.a.tool[t].stopped /\ Caught(j.a.tool[t])
                /\ Gathered(FeedAll("agent", got, j.es), said, Come(j.a), Begun(j.a), Closed(j.a))
                /\ FeedAll("agent", got, j.es).got
        BY <2>1, <2>6, <4>1, <4>3, IngestGathers
      <4> QED
        BY <3>1, <4>2, <4>4
    <3>3. ad' = i.a /\ st' = FeedAll("agent", got, i.es)
      BY <1>2, <1>5, <1>10, <3>1
    <3> QED
      BY <3>2, <3>3
  <2>8. ASSUME NEW u \in Tool
        PROVE  /\ Caught(ad'.tool[u]) /\ ad'.tool[u].args = srv'.parts[u] /\ (ad'.tool[u].stopped => srv'.over)
               /\ (ad'.tool[u].args = Parts => ad'.tool[u].name)
               /\ (u > srv'.plan.tools => ad'.tool[u].args = 0 /\ ~ad'.tool[u].name)
    <3>1. CASE u # t
      BY <1>4, <2>3, <2>5, <2>7, <3>1
    <3>2. CASE u = t
      <4>1. ad.tool[t].args = srv.parts[t] /\ srv.parts[t] \in Nat
        BY <1>2, <1>4, <2>1, ToolIsNat
      <4>2. ad'.tool[t].args = srv'.parts[t] /\ ad'.tool[t].args = srv.parts[t] + 1
        BY <2>3, <2>5, <2>7, <4>1
      <4>3. ad'.tool[t].args = Parts => ad'.tool[t].name
        BY <1>10, <2>7, <4>1, <4>2, ToolIsNat
      <4>4. ~(u > srv'.plan.tools)
        BY <2>1, <2>5, <3>2
      <4> QED
        BY <2>7, <3>2, <4>2, <4>3, <4>4
    <3> QED
      BY <3>1, <3>2
  <2> QED
    BY <1>2, <1>8, <2>5, <2>7, <2>8
<1>11. ASSUME srv.plan.text => srv.said, \A t \in 1..srv.plan.tools : srv.parts[t] = Parts,
              srv' = [srv EXCEPT !.over = TRUE],
              IF srv.plan.tools > 0
              THEN ad' = [Close(ad).a EXCEPT !.reason = TRUE] /\ st' = FeedEach(call.client, got, Close(ad).es)
              ELSE ad' = [ad EXCEPT !.reason = TRUE] /\ st' = got
       PROVE  SaysInv'
  <2>1. /\ srv' \in Served /\ srv'.kind = "openai" /\ srv'.said = srv.said /\ srv'.plan = srv.plan
        /\ srv'.parts = srv.parts /\ srv'.over
    BY <1>1, <1>11 DEF Served
  <2>2. srv.plan.tools \in Nat /\ \A t \in Tool : t \in Nat /\ t >= 1
    BY <1>2, ToolIsNat DEF Plan, Tool
  <2>3. CASE srv.plan.tools > 0
    <3>1. PICK b : b = Close(ad).a
      OBVIOUS
    <3>2. /\ b \in Adaptor /\ b.text = ad.text
          /\ \A t \in Tool : /\ Caught(b.tool[t]) /\ b.tool[t].args = ad.tool[t].args
                             /\ b.tool[t].name = ad.tool[t].name /\ (b.tool[t].stopped <=> ad.tool[t].started)
          /\ Gathered(st', srv.said, Come(b), Begun(b), Closed(b)) /\ st'.got
      <4>1. st' = FeedEach("agent", got, Close(ad).es)
        BY <1>2, <1>11, <2>3
      <4> QED
        BY <1>1, <1>2, <1>4, <1>6, <1>7, <3>1, <4>1, CloseGathers
    <3>3. ad' \in Adaptor /\ ad'.text = b.text /\ ad'.tool = b.tool
      BY <1>11, <2>3, <3>1, <3>2 DEF Adaptor
    <3>4. Gathered(st', srv'.said, Come(ad'), Begun(ad'), Closed(ad'))
      BY <2>1, <3>2, <3>3 DEF Come, Begun, Closed
    <3>5. ASSUME NEW u \in Tool
          PROVE  /\ Caught(ad'.tool[u]) /\ ad'.tool[u].args = srv'.parts[u] /\ (ad'.tool[u].stopped => srv'.over)
                 /\ (ad'.tool[u].args = Parts => ad'.tool[u].name)
                 /\ (u > srv'.plan.tools => ad'.tool[u].args = 0 /\ ~ad'.tool[u].name)
                 /\ (srv'.over /\ u <= srv'.plan.tools => ad'.tool[u].stopped /\ ad'.tool[u].args = Parts)
      <4>1. u <= srv.plan.tools => ad.tool[u].args = Parts /\ ad.tool[u].started
        <5> SUFFICES ASSUME u <= srv.plan.tools PROVE ad.tool[u].args = Parts /\ ad.tool[u].started
          OBVIOUS
        <5>1. u \in 1..srv.plan.tools
          BY <2>2
        <5>2. srv.parts[u] = Parts
          BY <1>11, <5>1
        <5> QED
          BY <1>4, <5>2 DEF Caught
      <4> QED
        BY <1>4, <2>1, <3>2, <3>3, <4>1
    <3>6. ad'.text = srv'.said /\ (srv'.said => srv'.plan.text) /\ (srv'.over /\ srv'.plan.text => srv'.said)
      BY <1>2, <1>11, <2>1, <3>2, <3>3
    <3>7. st'.got /\ ad' \in Adaptor /\ srv' \in Served /\ srv'.kind = "openai"
      BY <2>1, <3>2, <3>3
    <3> QED
      BY <1>8, <3>4, <3>5, <3>6, <3>7
  <2>4. CASE ~(srv.plan.tools > 0)
    <3>1. ad' = [ad EXCEPT !.reason = TRUE] /\ st' = got
      BY <1>11, <2>4
    <3>2. ad' \in Adaptor /\ ad'.text = ad.text /\ ad'.tool = ad.tool
      BY <1>1, <3>1 DEF Adaptor
    <3>3. Gathered(st', srv'.said, Come(ad'), Begun(ad'), Closed(ad')) /\ st'.got
      BY <1>6, <1>7, <2>1, <3>1, <3>2 DEF Come, Begun, Closed
    <3>4. \A u \in Tool : ~(u <= srv'.plan.tools)
      BY <2>1, <2>2, <2>4
    <3>5. \A u \in Tool :
             /\ Caught(ad'.tool[u]) /\ ad'.tool[u].args = srv'.parts[u] /\ (ad'.tool[u].stopped => srv'.over)
             /\ (ad'.tool[u].args = Parts => ad'.tool[u].name)
             /\ (u > srv'.plan.tools => ad'.tool[u].args = 0 /\ ~ad'.tool[u].name)
             /\ (srv'.over /\ u <= srv'.plan.tools => ad'.tool[u].stopped /\ ad'.tool[u].args = Parts)
      BY <1>4, <2>1, <3>2, <3>4
    <3>6. ad'.text = srv'.said /\ (srv'.said => srv'.plan.text) /\ (srv'.over /\ srv'.plan.text => srv'.said)
      BY <1>2, <1>11, <2>1, <3>2
    <3>7. st'.got /\ ad' \in Adaptor /\ srv' \in Served /\ srv'.kind = "openai"
      BY <2>1, <3>2, <3>3
    <3> QED
      BY <1>8, <3>3, <3>5, <3>6, <3>7
  <2> QED
    BY <2>3, <2>4
<1> QED
  BY <1>5, <1>9, <1>10, <1>11 DEF Chunk

LEMMA SaysEof == ASSUME SaysInv, Eof PROVE SaysInv'
<1>1. pc = "events" /\ pc' \in {"done", "lookup"} /\ UNCHANGED <<call, srv, ad>>
  BY DEF Eof, Keep
<1>2. srv \in Served /\ ad \in Adaptor /\ st \in Assembled /\ call.client \in {"cli", "agent"}
  BY DEF SaysInv, StreamTypes
<1>3. PICK s : s = IF srv.kind = "openai" /\ st.got THEN Finish(call.client, st, ad) ELSE st
  OBVIOUS
<1>4. PICK stopped : stopped = (s.stop \/ s.out # <<>>)
  OBVIOUS
<1>5. st' = [s EXCEPT !.stop = stopped] /\ stopped \in BOOLEAN
  <2>1. st' = [s EXCEPT !.stop = s.stop \/ s.out # <<>>]
    BY <1>3 DEF Eof
  <2>2. (s.stop \/ s.out # <<>>) \in BOOLEAN
    OBVIOUS
  <2> QED
    BY <1>4, <2>1, <2>2
<1>6. ASSUME s \in Assembled,
             /\ srv.kind = "anthropic" => IsPrefix(s.out, Whole(srv.plan).out)
             /\ IsInjective(s.out)
             /\ \A i \in DOMAIN s.out : s.out[i].n <= Parts
             /\ srv.over => ToSet(s.out) = ToSet(Whole(srv.plan).out)
      PROVE  SaysInv'
  <2>1. st' \in Assembled /\ st'.out = s.out
    BY <1>5, <1>6 DEF Assembled
  <2>2. Faithful'
    BY <1>1, <1>6, <2>1 DEF Faithful
  <2> QED
    BY <1>1, <1>2, <2>1, <2>2 DEF SaysInv, StreamTypes
<1>7. CASE srv.kind = "anthropic"
  <2>1. s = st
    BY <1>3, <1>7
  <2>2. Sending(call.client, st, srv.plan, srv.block, srv.at, srv.over)
    BY <1>1, <1>7 DEF SaysInv, OneByOne
  <2>3. srv.plan \in Plan /\ srv.block \in Nat /\ srv.at \in Nat /\ srv.over \in BOOLEAN
    BY <1>2 DEF Served
  <2>4. /\ IsPrefix(s.out, Whole(srv.plan).out) /\ IsInjective(s.out)
        /\ \A i \in DOMAIN s.out : s.out[i].n <= Parts
        /\ srv.over => ToSet(s.out) = ToSet(Whole(srv.plan).out)
    <3>1. PICK p \in Plan, b \in Nat, a \in Nat, o \in BOOLEAN : p = srv.plan /\ b = srv.block /\ a = srv.at /\ o = srv.over
      BY <2>3
    <3>2. Sending(call.client, s, p, b, a, o) /\ s \in Assembled
      BY <1>2, <2>1, <2>2, <3>1
    <3>3. /\ IsPrefix(s.out, Whole(p).out) /\ IsInjective(s.out)
          /\ \A i \in DOMAIN s.out : s.out[i].n <= Parts
          /\ o => ToSet(s.out) = ToSet(Whole(p).out)
      BY <3>2, BeginningIsFaithful
    <3> QED
      BY <3>1, <3>3
  <2> QED
    BY <1>2, <1>6, <2>1, <2>4
<1>8. CASE srv.kind = "openai"
  <2>1. InPieces
    BY <1>1, <1>8 DEF SaysInv
  <2>2. CASE ~st.got
    <3>1. s = st /\ st.out = <<>> /\ ~srv.over
      BY <1>3, <2>1, <2>2 DEF InPieces
    <3>2. IsInjective(s.out) /\ \A i \in DOMAIN s.out : s.out[i].n <= Parts
      BY <3>1 DEF IsInjective
    <3> QED
      BY <1>2, <1>6, <1>8, <3>1, <3>2
  <2>3. CASE st.got
    <3>1. /\ call.client = "agent" /\ Gathered(st, srv.said, Come(ad), Begun(ad), Closed(ad))
          /\ \A t \in Tool : Caught(ad.tool[t])
      BY <2>1 DEF InPieces
    <3>2. srv.said \in BOOLEAN
      BY <1>2 DEF Served
    <3>3. s = Finish("agent", st, ad)
      BY <1>3, <1>8, <2>3, <3>1
    <3>4. Gathered(s, srv.said, Come(ad), {}, Closed(ad) \cup Begun(ad))
      BY <1>2, <2>3, <3>1, <3>2, <3>3, FinishGathers
    <3>5. /\ IsInjective(s.out) /\ \A i \in DOMAIN s.out : s.out[i].n <= Parts
          /\ srv.over => ToSet(s.out) = ToSet(Whole(srv.plan).out)
      BY <2>1, <3>4, GatheredIsFaithful DEF SaysInv
    <3>6. s \in Assembled
      BY <3>4 DEF Gathered
    <3> QED
      BY <1>6, <1>8, <3>5, <3>6
  <2> QED
    BY <2>2, <2>3
<1> QED
  BY <1>2, <1>7, <1>8 DEF Served

LEMMA SaysStep == ASSUME AnswerInv, SaysInv, [Next]_vars PROVE SaysInv'
<1>0. srv \in Served /\ ad \in Adaptor /\ st \in Assembled /\ call.client \in {"cli", "agent"}
  BY DEF SaysInv, StreamTypes
<1>1. ASSUME NEW client \in {"cli", "agent"}, NEW k \in Key, Stream(client, k) PROVE SaysInv'
  <2>1. call'.client = client /\ pc' = "preflight" /\ srv' = NoAnswer /\ st' = FreshSt /\ ad' = FreshAd
    BY <1>1 DEF Stream
  <2> QED
    BY <2>1, FreshIs DEF SaysInv, StreamTypes
<1>2. CASE Preflight
  <2>1. pc' \in {"send", "send2", "failed"} /\ UNCHANGED <<call, srv, ad, st>>
    BY <1>2 DEF Preflight, Fails, Keep
  <2> QED
    BY <1>0, <2>1 DEF SaysInv, StreamTypes
<1>3. CASE SendError
  <2>1. pc' \in {"exhausted", "send", "send2", "fatal"} /\ UNCHANGED <<call, srv, ad, st>>
    BY <1>3 DEF SendError, Keep
  <2> QED
    BY <1>0, <2>1 DEF SaysInv, StreamTypes
<1>4. CASE SendFails
  <2>1. /\ pc' \in {"preflight", "failed"} /\ UNCHANGED call
        /\ srv' \in {srv, NoAnswer} /\ ad' \in {ad, FreshAd} /\ st' \in {st, FreshSt}
    BY <1>4 DEF SendFails, Fails, Keep
  <2> QED
    BY <1>0, <2>1, FreshIs DEF SaysInv, StreamTypes
<1>5. CASE SendOk
  <2>1. PICK kind \in {"anthropic", "openai"}, plan \in Plan :
           (call.client = "cli" => kind = "anthropic") /\ Answered(kind, plan)
    BY <1>5 DEF SendOk
  <2>2. pc' = "events" /\ st' = FreshSt /\ ad' = FreshAd /\ UNCHANGED call
    BY <1>5 DEF SendOk
  <2>3. PICK v : v = srv'
    OBVIOUS
  <2>4. PICK m : m = answers'
    OBVIOUS
  <2>5. v = [NoAnswer EXCEPT !.n = m, !.kind = kind, !.plan = plan]
    BY <2>1, <2>3, <2>4 DEF Answered
  <2>6. m \in Nat
    BY <2>1, <2>4 DEF AnswerInv, Answered
  <2>7. /\ v \in Served /\ v.kind = kind /\ v.plan = plan /\ v.block = 0 /\ v.at = 0 /\ v.said = FALSE /\ v.over = FALSE
        /\ \A t \in Tool : v.parts[t] = 0
    BY <2>1, <2>5, <2>6, FreshIs DEF NoAnswer, Served
  <2>8. kind = "anthropic" => OneByOne'
    <3>1. Sending(call.client, FreshSt, plan, 0, 0, FALSE)
      BY <1>0, <2>1, SendsFirst
    <3> QED
      BY <2>2, <2>3, <2>7, <3>1 DEF OneByOne
  <2>9. kind = "openai" => InPieces'
    <3> SUFFICES ASSUME kind = "openai" PROVE InPieces'
      OBVIOUS
    <3>1. call.client = "agent"
      BY <1>0, <2>1
    <3>2. PICK a : a = FreshAd
      OBVIOUS
    <3>3. /\ a.text = FALSE /\ a.tool = [t \in Tool |-> [name |-> FALSE, args |-> 0, emitted |-> 0,
                                                        started |-> FALSE, stopped |-> FALSE]]
      BY <3>2 DEF FreshAd
    <3>4. \A t \in Tool : /\ ~a.tool[t].name /\ a.tool[t].args = 0 /\ a.tool[t].emitted = 0
                          /\ ~a.tool[t].started /\ ~a.tool[t].stopped
      BY <3>3
    <3>5. Begun(a) = {} /\ Closed(a) = {}
      BY <3>4 DEF Begun, Closed
    <3>6. HandedOn(<<>>, FALSE, Come(a), {})
      BY DEF HandedOn, IsInjective
    <3>7. Gathered(FreshSt, FALSE, Come(a), Begun(a), Closed(a))
      BY <3>5, <3>6, FreshIs DEF Gathered
    <3>8. \A t \in Tool : Caught(a.tool[t])
      BY <3>4 DEF Caught
    <3>9. 0 # Parts /\ FreshSt.out = <<>>
      BY ToolIsNat, FreshIs
    <3> QED
      BY <2>2, <2>3, <2>7, <3>1, <3>2, <3>3, <3>4, <3>7, <3>8, <3>9 DEF InPieces
  <2> QED
    BY <1>0, <2>1, <2>2, <2>3, <2>7, <2>8, <2>9, FreshIs DEF SaysInv, StreamTypes
<1>6. CASE Event
  BY <1>6, SaysEvent
<1>7. CASE Chunk
  BY <1>7, SaysChunk
<1>8. CASE StreamError
  <2>1. pc' \in {"fatal", "exhausted"} /\ UNCHANGED <<call, srv, ad, st>>
    BY <1>8 DEF StreamError, Keep
  <2> QED
    BY <1>0, <2>1 DEF SaysInv, StreamTypes
<1>9. CASE Stall
  <2>1. pc' = "preflight" /\ srv' = NoAnswer /\ ad' = FreshAd /\ UNCHANGED <<call, st>>
    BY <1>9 DEF Stall, Keep
  <2> QED
    BY <1>0, <2>1, FreshIs DEF SaysInv, StreamTypes
<1>10. CASE Eof
  BY <1>10, SaysEof
<1>11. CASE Lookup
  <2>1. CASE /\ call.client = "cli" /\ cache[call.key] # 0
             /\ srv' = [NoAnswer EXCEPT !.n = cache[call.key], !.over = TRUE]
             /\ st' = [FreshSt EXCEPT !.stop = TRUE] /\ pc' = "done"
    <3>1. UNCHANGED <<call, ad>>
      BY <1>11 DEF Lookup
    <3>2. PICK v : v = srv'
      OBVIOUS
    <3>3. PICK m : m = cache[call.key]
      OBVIOUS
    <3>4. m \in Nat
      BY <1>11, <3>3 DEF AnswerInv, Lookup
    <3>5. v = [NoAnswer EXCEPT !.n = m, !.over = TRUE]
      BY <2>1, <3>2, <3>3
    <3>6. v \in Served /\ v.kind = "anthropic" /\ v.plan = [text |-> FALSE, tools |-> 0]
      BY <3>4, <3>5, FreshIs DEF NoAnswer, Served
    <3>7. st' \in Assembled /\ st'.out = <<>>
      BY <2>1, FreshIs DEF Assembled
    <3>8. Whole(v.plan).out = <<>>
      <4>1. v.plan \in Plan
        BY <3>6 DEF Served
      <4>2. Whole(v.plan).out \in Seq(OutEv) /\ Len(Whole(v.plan).out) = Texts(v.plan) + v.plan.tools
        BY <4>1, WholeIs
      <4>3. Texts(v.plan) = 0 /\ v.plan.tools = 0
        BY <3>6 DEF Texts
      <4> QED
        BY <4>2, <4>3
    <3>9. IsPrefix(<<>>, <<>>)
      BY DEF IsPrefix
    <3>10. Faithful'
      BY <3>2, <3>7, <3>8, <3>9 DEF Faithful, IsInjective
    <3> QED
      BY <1>0, <2>1, <3>1, <3>2, <3>6, <3>7, <3>10 DEF SaysInv, StreamTypes
  <2>2. CASE pc' = "preflight2" /\ UNCHANGED <<srv, st>>
    <3>1. UNCHANGED <<call, ad>>
      BY <1>11 DEF Lookup
    <3> QED
      BY <1>0, <2>2, <3>1 DEF SaysInv, StreamTypes
  <2> QED
    BY <1>11, <2>1, <2>2 DEF Lookup
<1>12. CASE SendOk2
  <2>1. PICK plan \in Plan : Answered(srv.kind, plan) /\ st' = Whole(plan)
    BY <1>12 DEF SendOk2
  <2>2. pc' = "done" /\ UNCHANGED <<call, ad>>
    BY <1>12 DEF SendOk2
  <2>3. PICK v : v = srv'
    OBVIOUS
  <2>4. PICK m : m = answers'
    OBVIOUS
  <2>5. PICK kind \in {"anthropic", "openai"} : kind = srv.kind
    BY <1>0 DEF Served
  <2>6. v = [NoAnswer EXCEPT !.n = m, !.kind = kind, !.plan = plan] /\ m \in Nat
    BY <2>1, <2>3, <2>4, <2>5 DEF Answered, AnswerInv
  <2>7. v \in Served /\ v.plan = plan /\ v.over = FALSE
    BY <2>5, <2>6, FreshIs DEF NoAnswer, Served
  <2>8. Faithful'
    BY <2>1, <2>3, <2>7, WholeIsFaithful DEF Faithful
  <2> QED
    BY <1>0, <2>1, <2>2, <2>3, <2>7, <2>8, WholeIs DEF SaysInv, StreamTypes
<1>13. CASE Return
  <2>1. pc' = "idle" /\ UNCHANGED <<call, srv, ad, st>>
    BY <1>13 DEF Return
  <2> QED
    BY <1>0, <2>1 DEF SaysInv, StreamTypes
<1>14. CASE UNCHANGED vars
  BY <1>14 DEF vars, SaysInv, StreamTypes, OneByOne, InPieces, Faithful
<1> QED
  BY <1>1, <1>2, <1>3, <1>4, <1>5, <1>6, <1>7, <1>8, <1>9, <1>10, <1>11, <1>12, <1>13, <1>14 DEF Next

(***************************************************************************)
(* StreamFaithful, a part of StreamKept: the turn gets the answer the      *)
(* server gave to this request and no other's; all of it when the server   *)
(* finished it, each tool call once and never more of its input than was   *)
(* sent, however Anthropic's events and OpenAI's pieces are cut and take   *)
(* turns and wherever the connection ends; for any number of tool calls    *)
(* and pieces of their input.                                              *)
(***************************************************************************)
THEOREM StreamsAreFaithful == Spec => []StreamFaithful
<1>1. Init => AnswerInv /\ SaysInv
  <2>1. Init => AnswerInv
    BY DEF Init, AnswerInv, NoAnswer, NoCall
  <2>2. ASSUME Init PROVE SaysInv
    <3>1. pc = "idle" /\ srv = NoAnswer /\ ad = FreshAd /\ st = FreshSt /\ call.client = "cli"
      BY <2>2 DEF Init, NoCall
    <3> QED
      BY <3>1, FreshIs DEF SaysInv, StreamTypes
  <2> QED
    BY <2>1, <2>2
<1>2. AnswerInv /\ SaysInv /\ [Next]_vars => AnswerInv' /\ SaysInv'
  BY AnswerStep, SaysStep
<1>3. AnswerInv /\ SaysInv => StreamFaithful
  BY DEF AnswerInv, SaysInv, StreamFaithful, OwnAnswer, Faithful
<1> QED
  BY <1>1, <1>2, <1>3, PTL DEF Spec
-----------------------------------------------------------------------------
(***************************************************************************)
(* The trace, for any clones of a tracer and any lost writes.  What a      *)
(* holder has still to record is an event, or an event without a number    *)
(* and the record of the same.  Only taking a number adds to the numbered  *)
(* records, and the number is above all there were; so of one holder's     *)
(* records the newest tells in which state it was when it took its number. *)
(***************************************************************************)
EventName == {"started", "succeeded", "failed", "message_usage", "turn_started", "turn_completed",
              "turn_failed", "assistant_iteration_completed", "tool_execution_started",
              "tool_execution_finished"}
HolderPc == {"idle", "user", "iterate", "send", "sent", "answered", "answer", "tool", "result",
             "finish", "complete", "failed", "over"}
TraceRec == [by : Holder, name : EventName, n : Nat, trace : BOOLEAN, seq : Int]
TraceJob == [pc : HolderPc, attempt : Nat, tools : Nat, todo : Seq(TraceRec)]

Written == (UNION lines) \cup unwritten
Numbered == {e \in Recorded : e.trace /\ e.seq # Unnumbered}
Mine(h) == {e \in Numbered : e.by = h}

TodoShape(h, q) ==
    /\ Len(q) <= 2
    /\ \A k \in 1..Len(q) : /\ q[k].by = h /\ (q[k].trace <=> k = Len(q))
                            /\ q[k].seq # Unnumbered => k = 1 /\ q[k].trace
Newest(j) == j.todo[Len(j.todo)]
Pending(j) == j.todo # <<>> /\ Newest(j).seq = Unnumbered

TraceTypes ==
    /\ sequence \in Nat /\ holder \in [Holder -> TraceJob]
    /\ lines \subseteq SUBSET TraceRec /\ unwritten \subseteq TraceRec /\ open \subseteq unwritten
    /\ \A h \in Holder : TodoShape(h, holder[h].todo)
NumbersInv ==
    /\ \A e \in Written : e.trace => e.seq # Unnumbered
    /\ \A e \in Numbered : e.seq \in 0..(sequence - 1)
    /\ \A e, f \in Numbered : e.seq = f.seq => e = f
    /\ \A i \in 0..(sequence - 1) : \E e \in Numbered : e.seq = i
LinesInv == \A line \in lines : \E e : line \ unwritten \subseteq {e}

\* The attempts that the records S of one holder tell of, and the turn's end.
HasOutcome(f, S) ==
    \E o \in S : /\ OfRequest(o) /\ o.name # "started" /\ o.n = f.n /\ o.seq > f.seq
                 /\ \A x \in S : OfRequest(x) => x.seq \notin (f.seq + 1)..(o.seq - 1)
Settled(S) == \A f \in S : f.name = "started" => HasOutcome(f, S)
OpenAt(S, n) ==
    \E e \in S : /\ e.name = "started" /\ e.n = n /\ \A x \in S : OfRequest(x) => x.seq <= e.seq
                 /\ \A f \in S : f.name = "started" /\ f # e => HasOutcome(f, S)
AttemptTold(j, S) ==
    /\ ~Pending(j) => IF j.pc = "sent" THEN OpenAt(S, j.attempt) ELSE Settled(S)
    /\ Pending(j) =>
          /\ Newest(j).name = "started" => j.pc = "sent" /\ Newest(j).n = j.attempt /\ Settled(S)
          /\ Newest(j).name \in {"succeeded", "failed"} => j.pc # "sent" /\ OpenAt(S, Newest(j).n)
          /\ ~OfRequest(Newest(j)) => j.pc # "sent" /\ Settled(S)

TurnEnd == {"turn_completed", "turn_failed"}
Unended(S) == \A e \in S : e.name \notin TurnEnd
EndTold(j, S, silent) ==
    /\ silent => j.pc = "over" /\ j.todo = <<>>
    /\ j.pc # "over" \/ silent => Unended(S) /\ (Pending(j) => Newest(j).name \notin TurnEnd)
    /\ j.pc = "over" /\ ~silent =>
          IF Pending(j) THEN Newest(j).name \in TurnEnd /\ Unended(S)
          ELSE \E e \in S : e.name \in TurnEnd /\ \A f \in S : f.name \in TurnEnd => f = e

TraceInv ==
    /\ TraceTypes /\ NumbersInv /\ LinesInv
    /\ \A h \in Holder : AttemptTold(holder[h], Mine(h))
    /\ \A h \in Runner : EndTold(holder[h], Mine(h), h \in unsaid)

\* A record y that is newer than all of S.
LEMMA NewerRecord ==
    ASSUME NEW S \in SUBSET TraceRec, NEW y \in TraceRec, \A x \in S : x.seq < y.seq
    PROVE  /\ ~OfRequest(y) /\ Settled(S) => Settled(S \cup {y})
           /\ ~OfRequest(y) => \A n : OpenAt(S, n) => OpenAt(S \cup {y}, n)
           /\ y.name = "started" /\ Settled(S) => OpenAt(S \cup {y}, y.n)
           /\ y.name \in {"succeeded", "failed"} /\ OpenAt(S, y.n) => Settled(S \cup {y})
<1> DEFINE T == S \cup {y}
<1>1. \A x \in S : x.seq \in Int /\ y.seq \in Int /\ x.seq < y.seq /\ x # y
  BY DEF TraceRec
<1>2. ASSUME NEW f \in S, HasOutcome(f, S) PROVE HasOutcome(f, T)
  <2>1. PICK o \in S : /\ OfRequest(o) /\ o.name # "started" /\ o.n = f.n /\ o.seq > f.seq
                       /\ \A x \in S : OfRequest(x) => x.seq \notin (f.seq + 1)..(o.seq - 1)
    BY <1>2 DEF HasOutcome
  <2>2. y.seq \notin (f.seq + 1)..(o.seq - 1)
    BY <1>1
  <2> QED
    BY <2>1, <2>2 DEF HasOutcome
<1>3. ~OfRequest(y) /\ Settled(S) => Settled(T)
  BY <1>2 DEF Settled, OfRequest
<1>4. ASSUME ~OfRequest(y), NEW n, OpenAt(S, n) PROVE OpenAt(T, n)
  <2>1. PICK e \in S : /\ e.name = "started" /\ e.n = n /\ \A x \in S : OfRequest(x) => x.seq <= e.seq
                       /\ \A f \in S : f.name = "started" /\ f # e => HasOutcome(f, S)
    BY <1>4 DEF OpenAt
  <2>2. \A f \in T : f.name = "started" /\ f # e => HasOutcome(f, T)
    BY <1>2, <1>4, <2>1 DEF OfRequest
  <2> QED
    BY <1>4, <2>1, <2>2 DEF OpenAt
<1>5. ASSUME y.name = "started", Settled(S) PROVE OpenAt(T, y.n)
  <2>1. \A x \in T : OfRequest(x) => x.seq <= y.seq
    BY <1>1 DEF TraceRec
  <2>2. \A f \in T : f.name = "started" /\ f # y => HasOutcome(f, T)
    BY <1>2, <1>5 DEF Settled
  <2> QED
    BY <1>5, <2>1, <2>2 DEF OpenAt
<1>6. ASSUME y.name \in {"succeeded", "failed"}, OpenAt(S, y.n) PROVE Settled(T)
  <2>1. PICK e \in S : /\ e.name = "started" /\ e.n = y.n /\ \A x \in S : OfRequest(x) => x.seq <= e.seq
                       /\ \A f \in S : f.name = "started" /\ f # e => HasOutcome(f, S)
    BY <1>6 DEF OpenAt
  <2>2. HasOutcome(e, T)
    <3>1. OfRequest(y) /\ y.name # "started" /\ y.n = e.n /\ y.seq > e.seq
      BY <1>1, <1>6, <2>1 DEF OfRequest
    <3>2. \A x \in S : OfRequest(x) => x.seq \notin (e.seq + 1)..(y.seq - 1)
      BY <1>1, <2>1
    <3>3. y.seq \notin (e.seq + 1)..(y.seq - 1)
      BY <1>1
    <3> QED
      BY <3>1, <3>2, <3>3 DEF HasOutcome
  <2> QED
    BY <1>2, <1>6, <2>1, <2>2 DEF Settled
<1> QED
  BY <1>3, <1>4, <1>5, <1>6

\* What a holder is given to record, and the record at the end of it.
Shaped(h, ev, name, n) ==
    /\ ev \in Seq(TraceRec) /\ TodoShape(h, ev) /\ ev # <<>> /\ ev[1].seq = Unnumbered
    /\ LET last == ev[Len(ev)] IN last.seq = Unnumbered /\ last.name = name /\ last.n = n
\* What Says and Doubled leave to record has that form.
LEMMA SaysShaped ==
    ASSUME NEW h \in Holder, NEW name \in EventName
    PROVE  Shaped(h, Says(h, name), name, 0)
<1>0. ASSUME NEW b \in BOOLEAN
      PROVE  LET e == TelemetryEvent(h, name, 0, b)
             IN  e \in TraceRec /\ e.by = h /\ e.trace = b /\ e.seq = Unnumbered /\ e.name = name /\ e.n = 0
  BY DEF TelemetryEvent, TraceRec, Unnumbered
<1> DEFINE z == TelemetryEvent(h, name, 0, TRUE)
<1>1. Says(h, name) = <<z>>
  BY DEF Says
<1>2. z \in TraceRec /\ z.by = h /\ z.trace /\ z.seq = Unnumbered /\ z.name = name /\ z.n = 0
  BY <1>0
<1> HIDE DEF z
<1>3. PICK q : q = <<z>>
  OBVIOUS
<1>4. q \in Seq(TraceRec) /\ Len(q) = 1 /\ q[1] = z
  BY <1>2, <1>3
<1>5. q # <<>>
  BY <1>4
<1>6. TodoShape(h, q)
  BY <1>2, <1>4 DEF TodoShape
<1>7. Shaped(h, q, name, 0)
  BY <1>2, <1>4, <1>5, <1>6 DEF Shaped
<1> QED
  BY <1>1, <1>3, <1>7

LEMMA DoubledShaped ==
    ASSUME NEW h \in Holder, NEW name \in EventName, NEW n \in Nat
    PROVE  Shaped(h, Doubled(h, name, n), name, n)
<1>0. ASSUME NEW b \in BOOLEAN
      PROVE  LET e == TelemetryEvent(h, name, n, b)
             IN  e \in TraceRec /\ e.by = h /\ e.trace = b /\ e.seq = Unnumbered /\ e.name = name /\ e.n = n
  BY DEF TelemetryEvent, TraceRec, Unnumbered
<1> DEFINE r == TelemetryEvent(h, name, n, TRUE)
           u == TelemetryEvent(h, name, n, FALSE)
<1>1. Doubled(h, name, n) = <<u, r>>
  BY DEF Doubled
<1>2. r \in TraceRec /\ r.by = h /\ r.trace /\ r.seq = Unnumbered /\ r.name = name /\ r.n = n
  BY <1>0
<1>3. u \in TraceRec /\ u.by = h /\ ~u.trace /\ u.seq = Unnumbered
  BY <1>0
<1> HIDE DEF r, u
<1>4. PICK q : q = <<u, r>>
  OBVIOUS
<1>5. q \in Seq(TraceRec) /\ Len(q) = 2 /\ q[1] = u /\ q[2] = r
  BY <1>2, <1>3, <1>4
<1>6. q # <<>>
  BY <1>5
<1>7. TodoShape(h, q)
  BY <1>2, <1>3, <1>5 DEF TodoShape
<1>8. Shaped(h, q, name, n)
  BY <1>2, <1>3, <1>5, <1>6, <1>7 DEF Shaped
<1> QED
  BY <1>1, <1>4, <1>8

\* Which records are numbered, in this state and the next.
LEMMA NumberedAre ==
    /\ \A e : e \in Numbered <=>
          /\ e.trace /\ e.seq # Unnumbered
          /\ e \in Written \/ \E g \in Holder : holder[g].todo # <<>> /\ e = Head(holder[g].todo)
    /\ \A e : (e \in Numbered') <=>
          /\ e.trace /\ e.seq # Unnumbered
          /\ e \in Written' \/ \E g \in Holder : holder'[g].todo # <<>> /\ e = Head(holder'[g].todo)
  BY DEF Numbered, Recorded, Written, Due

\* Everything recorded is a record of a holder.
LEMMA NumberedTyped ==
    ASSUME TraceTypes
    PROVE  Numbered \subseteq TraceRec /\ Written \subseteq TraceRec
<1>1. Written \subseteq TraceRec
  BY DEF TraceTypes, Written
<1>2. \A g \in Holder : holder[g].todo # <<>> => Head(holder[g].todo) \in TraceRec
  <2> SUFFICES ASSUME NEW g \in Holder, holder[g].todo # <<>> PROVE Head(holder[g].todo) \in TraceRec
    OBVIOUS
  <2>1. holder[g].todo \in Seq(TraceRec)
    BY DEF TraceTypes, TraceJob
  <2> QED
    BY <2>1, HeadTailProperties
<1> QED
  BY <1>1, <1>2, NumberedAre

\* What may follow a job with nothing left to record.
Tells(h, j, r) ==
    \/ r.todo = <<>> /\ j.pc # "sent" /\ r.pc # "sent"
    \/ /\ j.pc # "sent" /\ r.pc # "sent" /\ r.todo # <<>>
       /\ Newest(r).seq = Unnumbered /\ ~OfRequest(Newest(r))
    \/ /\ j.pc # "sent" /\ r.pc = "sent" /\ r.todo # <<>>
       /\ Newest(r).seq = Unnumbered /\ Newest(r).name = "started" /\ Newest(r).n = r.attempt
    \/ /\ j.pc = "sent" /\ r.pc # "sent" /\ r.todo # <<>>
       /\ Newest(r).seq = Unnumbered /\ Newest(r).name \in {"succeeded", "failed"} /\ Newest(r).n = j.attempt
EndsAs(j, r, silent) ==
    /\ j.pc # "over"
    /\ \/ r.pc # "over" /\ ~silent /\ (r.todo # <<>> => Newest(r).name \notin TurnEnd)
       \/ r.pc = "over" /\ silent /\ r.todo = <<>>
       \/ /\ r.pc = "over" /\ ~silent /\ r.todo # <<>>
          /\ Newest(r).seq = Unnumbered /\ Newest(r).name \in TurnEnd

\* The records of a holder still tell of its attempts when it goes on as it may.
LEMMA AttemptStaysTold ==
    ASSUME NEW h, NEW j, NEW r, NEW S, j.todo = <<>>, AttemptTold(j, S), Tells(h, j, r)
    PROVE  AttemptTold(r, S)
<1>1. IF j.pc = "sent" THEN OpenAt(S, j.attempt) ELSE Settled(S)
  BY DEF AttemptTold, Pending
<1>2. CASE r.todo = <<>> /\ j.pc # "sent" /\ r.pc # "sent"
  BY <1>1, <1>2 DEF AttemptTold, Pending
<1>3. CASE /\ j.pc # "sent" /\ r.pc # "sent" /\ r.todo # <<>>
           /\ Newest(r).seq = Unnumbered /\ ~OfRequest(Newest(r))
  BY <1>1, <1>3 DEF AttemptTold, Pending, OfRequest
<1>4. CASE /\ j.pc # "sent" /\ r.pc = "sent" /\ r.todo # <<>>
           /\ Newest(r).seq = Unnumbered /\ Newest(r).name = "started" /\ Newest(r).n = r.attempt
  BY <1>1, <1>4 DEF AttemptTold, Pending, OfRequest
<1>5. CASE /\ j.pc = "sent" /\ r.pc # "sent" /\ r.todo # <<>>
           /\ Newest(r).seq = Unnumbered /\ Newest(r).name \in {"succeeded", "failed"} /\ Newest(r).n = j.attempt
  BY <1>1, <1>5 DEF AttemptTold, Pending, OfRequest
<1> QED
  BY <1>2, <1>3, <1>4, <1>5 DEF Tells

\* A holder that has recorded all goes on.
LEMMA GoingOnKeeps ==
    ASSUME TraceInv, NEW h \in Holder, NEW r \in TraceJob,
           holder[h].todo = <<>>, holder' = [holder EXCEPT ![h] = r],
           UNCHANGED <<sequence, lines, open, unwritten>>,
           TodoShape(h, r.todo), r.todo # <<>> => r.todo[1].seq = Unnumbered,
           \A g \in Runner : g # h => (g \in unsaid' <=> g \in unsaid),
           Tells(h, holder[h], r), h \in Runner => EndsAs(holder[h], r, h \in unsaid')
    PROVE  TraceInv'
<1>1. /\ holder' \in [Holder -> TraceJob] /\ holder'[h] = r
      /\ \A g \in Holder : g # h => holder'[g] = holder[g]
      /\ Runner \subseteq Holder
  BY DEF TraceInv, TraceTypes, Holder
<1>2. Written' = Written
  BY DEF Written
<1>3. r.todo # <<>> => Head(r.todo).seq = Unnumbered
  <2> SUFFICES ASSUME r.todo # <<>> PROVE Head(r.todo).seq = Unnumbered
    OBVIOUS
  <2>1. r.todo \in Seq(TraceRec)
    BY DEF TraceJob
  <2>2. Head(r.todo) = r.todo[1]
    BY <2>1
  <2> QED
    BY <2>2
<1>4. Numbered' = Numbered
  <2>1. ASSUME NEW e PROVE (e \in Numbered') <=> e \in Numbered
    <3>1. ASSUME NEW g \in Holder, e.seq # Unnumbered
          PROVE  (holder'[g].todo # <<>> /\ e = Head(holder'[g].todo))
                    <=> (holder[g].todo # <<>> /\ e = Head(holder[g].todo))
      BY <1>1, <1>3, <3>1
    <3> QED
      BY <1>2, <3>1, NumberedAre
  <2> QED
    BY <2>1
<1>5. \A g \in Holder : Mine(g)' = Mine(g)
  BY <1>4 DEF Mine
<1>6. TraceTypes'
  BY <1>1 DEF TraceInv, TraceTypes
<1>7. NumbersInv' /\ LinesInv'
  BY <1>2, <1>4 DEF TraceInv, NumbersInv, LinesInv
<1>8. ASSUME NEW g \in Holder PROVE AttemptTold(holder'[g], Mine(g)')
  <2>1. AttemptTold(holder[g], Mine(g))
    BY DEF TraceInv
  <2>2. CASE g = h
    <3>1. AttemptTold(r, Mine(h))
      BY <2>1, <2>2, AttemptStaysTold
    <3> QED
      BY <3>1, <2>2, <1>1, <1>5
  <2> QED
    BY <2>1, <2>2, <1>1, <1>5
<1>9. ASSUME NEW g \in Runner PROVE EndTold(holder'[g], Mine(g)', g \in unsaid')
  <2>1. EndTold(holder[g], Mine(g), g \in unsaid) /\ g \in Holder
    BY <1>1 DEF TraceInv
  <2>2. CASE g = h
    <3>1. EndTold(r, Mine(h), h \in unsaid')
      <4>1. EndTold(holder[h], Mine(h), h \in unsaid) /\ EndsAs(holder[h], r, h \in unsaid')
        BY <2>1, <2>2
      <4>2. Unended(Mine(h))
        BY <4>1 DEF EndTold, EndsAs
      <4> QED
        BY <4>1, <4>2 DEF EndTold, EndsAs, Pending
    <3> QED
      BY <3>1, <2>1, <2>2, <1>1, <1>5
  <2>3. CASE g # h
    <3>1. holder'[g] = holder[g] /\ Mine(g)' = Mine(g) /\ (g \in unsaid' <=> g \in unsaid)
      BY <2>1, <2>3, <1>1, <1>5
    <3> QED
      BY <3>1, <2>1 DEF EndTold
  <2> QED
    BY <2>2, <2>3
<1>10. \A g \in Holder : AttemptTold(holder[g], Mine(g))'
  BY <1>8 DEF AttemptTold, Pending, Newest
<1>11. \A g \in Runner : EndTold(holder[g], Mine(g), g \in unsaid)'
  BY <1>9 DEF EndTold, Pending, Newest
<1> QED
  BY <1>6, <1>7, <1>10, <1>11 DEF TraceInv

\* A clone takes a number: above all there were, so what it numbers is its newest.
LEMMA NumberKeeps ==
    ASSUME TraceInv, NEW h \in Holder, TakeNumber(h)
    PROVE  TraceInv'
<1>1. PICK q : q = holder[h].todo
  OBVIOUS
<1>2. PICK n : n = sequence
  OBVIOUS
<1>3. n \in Nat /\ holder \in [Holder -> TraceJob] /\ holder[h] \in TraceJob /\ TodoShape(h, q)
  BY <1>1, <1>2 DEF TraceInv, TraceTypes
<1>4. q \in Seq(TraceRec) /\ q # <<>> /\ Head(q).trace /\ Head(q).seq = Unnumbered
  BY <1>1, <1>3 DEF TakeNumber, Due, TraceJob
<1>5. Len(q) = 1 /\ Head(q) = q[1]
  BY <1>3, <1>4 DEF TodoShape
<1>6. PICK d \in TraceRec : d = q[1] /\ d.trace /\ d.seq = Unnumbered /\ d.by = h
  BY <1>3, <1>4, <1>5 DEF TodoShape
<1>7. PICK y : y = [d EXCEPT !.seq = n]
  OBVIOUS
<1>8. /\ y \in TraceRec /\ y.trace /\ y.seq = n /\ y.by = h /\ y.name = d.name /\ y.n = d.n
      /\ y.seq # Unnumbered
  BY <1>3, <1>6, <1>7 DEF TraceRec, Unnumbered
<1>9. PICK j \in TraceJob : j = holder[h] /\ j.todo = q
  BY <1>1, <1>3
<1>10. PICK p : p = [q EXCEPT ![1] = y]
  OBVIOUS
<1>11. p \in Seq(TraceRec) /\ Len(p) = 1 /\ p[1] = y /\ p # <<>> /\ Head(p) = y
  BY <1>4, <1>5, <1>8, <1>10
<1>12. PICK r : r = [j EXCEPT !.todo = p]
  OBVIOUS
<1>13. r \in TraceJob /\ r.todo = p /\ r.pc = j.pc /\ r.attempt = j.attempt
  BY <1>9, <1>11, <1>12 DEF TraceJob
<1>14. holder' = [holder EXCEPT ![h] = r]
  <2>1. holder' = [holder EXCEPT ![h].todo[1].seq = n]
    BY <1>2 DEF TakeNumber
  <2>2. /\ holder' = [g \in Holder |-> IF g = h THEN holder'[h] ELSE holder[g]]
        /\ holder'[h] = [holder[h] EXCEPT !.todo[1].seq = n]
    BY <2>1, <1>3
  <2>3. holder'[h] = [j EXCEPT !.todo[1].seq = n]
    BY <2>2, <1>9
  <2>4. [j EXCEPT !.todo[1].seq = n] = [j EXCEPT !.todo = [j.todo EXCEPT ![1].seq = n]]
    BY <1>9 DEF TraceJob
  <2>5. [q EXCEPT ![1].seq = n] = [q EXCEPT ![1] = [q[1] EXCEPT !.seq = n]]
    BY <1>4, <1>5
  <2>6. holder'[h] = r
    BY <2>3, <2>4, <2>5, <1>6, <1>7, <1>9, <1>10, <1>12
  <2> QED
    BY <2>2, <2>6, <1>3
<1>15. /\ sequence' = n + 1 /\ UNCHANGED <<lines, open, unwritten, unsaid>>
       /\ holder' \in [Holder -> TraceJob] /\ holder'[h] = r
       /\ \A g \in Holder : g # h => holder'[g] = holder[g]
       /\ Runner \subseteq Holder
  BY <1>2, <1>3, <1>13, <1>14 DEF TakeNumber, Holder
<1>16. Written' = Written
  BY <1>15 DEF Written
<1>17. Numbered' = Numbered \cup {y}
  <2>1. ASSUME NEW e PROVE (e \in Numbered') <=> (e \in Numbered \/ e = y)
    <3>1. (\E g \in Holder : holder'[g].todo # <<>> /\ e = Head(holder'[g].todo))
             <=> (e = y \/ \E g \in Holder \ {h} : holder[g].todo # <<>> /\ e = Head(holder[g].todo))
      BY <1>11, <1>13, <1>15
    <3>2. (\E g \in Holder : holder[g].todo # <<>> /\ e = Head(holder[g].todo))
             <=> (e = d \/ \E g \in Holder \ {h} : holder[g].todo # <<>> /\ e = Head(holder[g].todo))
      BY <1>1, <1>4, <1>5, <1>6
    <3> QED
      BY <3>1, <3>2, <1>6, <1>8, <1>16, NumberedAre
  <2> QED
    BY <2>1
<1>18. /\ Numbered \subseteq TraceRec /\ \A x \in Numbered : x.seq \in 0..(n - 1) /\ x.seq < y.seq
  BY <1>2, <1>3, <1>8, NumberedTyped DEF TraceInv, NumbersInv, TraceRec
<1>19. Mine(h)' = Mine(h) \cup {y} /\ \A g \in Holder : g # h => Mine(g)' = Mine(g)
  BY <1>8, <1>17 DEF Mine
<1>20. TraceTypes'
  <2>1. TodoShape(h, p)
    BY <1>8, <1>11 DEF TodoShape
  <2> QED
    BY <1>2, <1>3, <1>13, <1>15, <2>1 DEF TraceInv, TraceTypes
<1>21. NumbersInv'
  <2>1. \A e \in Written' : e.trace => e.seq # Unnumbered
    BY <1>16 DEF TraceInv, NumbersInv
  <2>2. \A e \in Numbered' : e.seq \in 0..(sequence' - 1)
    BY <1>3, <1>8, <1>15, <1>17, <1>18
  <2>3. \A e, f \in Numbered' : e.seq = f.seq => e = f
    BY <1>8, <1>17, <1>18 DEF TraceInv, NumbersInv
  <2>4. \A i \in 0..(sequence' - 1) : \E e \in Numbered' : e.seq = i
    <3>1. \A i \in 0..(n - 1) : \E e \in Numbered : e.seq = i
      BY <1>2 DEF TraceInv, NumbersInv
    <3>2. 0..(sequence' - 1) = 0..(n - 1) \cup {n}
      BY <1>3, <1>15
    <3> QED
      BY <3>1, <3>2, <1>8, <1>17
  <2> QED
    BY <2>1, <2>2, <2>3, <2>4 DEF NumbersInv
<1>22. LinesInv'
  BY <1>15 DEF TraceInv, LinesInv
<1>23. Pending(j) /\ Newest(j) = d /\ ~Pending(r)
  BY <1>5, <1>6, <1>8, <1>9, <1>11, <1>13, <1>4 DEF Pending, Newest
<1>24. AttemptTold(r, Mine(h) \cup {y})
  <2>1. AttemptTold(j, Mine(h))
    BY <1>9 DEF TraceInv
  <2>2. Mine(h) \in SUBSET TraceRec /\ \A x \in Mine(h) : x.seq < y.seq
    BY <1>18 DEF Mine
  <2>3. CASE d.name = "started"
    BY <2>1, <2>2, <2>3, <1>8, <1>13, <1>23, NewerRecord DEF AttemptTold
  <2>4. CASE d.name \in {"succeeded", "failed"}
    BY <2>1, <2>2, <2>4, <1>8, <1>13, <1>23, NewerRecord DEF AttemptTold
  <2>5. CASE ~OfRequest(d)
    <3>1. ~OfRequest(y)
      BY <2>5, <1>8 DEF OfRequest
    <3> QED
      BY <3>1, <2>1, <2>2, <2>5, <1>8, <1>13, <1>23, NewerRecord DEF AttemptTold
  <2> QED
    BY <2>3, <2>4, <2>5 DEF OfRequest
<1>25. ASSUME h \in Runner PROVE EndTold(r, Mine(h) \cup {y}, h \in unsaid)
  <2>1. EndTold(j, Mine(h), h \in unsaid)
    BY <1>9, <1>25 DEF TraceInv
  <2>2. h \notin unsaid
    BY <2>1, <1>4, <1>9 DEF EndTold
  <2>3. CASE j.pc # "over"
    BY <2>1, <2>2, <2>3, <1>8, <1>13, <1>23 DEF EndTold, Unended
  <2>4. CASE j.pc = "over"
    <3>1. y.name \in TurnEnd /\ Unended(Mine(h))
      BY <2>1, <2>2, <2>4, <1>8, <1>23 DEF EndTold
    <3>2. \A f \in Mine(h) \cup {y} : f.name \in TurnEnd => f = y
      BY <3>1 DEF Unended
    <3> QED
      BY <3>1, <3>2, <2>2, <2>4, <1>13, <1>23 DEF EndTold
  <2> QED
    BY <2>3, <2>4
<1>26. \A g \in Holder : AttemptTold(holder[g], Mine(g))'
  <2>1. ASSUME NEW g \in Holder PROVE AttemptTold(holder'[g], Mine(g)')
    <3>1. AttemptTold(holder[g], Mine(g))
      BY DEF TraceInv
    <3> QED
      BY <3>1, <1>15, <1>19, <1>24
  <2> QED
    BY <2>1 DEF AttemptTold, Pending, Newest
<1>27. \A g \in Runner : EndTold(holder[g], Mine(g), g \in unsaid)'
  <2>1. ASSUME NEW g \in Runner PROVE EndTold(holder'[g], Mine(g)', g \in unsaid')
    <3>1. EndTold(holder[g], Mine(g), g \in unsaid) /\ g \in Holder
      BY <1>15 DEF TraceInv
    <3>2. unsaid' = unsaid
      BY <1>15
    <3> QED
      BY <3>1, <3>2, <1>15, <1>19, <1>25
  <2> QED
    BY <2>1 DEF EndTold, Pending, Newest
<1> QED
  BY <1>20, <1>21, <1>22, <1>26, <1>27 DEF TraceInv

\* A clone writes, or fails to write, the first of what it has to record.
LEMMA WritingKeeps ==
    ASSUME TraceInv, NEW h \in Holder, WriteLine(h)
    PROVE  TraceInv'
<1>1. PICK q : q = holder[h].todo
  OBVIOUS
<1>2. holder \in [Holder -> TraceJob] /\ holder[h] \in TraceJob /\ TodoShape(h, q)
  BY <1>1 DEF TraceInv, TraceTypes
<1>3. q \in Seq(TraceRec) /\ q # <<>> /\ (Len(q) = 1 \/ Len(q) = 2) /\ Head(q) = q[1]
  <2>1. q \in Seq(TraceRec) /\ q # <<>>
    BY <1>1, <1>2 DEF WriteLine, TraceJob
  <2>2. Len(q) \in Nat /\ Len(q) # 0 /\ Head(q) = q[1]
    BY <2>1
  <2>3. Len(q) <= 2
    BY <1>2 DEF TodoShape
  <2>4. \A m \in Nat : m # 0 /\ m <= 2 => m = 1 \/ m = 2
    OBVIOUS
  <2>5. Len(q) = 1 \/ Len(q) = 2
    BY <2>2, <2>3, <2>4
  <2> QED
    BY <2>1, <2>2, <2>5
<1>4. PICK d \in TraceRec : d = Head(q)
  BY <1>3
<1>5. d = Due(h) /\ (d.trace => d.seq # Unnumbered)
  BY <1>1, <1>4 DEF WriteLine, Due
<1>6. PICK j \in TraceJob : j = holder[h] /\ j.todo = q
  BY <1>1, <1>2
<1>7. PICK t : t = Tail(q)
  OBVIOUS
<1>8. t \in Seq(TraceRec) /\ Len(t) = Len(q) - 1 /\ \A i \in 1..Len(t) : t[i] = q[i + 1]
  BY <1>3, <1>7, HeadTailProperties
<1>9. TodoShape(h, t)
  <2>1. CASE Len(q) = 1
    BY <2>1, <1>8 DEF TodoShape
  <2>2. CASE Len(q) = 2
    <3>1. Len(t) = 1 /\ t[1] = q[2]
      BY <2>2, <1>8
    <3> QED
      BY <3>1, <2>2, <1>2 DEF TodoShape
  <2> QED
    BY <2>1, <2>2, <1>3
<1>10. t # <<>> => Head(t).seq = Unnumbered
  <2> SUFFICES ASSUME t # <<>> PROVE Head(t).seq = Unnumbered
    OBVIOUS
  <2>1. Len(t) = 1 /\ Len(q) = 2 /\ Head(t) = q[2]
    BY <1>3, <1>8
  <2> QED
    BY <2>1, <1>2 DEF TodoShape
<1>11. PICK r : r = [j EXCEPT !.todo = t]
  OBVIOUS
<1>12. r \in TraceJob /\ r.todo = t /\ r.pc = j.pc /\ r.attempt = j.attempt
  BY <1>6, <1>8, <1>11 DEF TraceJob
<1>13. holder' = [holder EXCEPT ![h] = r]
  <2>1. holder' = [holder EXCEPT ![h].todo = Tail(@)]
    BY DEF WriteLine
  <2>2. /\ holder' = [g \in Holder |-> IF g = h THEN holder'[h] ELSE holder[g]]
        /\ holder'[h] = [holder[h] EXCEPT !.todo = Tail(@)]
    BY <2>1, <1>2
  <2>3. holder'[h] = r
    BY <2>2, <1>6, <1>7, <1>11 DEF TraceJob
  <2> QED
    BY <2>2, <2>3, <1>2
<1>14. /\ UNCHANGED <<sequence, unsaid>>
       /\ holder' \in [Holder -> TraceJob] /\ holder'[h] = r
       /\ \A g \in Holder : g # h => holder'[g] = holder[g]
       /\ Runner \subseteq Holder
  BY <1>2, <1>12, <1>13 DEF WriteLine, Holder
<1>15. \/ lines' = lines \cup {open \cup {d}} /\ open' = {} /\ unwritten' = unwritten
       \/ unwritten' = unwritten \cup {d} /\ open' = open \cup {d} /\ lines' = lines
       \/ unwritten' = unwritten \cup {d} /\ open' = open /\ lines' = lines
  BY <1>5 DEF WriteLine
<1>16. /\ open \subseteq unwritten /\ unwritten \subseteq TraceRec
       /\ lines \subseteq SUBSET TraceRec
  BY DEF TraceInv, TraceTypes
<1>17. Written' = Written \cup {d}
  BY <1>15, <1>16 DEF Written
<1>18. Numbered' = Numbered
  <2>1. ASSUME NEW e, e.seq # Unnumbered PROVE (e \in Numbered') <=> e \in Numbered
    <3>1. (\E g \in Holder : holder'[g].todo # <<>> /\ e = Head(holder'[g].todo))
             <=> \E g \in Holder \ {h} : holder[g].todo # <<>> /\ e = Head(holder[g].todo)
      BY <1>10, <1>12, <1>14, <2>1
    <3>2. (\E g \in Holder : holder[g].todo # <<>> /\ e = Head(holder[g].todo))
             <=> (e = d \/ \E g \in Holder \ {h} : holder[g].todo # <<>> /\ e = Head(holder[g].todo))
      BY <1>1, <1>3, <1>4
    <3> QED
      BY <3>1, <3>2, <1>17, NumberedAre
  <2>2. \A e : e \in Numbered => e.seq # Unnumbered
    BY NumberedAre
  <2>3. \A e : e \in Numbered' => e.seq # Unnumbered
    BY NumberedAre
  <2> QED
    BY <2>1, <2>2, <2>3
<1>19. \A g \in Holder : Mine(g)' = Mine(g)
  BY <1>18 DEF Mine
<1>20. TraceTypes'
  <2>1. lines' \subseteq SUBSET TraceRec /\ unwritten' \subseteq TraceRec /\ open' \subseteq unwritten'
    BY <1>15, <1>16
  <2> QED
    BY <2>1, <1>9, <1>12, <1>14 DEF TraceInv, TraceTypes
<1>21. NumbersInv'
  <2>1. \A e \in Written' : e.trace => e.seq # Unnumbered
    BY <1>5, <1>17 DEF TraceInv, NumbersInv
  <2> QED
    BY <2>1, <1>14, <1>18 DEF TraceInv, NumbersInv
<1>22. LinesInv'
  BY <1>15, <1>16 DEF TraceInv, LinesInv
<1>23. (Pending(r) <=> Pending(j)) /\ (Pending(j) => Newest(r) = Newest(j))
  <2>1. CASE Len(q) = 1
    <3>1. t = <<>> /\ Newest(j) = d
      <4>1. t = <<>>
        BY <2>1, <1>8
      <4>2. Newest(j) = q[1]
        BY <2>1, <1>6 DEF Newest
      <4> QED
        BY <4>1, <4>2, <1>3, <1>4
    <3>2. d.trace
      BY <2>1, <1>2, <1>3, <1>4 DEF TodoShape
    <3> QED
      BY <3>1, <3>2, <1>5, <1>12 DEF Pending
  <2>2. CASE Len(q) = 2
    <3>1. t # <<>> /\ Newest(r) = t[1] /\ Newest(j) = q[2] /\ t[1] = q[2]
      <4>1. Len(t) = 1 /\ t[1] = q[2] /\ t # <<>>
        BY <2>2, <1>8
      <4>2. Newest(j) = q[2]
        BY <2>2, <1>6 DEF Newest
      <4>3. Newest(r) = t[1]
        BY <4>1, <1>12 DEF Newest
      <4> QED
        BY <4>1, <4>2, <4>3
    <3> QED
      BY <3>1, <1>3, <1>6, <1>12 DEF Pending
  <2> QED
    BY <2>1, <2>2, <1>3
<1>24. AttemptTold(r, Mine(h))
  <2>1. AttemptTold(j, Mine(h))
    BY <1>6 DEF TraceInv
  <2> QED
    BY <2>1, <1>12, <1>23 DEF AttemptTold
<1>25. ASSUME h \in Runner PROVE EndTold(r, Mine(h), h \in unsaid)
  <2>1. EndTold(j, Mine(h), h \in unsaid)
    BY <1>6, <1>25 DEF TraceInv
  <2>2. h \notin unsaid
    BY <2>1, <1>3, <1>6 DEF EndTold
  <2> QED
    BY <2>1, <2>2, <1>12, <1>23 DEF EndTold
<1>26. \A g \in Holder : AttemptTold(holder[g], Mine(g))'
  <2>1. ASSUME NEW g \in Holder PROVE AttemptTold(holder'[g], Mine(g)')
    <3>1. AttemptTold(holder[g], Mine(g))
      BY DEF TraceInv
    <3> QED
      BY <3>1, <1>14, <1>19, <1>24
  <2> QED
    BY <2>1 DEF AttemptTold, Pending, Newest
<1>27. \A g \in Runner : EndTold(holder[g], Mine(g), g \in unsaid)'
  <2>1. ASSUME NEW g \in Runner PROVE EndTold(holder'[g], Mine(g)', g \in unsaid')
    <3>1. EndTold(holder[g], Mine(g), g \in unsaid) /\ g \in Holder
      BY <1>14 DEF TraceInv
    <3>2. unsaid' = unsaid
      BY <1>14
    <3> QED
      BY <3>1, <3>2, <1>14, <1>19, <1>25
  <2> QED
    BY <2>1 DEF EndTold, Pending, Newest
<1> QED
  BY <1>20, <1>21, <1>22, <1>26, <1>27 DEF TraceInv

\* What ev a step may record of attempt n, and of the end of the turn.
Recounts(h, at, n, next, ev) ==
    \/ ev = <<>> /\ at # "sent" /\ next # "sent"
    \/ /\ at # "sent" /\ next # "sent"
       /\ \E name \in EventName \ {"started", "succeeded", "failed"} : ev \in {Says(h, name), Doubled(h, name, 0)}
    \/ at # "sent" /\ next = "sent" /\ ev = Doubled(h, "started", n)
    \/ at = "sent" /\ next # "sent" /\ \E name \in {"succeeded", "failed"} : ev = Doubled(h, name, n)
Closes(h, at, next, ev, silent) ==
    /\ at # "over"
    /\ \/ /\ next # "over" /\ ~silent
          /\ \/ ev = <<>>
             \/ \E name \in EventName \ TurnEnd, n \in Nat : ev \in {Says(h, name), Doubled(h, name, n)}
       \/ next = "over" /\ silent /\ ev = <<>>
       \/ next = "over" /\ ~silent /\ \E name \in TurnEnd : ev = Says(h, name)

\* Any step of a turn or of a client that tells what it may tell.
LEMMA MoveKeeps ==
    ASSUME TraceInv, NEW h \in Holder, NEW at \in HolderPc, NEW to \in TraceJob, NEW ev, NEW n \in Nat,
           Moves(h, at, to, ev), Recounts(h, at, n, to.pc, ev),
           at = "sent" => n = holder[h].attempt, to.pc = "sent" => n = to.attempt,
           \A g \in Runner : g # h => (g \in unsaid' <=> g \in unsaid),
           h \in Runner => Closes(h, at, to.pc, ev, h \in unsaid')
    PROVE  TraceInv'
<1>1. PICK r : r = [to EXCEPT !.todo = ev]
  OBVIOUS
<1>2. /\ holder[h].pc = at /\ holder[h].todo = <<>> /\ holder' = [holder EXCEPT ![h] = r]
      /\ UNCHANGED <<sequence, lines, open, unwritten>>
  BY <1>1 DEF Moves
<1>3. \A name \in EventName : ev = Says(h, name) => Shaped(h, ev, name, 0)
  BY SaysShaped
<1>4. \A name \in EventName, k \in Nat : ev = Doubled(h, name, k) => Shaped(h, ev, name, k)
  BY DoubledShaped
<1>5. \/ ev = <<>> /\ at # "sent" /\ to.pc # "sent"
      \/ /\ at # "sent" /\ to.pc # "sent"
         /\ \E name \in EventName \ {"started", "succeeded", "failed"} : Shaped(h, ev, name, 0)
      \/ at # "sent" /\ to.pc = "sent" /\ Shaped(h, ev, "started", n)
      \/ at = "sent" /\ to.pc # "sent" /\ \E name \in {"succeeded", "failed"} : Shaped(h, ev, name, n)
  <2>1. ASSUME NEW name \in EventName, ev \in {Says(h, name), Doubled(h, name, 0)} PROVE Shaped(h, ev, name, 0)
    BY <2>1, <1>3, <1>4
  <2>2. ASSUME NEW name \in {"started", "succeeded", "failed"}, ev = Doubled(h, name, n)
        PROVE  Shaped(h, ev, name, n)
    <3>1. name \in EventName
      BY DEF EventName
    <3> QED
      BY <3>1, <2>2, <1>4
  <2> QED
    BY <2>1, <2>2 DEF Recounts
<1>6. /\ ev \in Seq(TraceRec) /\ TodoShape(h, ev) /\ (ev # <<>> => ev[1].seq = Unnumbered)
  <2>1. CASE ev = <<>>
    BY <2>1 DEF TodoShape
  <2>2. CASE ev # <<>>
    BY <2>2, <1>5 DEF Shaped
  <2> QED
    BY <2>1, <2>2
<1>7. r \in TraceJob /\ r.todo = ev /\ r.pc = to.pc /\ r.attempt = to.attempt
  BY <1>1, <1>6 DEF TraceJob
<1>8. \A name, k : Shaped(h, ev, name, k) =>
         ev # <<>> /\ Newest(r).seq = Unnumbered /\ Newest(r).name = name /\ Newest(r).n = k
  BY <1>7 DEF Shaped, Newest
<1>9. Tells(h, holder[h], r)
  <2>1. CASE ev = <<>> /\ at # "sent" /\ to.pc # "sent"
    BY <2>1, <1>2, <1>7 DEF Tells
  <2>2. CASE /\ at # "sent" /\ to.pc # "sent"
             /\ \E name \in EventName \ {"started", "succeeded", "failed"} : Shaped(h, ev, name, 0)
    BY <2>2, <1>2, <1>7, <1>8 DEF Tells, OfRequest
  <2>3. CASE at # "sent" /\ to.pc = "sent" /\ Shaped(h, ev, "started", n)
    BY <2>3, <1>2, <1>7, <1>8 DEF Tells
  <2>4. CASE at = "sent" /\ to.pc # "sent" /\ \E name \in {"succeeded", "failed"} : Shaped(h, ev, name, n)
    BY <2>4, <1>2, <1>7, <1>8 DEF Tells
  <2> QED
    BY <2>1, <2>2, <2>3, <2>4, <1>5
<1>10. ASSUME h \in Runner PROVE EndsAs(holder[h], r, h \in unsaid')
  <2>1. Closes(h, at, to.pc, ev, h \in unsaid')
    BY <1>10
  <2>2. \/ /\ to.pc # "over" /\ h \notin unsaid'
           /\ ev = <<>> \/ \E name \in EventName \ TurnEnd, k \in Nat : Shaped(h, ev, name, k)
        \/ to.pc = "over" /\ h \in unsaid' /\ ev = <<>>
        \/ to.pc = "over" /\ h \notin unsaid' /\ \E name \in TurnEnd : Shaped(h, ev, name, 0)
    <3>1. ASSUME NEW name \in EventName, NEW k \in Nat, ev \in {Says(h, name), Doubled(h, name, k)}
          PROVE  \E m \in Nat : Shaped(h, ev, name, m)
      BY <3>1, <1>3, <1>4
    <3>2. ASSUME NEW name \in TurnEnd, ev = Says(h, name) PROVE Shaped(h, ev, name, 0)
      <4>1. name \in EventName
        BY DEF TurnEnd, EventName
      <4> QED
        BY <4>1, <3>2, <1>3
    <3> QED
      BY <2>1, <3>1, <3>2 DEF Closes
  <2>3. at # "over"
    BY <2>1 DEF Closes
  <2>4. CASE /\ to.pc # "over" /\ h \notin unsaid'
             /\ ev = <<>> \/ \E name \in EventName \ TurnEnd, k \in Nat : Shaped(h, ev, name, k)
    <3>1. ev # <<>> => Newest(r).name \notin TurnEnd
      BY <2>4, <1>8
    <3> QED
      BY <3>1, <2>3, <2>4, <1>2, <1>7 DEF EndsAs
  <2>5. CASE to.pc = "over" /\ h \in unsaid' /\ ev = <<>>
    BY <2>3, <2>5, <1>2, <1>7 DEF EndsAs
  <2>6. CASE to.pc = "over" /\ h \notin unsaid' /\ \E name \in TurnEnd : Shaped(h, ev, name, 0)
    BY <2>3, <2>6, <1>2, <1>7, <1>8 DEF EndsAs
  <2> QED
    BY <2>2, <2>4, <2>5, <2>6
<1> QED
  BY <1>2, <1>6, <1>7, <1>9, <1>10, GoingOnKeeps

\* A turn that goes on has not ended at a message.
LEMMA NotYetUnsaid ==
    ASSUME TraceInv, NEW h \in Runner, holder[h].pc # "over"
    PROVE  h \notin unsaid
  BY DEF TraceInv, EndTold

\* A holder that is moved to another place.
LEMMA JobAt ==
    ASSUME TraceInv, NEW h \in Holder, NEW next \in HolderPc
    PROVE  LET to == [holder[h] EXCEPT !.pc = next]
           IN  to \in TraceJob /\ to.pc = next /\ to.attempt = holder[h].attempt /\ to.attempt \in Nat
<1>1. PICK j \in TraceJob : j = holder[h]
  BY DEF TraceInv, TraceTypes
<1> QED
  BY <1>1 DEF TraceJob

\* A step to another place that records ev.
LEMMA StepKeeps ==
    ASSUME TraceInv, NEW h \in Holder, NEW at \in HolderPc, NEW next \in HolderPc, NEW ev,
           Step(h, at, next, ev), next # "sent", Recounts(h, at, holder[h].attempt, next, ev),
           h \in Runner => Closes(h, at, next, ev, FALSE)
    PROVE  TraceInv'
<1>1. PICK to : to = [holder[h] EXCEPT !.pc = next]
  OBVIOUS
<1>2. to \in TraceJob /\ to.pc = next /\ to.attempt = holder[h].attempt /\ to.attempt \in Nat
  BY <1>1, JobAt
<1>3. Moves(h, at, to, ev) /\ unsaid' = unsaid
  BY <1>1 DEF Step, Goto
<1>4. holder[h].pc = at
  BY <1>3 DEF Moves
<1>5. ASSUME h \in Runner PROVE Closes(h, at, to.pc, ev, h \in unsaid')
  <2>1. h \notin unsaid'
    BY <1>3, <1>4, <1>5, NotYetUnsaid DEF Closes
  <2> QED
    BY <2>1, <1>2, <1>5 DEF Closes
<1>6. Recounts(h, at, holder[h].attempt, to.pc, ev)
  BY <1>2
<1>7. PICK n \in Nat : n = holder[h].attempt
  BY <1>2
<1> QED
  BY <1>2, <1>3, <1>5, <1>6, <1>7, MoveKeeps

\* A message is saved, or the turn ends there.
LEMMA SaveKeeps ==
    ASSUME TraceInv, NEW h \in Runner, NEW at \in HolderPc, NEW next \in HolderPc,
           Save(h, at, next), next \notin {"sent", "over"}, at \notin {"sent", "over"}
    PROVE  TraceInv'
<1>0. h \in Holder /\ "over" \in HolderPc
  BY DEF Holder, HolderPc
<1>1. CASE Step(h, at, next, <<>>)
  BY <1>0, <1>1, StepKeeps DEF Recounts, Closes
<1>2. CASE Goto(h, at, "over", <<>>) /\ unsaid' = unsaid \cup {h}
  <2>1. PICK to : to = [holder[h] EXCEPT !.pc = "over"]
    OBVIOUS
  <2>2. to \in TraceJob /\ to.pc = "over"
    BY <1>0, <2>1, JobAt
  <2>3. Moves(h, at, to, <<>>)
    BY <1>2, <2>1 DEF Goto
  <2>4. Recounts(h, at, 0, to.pc, <<>>) /\ Closes(h, at, to.pc, <<>>, h \in unsaid')
    BY <1>2, <2>2 DEF Recounts, Closes
  <2> QED
    BY <1>0, <1>2, <2>2, <2>3, <2>4, MoveKeeps
<1> QED
  BY <1>1, <1>2 DEF Save

\* send_with_retry.
LEMMA RequestsKeep ==
    ASSUME TraceInv, NEW h \in Holder, Requests(h)
    PROVE  TraceInv'
<1>1. PICK n \in Nat : n = holder[h].attempt
  BY DEF TraceInv, TraceTypes, TraceJob
<1>2. {"failed", "send", "sent", "answered"} \subseteq HolderPc
  BY DEF HolderPc
<1>3. {"succeeded", "failed", "started"} \subseteq EventName \ TurnEnd
  BY DEF EventName, TurnEnd
<1>4. CASE n = 0 /\ Step(h, "send", "failed", <<>>)
  BY <1>2, <1>4, StepKeeps DEF Recounts, Closes
<1>5. CASE Moves(h, "send", [holder[h] EXCEPT !.pc = "sent", !.attempt = n + 1], Doubled(h, "started", n + 1))
           /\ UNCHANGED unsaid
  <2>1. PICK to : to = [holder[h] EXCEPT !.pc = "sent", !.attempt = n + 1]
    OBVIOUS
  <2>2. PICK j \in TraceJob : j = holder[h]
    BY DEF TraceInv, TraceTypes
  <2>3. to \in TraceJob /\ to.pc = "sent" /\ to.attempt = n + 1 /\ n + 1 \in Nat
    <3>1. PICK m \in Nat : m = n + 1
      OBVIOUS
    <3>2. to = [j EXCEPT !.pc = "sent", !.attempt = m]
      BY <2>1, <2>2, <3>1
    <3>3. to \in TraceJob /\ to.pc = "sent" /\ to.attempt = m
      BY <1>2, <3>2 DEF TraceJob
    <3> QED
      BY <3>1, <3>3
  <2>4. Moves(h, "send", to, Doubled(h, "started", n + 1)) /\ holder[h].pc = "send"
    BY <1>5, <2>1 DEF Moves
  <2>5. Recounts(h, "send", n + 1, to.pc, Doubled(h, "started", n + 1))
    BY <2>3 DEF Recounts
  <2>6. ASSUME h \in Runner PROVE Closes(h, "send", to.pc, Doubled(h, "started", n + 1), h \in unsaid')
    <3>1. h \notin unsaid'
      BY <1>5, <2>4, <2>6, NotYetUnsaid
    <3> QED
      BY <3>1, <1>3, <2>3 DEF Closes
  <2> QED
    BY <1>2, <1>5, <2>3, <2>4, <2>5, <2>6, MoveKeeps
<1>6. ASSUME NEW name \in {"succeeded", "failed"}, NEW next \in {"answered", "failed", "send"},
             Step(h, "sent", next, Doubled(h, name, n))
      PROVE  TraceInv'
  <2>1. Recounts(h, "sent", holder[h].attempt, next, Doubled(h, name, n))
    BY <1>1, <1>6 DEF Recounts
  <2>2. Closes(h, "sent", next, Doubled(h, name, n), FALSE)
    BY <1>3, <1>6 DEF Closes
  <2> QED
    BY <1>2, <1>6, <2>1, <2>2, StepKeeps
<1>7. \/ n = 0 /\ Step(h, "send", "failed", <<>>)
      \/ Moves(h, "send", [holder[h] EXCEPT !.pc = "sent", !.attempt = n + 1], Doubled(h, "started", n + 1))
           /\ UNCHANGED unsaid
      \/ Step(h, "sent", "answered", Doubled(h, "succeeded", n))
      \/ Step(h, "sent", "failed", Doubled(h, "failed", n))
      \/ Step(h, "sent", "send", Doubled(h, "failed", n))
  BY <1>1 DEF Requests
<1> QED
  BY <1>4, <1>5, <1>6, <1>7

\* send_message of a client.
LEMMA SenderKeeps ==
    ASSUME TraceInv, NEW h \in Sender, SenderStep(h)
    PROVE  TraceInv'
<1>1. h \in Holder /\ h \notin Runner
  BY HoldersAssumption DEF Holder
<1>2. {"failed", "send", "over", "answered"} \subseteq HolderPc
  BY DEF HolderPc
<1>3. CASE Requests(h)
  BY <1>1, <1>3, RequestsKeep
<1>4. CASE Step(h, "send", "over", <<>>)
  BY <1>1, <1>2, <1>4, StepKeeps DEF Recounts
<1>5. CASE Step(h, "answered", "over", Doubled(h, "message_usage", 0))
  <2>1. Recounts(h, "answered", holder[h].attempt, "over", Doubled(h, "message_usage", 0))
    BY DEF Recounts, EventName
  <2> QED
    BY <1>1, <1>2, <1>5, <2>1, StepKeeps
<1>6. CASE Step(h, "answered", "over", <<>>)
  BY <1>1, <1>2, <1>6, StepKeeps DEF Recounts
<1>7. CASE Step(h, "failed", "over", <<>>)
  BY <1>1, <1>2, <1>7, StepKeeps DEF Recounts
<1> QED
  BY <1>3, <1>4, <1>5, <1>6, <1>7 DEF SenderStep

\* A step of the turn that records one event, at its end that of the end.
LEMMA SaysKeeps ==
    ASSUME TraceInv, NEW h \in Runner, NEW at \in HolderPc \ {"sent", "over"},
           NEW next \in HolderPc \ {"sent"},
           NEW name \in EventName \ {"started", "succeeded", "failed"},
           next = "over" <=> name \in TurnEnd, Step(h, at, next, Says(h, name))
    PROVE  TraceInv'
<1>1. h \in Holder
  BY DEF Holder
<1>2. Recounts(h, at, holder[h].attempt, next, Says(h, name))
  BY DEF Recounts
<1>3. Closes(h, at, next, Says(h, name), FALSE)
  BY DEF Closes
<1> QED
  BY <1>1, <1>2, <1>3, StepKeeps

\* A step of the turn that changes more than the place.
LEMMA QuietKeeps ==
    ASSUME TraceInv, NEW h \in Runner, NEW at \in HolderPc \ {"sent", "over"},
           NEW to \in TraceJob, to.pc \notin {"sent", "over"}, NEW ev,
           \/ ev = <<>>
           \/ \E name \in EventName \ (TurnEnd \cup {"started", "succeeded", "failed"}) : ev = Says(h, name),
           Moves(h, at, to, ev), UNCHANGED unsaid
    PROVE  TraceInv'
<1>1. h \in Holder
  BY DEF Holder
<1>2. Recounts(h, at, 0, to.pc, ev)
  BY DEF Recounts
<1>3. h \notin unsaid'
  BY NotYetUnsaid DEF Moves
<1>4. Closes(h, at, to.pc, ev, h \in unsaid')
  BY <1>3 DEF Closes
<1> QED
  BY <1>1, <1>2, <1>4, MoveKeeps

\* run_turn.
LEMMA RunTurnKeeps ==
    ASSUME TraceInv, NEW h \in Runner, RunTurn(h)
    PROVE  TraceInv'
<1>1. h \in Holder
  BY DEF Holder
<1>2. PICK j \in TraceJob : j = holder[h]
  BY <1>1 DEF TraceInv, TraceTypes
<1>3. HolderPc = {"idle", "user", "iterate", "send", "sent", "answered", "answer", "tool", "result",
                  "finish", "complete", "failed", "over"}
  BY DEF HolderPc
<1>4. /\ {"turn_completed", "turn_failed"} \subseteq EventName \ {"started", "succeeded", "failed"}
      /\ TurnEnd = {"turn_completed", "turn_failed"}
      /\ {"turn_started", "assistant_iteration_completed", "tool_execution_started", "tool_execution_finished"}
            \subseteq EventName \ (TurnEnd \cup {"started", "succeeded", "failed"})
  BY DEF EventName, TurnEnd
<1>5. CASE Step(h, "idle", "user", Says(h, "turn_started"))
  BY <1>3, <1>4, <1>5, SaysKeeps
<1>6. CASE Save(h, "user", "iterate")
  BY <1>3, <1>6, SaveKeeps
<1>7. CASE Moves(h, "iterate", [holder[h] EXCEPT !.pc = "send", !.attempt = 0], <<>>) /\ UNCHANGED unsaid
  <2>1. PICK to : to = [j EXCEPT !.pc = "send", !.attempt = 0]
    OBVIOUS
  <2>2. to \in TraceJob /\ to.pc = "send"
    BY <1>3, <2>1 DEF TraceJob
  <2>3. Moves(h, "iterate", to, <<>>)
    BY <1>2, <1>7, <2>1
  <2> QED
    BY <1>3, <1>7, <2>2, <2>3, QuietKeeps
<1>8. CASE Requests(h)
  BY <1>1, <1>8, RequestsKeep
<1>9. ASSUME NEW at \in {"iterate", "answered", "failed"}, Step(h, at, "over", Says(h, "turn_failed"))
      PROVE  TraceInv'
  BY <1>3, <1>4, <1>9, SaysKeeps
<1>10. ASSUME NEW k \in 0..1, UNCHANGED unsaid,
              Moves(h, "answered", [holder[h] EXCEPT !.pc = "answer", !.tools = k],
                    Says(h, "assistant_iteration_completed"))
       PROVE  TraceInv'
  <2>1. PICK to : to = [j EXCEPT !.pc = "answer", !.tools = k]
    OBVIOUS
  <2>2. to \in TraceJob /\ to.pc = "answer"
    <3>1. k \in Nat
      OBVIOUS
    <3> QED
      BY <3>1, <1>3, <2>1 DEF TraceJob
  <2>3. Moves(h, "answered", to, Says(h, "assistant_iteration_completed"))
    BY <1>2, <1>10, <2>1
  <2> QED
    BY <1>3, <1>4, <1>10, <2>2, <2>3, QuietKeeps
<1>11. CASE Save(h, "answer", IF holder[h].tools = 0 THEN "complete" ELSE "tool")
  BY <1>3, <1>11, SaveKeeps
<1>12. CASE Step(h, "tool", "result", Says(h, "tool_execution_started"))
  BY <1>3, <1>4, <1>12, SaysKeeps
<1>13. CASE Step(h, "tool", "result", <<>>)
  BY <1>1, <1>3, <1>13, StepKeeps DEF Recounts, Closes
<1>14. CASE Save(h, "result", "finish")
  BY <1>3, <1>14, SaveKeeps
<1>15. CASE Step(h, "finish", "iterate", Says(h, "tool_execution_finished"))
  BY <1>3, <1>4, <1>15, SaysKeeps
<1>16. CASE Step(h, "complete", "over", Says(h, "turn_completed"))
  BY <1>3, <1>4, <1>16, SaysKeeps
<1> QED
  BY <1>5, <1>6, <1>7, <1>8, <1>9, <1>10, <1>11, <1>12, <1>13, <1>14, <1>15, <1>16 DEF RunTurn

\* No record is written and none is due.
LEMMA TraceInitially == TraceInit => TraceInv
<1> SUFFICES ASSUME TraceInit PROVE TraceInv
  OBVIOUS
<1>1. \A h \in Holder : /\ holder[h].pc \in {"idle", "send"} /\ holder[h].todo = <<>>
                        /\ holder[h] \in TraceJob
  BY DEF TraceInit, TraceJob, HolderPc
<1>2. Written = {} /\ Numbered = {}
  <2>1. Written = {}
    BY DEF TraceInit, Written
  <2> QED
    BY <2>1, <1>1, NumberedAre
<1>3. TraceTypes
  BY <1>1 DEF TraceInit, TraceTypes, TodoShape
<1>4. NumbersInv /\ LinesInv
  BY <1>2 DEF TraceInit, NumbersInv, LinesInv
<1>5. \A h \in Holder : AttemptTold(holder[h], Mine(h))
  BY <1>1, <1>2 DEF AttemptTold, Pending, Mine, Settled
<1>6. \A h \in Runner : EndTold(holder[h], Mine(h), h \in unsaid)
  BY <1>1, <1>2 DEF TraceInit, EndTold, Pending, Mine, Unended, Holder
<1> QED
  BY <1>3, <1>4, <1>5, <1>6 DEF TraceInv

\* Every step of every clone.
LEMMA TraceInvIsInductive == TraceInv /\ [TraceNext]_traceVars => TraceInv'
<1> SUFFICES ASSUME TraceInv, [TraceNext]_traceVars PROVE TraceInv'
  OBVIOUS
<1>1. CASE UNCHANGED traceVars
  <2>1. Recorded' = Recorded
    BY <1>1 DEF traceVars, Recorded, Due
  <2>2. Written' = Written /\ Numbered' = Numbered
    BY <1>1, <2>1 DEF traceVars, Written, Numbered
  <2>3. \A h \in Holder : Mine(h)' = Mine(h)
    BY <2>2 DEF Mine
  <2>4. TraceTypes' /\ NumbersInv' /\ LinesInv'
    BY <1>1, <2>2 DEF traceVars, TraceInv, TraceTypes, NumbersInv, LinesInv
  <2>5. /\ \A h \in Holder : AttemptTold(holder'[h], Mine(h)')
        /\ \A h \in Runner : EndTold(holder'[h], Mine(h)', h \in unsaid')
    BY <1>1, <2>3 DEF traceVars, TraceInv, Holder
  <2>6. /\ \A h \in Holder : AttemptTold(holder[h], Mine(h))'
        /\ \A h \in Runner : EndTold(holder[h], Mine(h), h \in unsaid)'
    BY <2>5 DEF AttemptTold, EndTold, Pending, Newest
  <2> QED
    BY <2>4, <2>6 DEF TraceInv
<1>2. CASE TraceNext
  BY <1>2, NumberKeeps, WritingKeeps, SenderKeeps, RunTurnKeeps DEF TraceNext
<1> QED
  BY <1>1, <1>2

\* What the numbered records tell is what the trace tells once nothing is due.
LEMMA TraceInvTells == TraceInv => TraceKept
<1> SUFFICES ASSUME TraceInv PROVE TraceKept
  OBVIOUS
<1>1. ASSUME NEW h \in Holder, holder[h].todo = <<>> PROVE Traces(h) = Mine(h) /\ ~Pending(holder[h])
  <2>1. ASSUME NEW g \in Holder, holder[g].todo # <<>> PROVE Due(g).by = g
    <3>1. holder[g].todo \in Seq(TraceRec) /\ TodoShape(g, holder[g].todo)
      BY DEF TraceInv, TraceTypes, TraceJob
    <3>2. Due(g) = holder[g].todo[1] /\ 1 \in 1..Len(holder[g].todo)
      BY <2>1, <3>1 DEF Due
    <3> QED
      BY <3>1, <3>2 DEF TodoShape
  <2>2. \A e \in Written : e.trace => e.seq # Unnumbered
    BY DEF TraceInv, NumbersInv
  <2>3. ASSUME NEW e, e.by = h PROVE (e \in Recorded /\ e.trace) <=> e \in Numbered
    BY <1>1, <2>1, <2>2, <2>3 DEF Recorded, Written, Numbered
  <2> QED
    BY <1>1, <2>3 DEF Traces, Mine, Numbered, Pending
<1>2. ASSUME NEW i \in 0..(sequence - 1)
      PROVE  Cardinality({e \in Recorded : e.trace /\ e.seq = i}) = 1
  <2>1. i # Unnumbered
    BY DEF Unnumbered
  <2>2. PICK e \in Numbered : e.seq = i
    BY DEF TraceInv, NumbersInv
  <2>3. {f \in Recorded : f.trace /\ f.seq = i} = {e}
    BY <2>1, <2>2 DEF TraceInv, NumbersInv, Numbered
  <2> QED
    BY <2>3, FS_Singleton
<1>3. ASSUME NEW h \in Holder, holder[h].pc # "sent", holder[h].todo = <<>>
      PROVE  \A e \in Traces(h) : e.name = "started" =>
                \E o \in Traces(h) : /\ OfRequest(o) /\ o.name # "started" /\ o.n = e.n /\ o.seq > e.seq
                                     /\ \A x \in Traces(h) : OfRequest(x) => x.seq \notin (e.seq + 1)..(o.seq - 1)
  <2>1. Settled(Mine(h))
    BY <1>1, <1>3 DEF TraceInv, AttemptTold
  <2>2. Traces(h) = Mine(h)
    BY <1>1, <1>3
  <2> QED
    BY <2>1, <2>2 DEF Settled, HasOutcome
<1>4. ASSUME NEW h \in Runner, holder[h].pc = "over", holder[h].todo = <<>>
      PROVE  Cardinality({e \in Traces(h) : e.name \in {"turn_completed", "turn_failed"}})
                = IF h \in unsaid THEN 0 ELSE 1
  <2>1. /\ h \in Holder /\ Traces(h) = Mine(h) /\ ~Pending(holder[h])
        /\ EndTold(holder[h], Mine(h), h \in unsaid)
    BY <1>1, <1>4 DEF TraceInv, Holder
  <2>2. CASE h \in unsaid
    <3>1. {e \in Traces(h) : e.name \in {"turn_completed", "turn_failed"}} = {}
      BY <2>1, <2>2 DEF EndTold, Unended, TurnEnd
    <3> QED
      BY <3>1, <2>2, FS_EmptySet
  <2>3. CASE h \notin unsaid
    <3>1. PICK e \in Mine(h) : e.name \in TurnEnd /\ \A f \in Mine(h) : f.name \in TurnEnd => f = e
      BY <2>1, <2>3, <1>4 DEF EndTold
    <3>2. {f \in Traces(h) : f.name \in {"turn_completed", "turn_failed"}} = {e}
      BY <2>1, <3>1 DEF TurnEnd
    <3> QED
      BY <3>2, <2>3, FS_Singleton
  <2> QED
    BY <2>2, <2>3
<1>5. ASSUME NEW line \in lines \cup {open} PROVE Cardinality(line \ unwritten) <= 1
  <2>1. PICK e : line \ unwritten \subseteq {e}
    BY DEF TraceInv, LinesInv, TraceTypes
  <2>2. CASE line \ unwritten = {}
    <3>1. Cardinality(line \ unwritten) = 0
      BY <2>2, FS_EmptySet
    <3> QED
      BY <3>1
  <2>3. CASE line \ unwritten = {e}
    <3>1. Cardinality(line \ unwritten) = 1
      BY <2>3, FS_Singleton
    <3> QED
      BY <3>1
  <2> QED
    BY <2>1, <2>2, <2>3
<1> QED
  BY <1>2, <1>3, <1>4, <1>5 DEF TraceKept

\* Of the tracer's records: a number is given once and above all there were, and of one
\* holder's numbered records the newest tells in which state it took its number.
THEOREM TraceInvariant == TraceSpec => []TraceInv
  BY TraceInitially, TraceInvIsInductive, PTL DEF TraceSpec

\* SessionTracer::record and the sink behind it: whatever clones take turns and however
\* many writes fail, a number is given once, an attempt that was started is followed by
\* its outcome, and a turn that is over ended once or at a message that was not saved.
THEOREM TraceIsKept == TraceSpec => []TraceKept
  BY TraceInvariant, TraceInvTells, PTL
-----------------------------------------------------------------------------
\* A lane that is complete is cleaned up, then closed out: the rules are in the order of
\* their priorities.
LEMMA CompletionIsOrdered == Evaluate(CompletionRules, CompletedLane) = <<"cleanup", "closeout">>
<1> DEFINE rules == CompletionRules
           lane == CompletedLane
           sorted == ByPriority(rules)
           Does(n) == IF Matches(sorted[n], lane) THEN sorted[n].action ELSE <<>>
           Part(h) == h = [n \in 0..Len(rules) |-> IF n = 0 THEN <<>> ELSE h[n - 1] \o Does(n)]
           After == CHOOSE h : Part(h)
           f == [n \in 0..2 |-> IF n = 0 THEN <<>> ELSE IF n = 1 THEN <<"cleanup">> ELSE <<"cleanup", "closeout">>]
<1>1. /\ Len(rules) = 2 /\ DOMAIN rules = {1, 2} /\ rules[1].priority = 10 /\ rules[2].priority = 5
      /\ rules[1] = [op |-> "and", of |-> {"completed", "green"}, action |-> <<"closeout">>, priority |-> 10]
      /\ rules[2] = [op |-> "and", of |-> {"completed"}, action |-> <<"cleanup">>, priority |-> 5]
  BY DEF CompletionRules
<1>2. Rank(rules, 1) = 2
  <2>1. {j \in DOMAIN rules : \/ rules[j].priority < rules[1].priority
                              \/ rules[j].priority = rules[1].priority /\ j <= 1} = {1, 2}
    BY <1>1
  <2>2. Cardinality({1, 2}) = 2
    <3>1. IsFiniteSet({1}) /\ Cardinality({1}) = 1 /\ 2 \notin {1} /\ {1} \cup {2} = {1, 2}
      BY FS_Singleton
    <3>2. \A S, x : IsFiniteSet(S) /\ x \notin S => Cardinality(S \cup {x}) = Cardinality(S) + 1
      BY FS_AddElement
    <3> QED
      BY <3>1, <3>2
  <2> QED
    BY <2>1, <2>2 DEF Rank
<1>3. Rank(rules, 2) = 1
  <2>1. {j \in DOMAIN rules : \/ rules[j].priority < rules[2].priority
                              \/ rules[j].priority = rules[2].priority /\ j <= 2} = {2}
    BY <1>1
  <2>2. Cardinality({2}) = 1
    BY FS_Singleton
  <2> QED
    BY <2>1, <2>2 DEF Rank
<1>4. sorted[1] = rules[2] /\ sorted[2] = rules[1]
  <2>1. (CHOOSE i \in DOMAIN rules : Rank(rules, i) = 1) = 2 /\ (CHOOSE i \in DOMAIN rules : Rank(rules, i) = 2) = 1
    <3> HIDE DEF rules
    <3>1. \A i \in DOMAIN rules : Rank(rules, i) = 1 <=> i = 2
      BY <1>1, <1>2, <1>3
    <3>2. \A i \in DOMAIN rules : Rank(rules, i) = 2 <=> i = 1
      BY <1>1, <1>2, <1>3
    <3> QED
      BY <1>1, <3>1, <3>2
  <2> QED
    BY <1>1, <2>1 DEF ByPriority
<1>5. /\ sorted[1].action = <<"cleanup">> /\ Matches(sorted[1], lane)
      /\ sorted[2].action = <<"closeout">> /\ Matches(sorted[2], lane)
  <2>1. PICK one : one = sorted[1]
    OBVIOUS
  <2>2. PICK two : two = sorted[2]
    OBVIOUS
  <2>3. one.op = "and" /\ one.of = {"completed"} /\ one.action = <<"cleanup">>
    BY <1>1, <1>4, <2>1
  <2>4. two.op = "and" /\ two.of = {"completed", "green"} /\ two.action = <<"closeout">>
    BY <1>1, <1>4, <2>2
  <2>5. Atom("completed", lane) /\ Atom("green", lane)
    BY DEF CompletedLane, Atom
  <2>6. Matches(one, lane) /\ Matches(two, lane)
    BY <2>3, <2>4, <2>5 DEF Matches
  <2> QED
    BY <2>1, <2>2, <2>3, <2>4, <2>6
<1> HIDE DEF rules, lane, sorted
<1>6. <<>> \o <<"cleanup">> = <<"cleanup">> /\ <<"cleanup">> \o <<"closeout">> = <<"cleanup", "closeout">>
  BY OneThenOne
<1>7. Does(1) = <<"cleanup">> /\ Does(2) = <<"closeout">>
  BY <1>5
<1> HIDE DEF Does
<1>8. /\ \A n \in 0..Len(rules) : n = 0 \/ n = 1 \/ n = 2
      /\ 0 \in 0..Len(rules) /\ 1 \in 0..Len(rules) /\ 2 \in 0..Len(rules)
      /\ 1 - 1 = 0 /\ 2 - 1 = 1 /\ 1 # 0 /\ 2 # 0
  BY <1>1
<1>9. \A h : Part(h) <=> /\ h = [n \in 0..Len(rules) |-> h[n]]
                        /\ h[0] = <<>> /\ h[1] = h[0] \o Does(1) /\ h[2] = h[1] \o Does(2)
  <2> SUFFICES ASSUME NEW h PROVE Part(h) <=> /\ h = [n \in 0..Len(rules) |-> h[n]]
                                              /\ h[0] = <<>> /\ h[1] = h[0] \o Does(1) /\ h[2] = h[1] \o Does(2)
    OBVIOUS
  <2> DEFINE g == [n \in 0..Len(rules) |-> IF n = 0 THEN <<>> ELSE h[n - 1] \o Does(n)]
  <2>1. g[0] = <<>>
    BY <1>8
  <2>2. \A n \in 0..Len(rules) : n # 0 => g[n] = h[n - 1] \o Does(n)
    OBVIOUS
  <2>3. g[1] = h[0] \o Does(1) /\ g[2] = h[1] \o Does(2)
    <3> HIDE DEF g
    <3> QED
      BY <1>8, <2>2
  <2>4. g = [n \in 0..Len(rules) |-> g[n]]
    OBVIOUS
  <2>5. Part(h) <=> h = g
    OBVIOUS
  <2> HIDE DEF g, Part
  <2>6. ASSUME h = [n \in 0..Len(rules) |-> h[n]],
               h[0] = <<>>, h[1] = h[0] \o Does(1), h[2] = h[1] \o Does(2)
        PROVE  h = g
    <3>1. \A n \in 0..Len(rules) : h[n] = g[n]
      BY <1>8, <2>1, <2>3, <2>6
    <3> QED
      BY <2>4, <2>6, <3>1
  <2> QED
    BY <2>1, <2>3, <2>4, <2>5, <2>6
<1>10. f[0] = <<>> /\ f[1] = <<"cleanup">> /\ f[2] = <<"cleanup", "closeout">> /\ f = [n \in 0..Len(rules) |-> f[n]]
  BY <1>1
<1> HIDE DEF Part, f
<1>11. Part(f)
  BY <1>6, <1>7, <1>9, <1>10
<1>12. Part(After)
  BY <1>11
<1>13. After[2] = <<"cleanup", "closeout">>
  <2> HIDE DEF After
  <2> QED
    BY <1>6, <1>7, <1>9, <1>12
<1>14. Evaluate(rules, lane) = After[Len(rules)]
  BY DEF Evaluate, sorted, Part, Does
<1> QED
  BY <1>1, <1>13, <1>14 DEF rules, lane

\* However the questions of trust are asked, one directory gets one answer.
LEMMA TrustIsOne ==
    ASSUME NEW config, NEW cwd PROVE Trusts(config, cwd) = (Resolve(config, cwd, TRUE) = "auto_trust")
  BY DEF Trusts, Resolve

\* Every question that is asked is answered as LanesJudged says.
LEMMA LanesAnswered == ASSUME question \in LaneQuestions \cup {NoQuestion} PROVE LanesJudged
<1>1. Asked("locks") => LocksReported(question.intents, question.paths)
  <2> SUFFICES ASSUME question.about = "locks" PROVE LocksReported(question.intents, question.paths)
    BY DEF Asked
  <2>1. PICK i \in Intents("l1"), j \in Intents("l2") : question = [about |-> "locks", intents |-> <<i, j>>, paths |-> Paths]
    BY DEF LaneQuestions, NoQuestion
  <2> DEFINE P == {"a", "b", "c"}
             Lane == {"l1", "l2"}
             Branch == {"x", "y"}
  <2>2. Paths \in SUBSET Seq(P)
    BY DEF Paths
  <2>3. \A m \in Locked : m \in SUBSET Paths
    BY DEF Locked, Paths
  <2>4. /\ i \in [lane : Lane, branch : Branch, modules : SUBSET Paths] /\ i.lane = "l1"
        /\ j \in [lane : Lane, branch : Branch, modules : SUBSET Paths] /\ j.lane = "l2"
    BY <2>3 DEF Intents
  <2> HIDE DEF P, Lane, Branch
  <2>5. PICK intents : intents = <<i, j>>
    OBVIOUS
  <2>6. intents \in Seq([lane : Lane, branch : Branch, modules : SUBSET Paths]) /\ Len(intents) = 2
        /\ intents[1] = i /\ intents[2] = j
    BY <2>4, <2>5
  <2>7. \A a, b \in 1..Len(intents) : intents[a].lane = intents[b].lane => a = b
    <3>1. \A a \in 1..Len(intents) : a = 1 \/ a = 2
      BY <2>6
    <3> QED
      BY <2>4, <2>6, <3>1
  <2>8. LocksReported(intents, Paths)
    BY <2>2, <2>6, <2>7, CollisionsReported
  <2> QED
    BY <2>1, <2>5, <2>8
<1>2. Asked("trust") => Trusts(question.config, question.cwd) = (Resolve(question.config, question.cwd, TRUE) = "auto_trust")
  BY TrustIsOne
<1>3. Asked("branch") => BranchTold(question)
  <2> SUFFICES ASSUME question.about = "branch" PROVE BranchTold(question)
    BY DEF Asked
  <2>1. question \in [about : {"branch"}, main : SUBSET (1..3), branch : SUBSET (1..3), git : BOOLEAN,
                      policy : {"warn_only", "block", "auto_rebase", "auto_merge_forward"}]
    BY DEF LaneQuestions, NoQuestion
  <2>2. IsFiniteSet(1..3)
    <3>1. PICK a \in Int, b \in Int : a = 1 /\ b = 3
      OBVIOUS
    <3>2. IsFiniteSet(a..b)
      BY FS_Interval
    <3> QED
      BY <3>1, <3>2
  <2>3. IsFiniteSet(question.main)
    BY <2>1, <2>2, FS_Subset
  <2> QED
    BY <2>1, <2>3, FreshHasMain
<1>4. Asked("test") => TestsHeld(question)
  <2> SUFFICES ASSUME question.about = "test" PROVE TestsHeld(question)
    BY DEF Asked
  <2> DEFINE words == {<<"cargo", "test", "--workspace">>, <<"echo", "cargo", "nextest", "run", "--all">>,
                       <<"cargo", "test", "--all-features">>, <<"cargo", "test", "-q", "--workspace">>}
             Word == {"cargo", "test", "--workspace", "echo", "nextest", "run", "--all", "--all-features", "-q"}
             heads == UNION {[refs -> SUBSET (1..2)] : refs \in SUBSET {"main", "origin/main"}}
  <2>1. question \in [about : {"test"}, git : BOOLEAN, name : {"main", "work", "detached"}, branch : SUBSET (1..2),
                      heads : heads, command : words]
    BY DEF LaneQuestions, NoQuestion
  <2>2. IsFiniteSet(1..2) /\ question.branch \subseteq 1..2
    <3>1. PICK a \in Int, b \in Int : a = 1 /\ b = 2
      OBVIOUS
    <3>2. IsFiniteSet(a..b)
      BY FS_Interval
    <3> QED
      BY <2>1, <3>1, <3>2
  <2>3. \A w \in words : w \in Seq(Word)
    <3>1. <<"cargo", "test", "--workspace">> \in Seq(Word) /\ <<"echo", "cargo", "nextest", "run", "--all">> \in Seq(Word)
      OBVIOUS
    <3>2. <<"cargo", "test", "--all-features">> \in Seq(Word) /\ <<"cargo", "test", "-q", "--workspace">> \in Seq(Word)
      OBVIOUS
    <3> HIDE DEF Word
    <3> QED
      BY <3>1, <3>2
  <2>4. \A ref \in DOMAIN question.heads : question.heads[ref] \subseteq 1..2
    <3>1. PICK refs : question.heads \in [refs -> SUBSET (1..2)]
      BY <2>1
    <3> QED
      BY <3>1
  <2>5. question.command \in Seq(Word) /\ question.git \in BOOLEAN
    BY <2>1, <2>3
  <2>6. IsFiniteSet(question.branch) /\ \A ref \in DOMAIN question.heads : IsFiniteSet(question.heads[ref])
    BY <2>2, <2>4, FS_Subset
  <2> HIDE DEF words, Word, heads
  <2> QED
    BY <2>5, <2>6, TestsAreHeld
<1>5. Asked("output") =>
          LET done == DetectLaneCompletion(question.output, question.green, question.pushed)
          IN  done => /\ ~question.output.error
                      /\ Evaluate(CompletionRules, CompletedLane) = <<"cleanup", "closeout">>
  BY CompletionIsOrdered DEF DetectLaneCompletion
<1> QED
  BY <1>1, <1>2, <1>3, <1>4, <1>5 DEF LanesJudged
-----------------------------------------------------------------------------
(***************************************************************************)
(* The parts side by side.  A step of the run is a step of one part, and   *)
(* the others stay where they are; so what is proved of a part under its   *)
(* own specification holds of the run.                                     *)
(***************************************************************************)
LEMMA PartsStep ==
    ASSUME [PartsNext]_partsVars
    PROVE  /\ [SettingsNext]_settingsVars /\ [LanesNext]_recovery /\ [Next]_vars /\ [TraceNext]_traceVars
           /\ [OAuthNext]_oauthVars /\ [RegistriesNext]_registryVars /\ [ProxyNext]_proxyVars
           /\ question' \in LaneQuestions \cup {question}
<1>1. CASE UNCHANGED partsVars
  BY <1>1 DEF partsVars
<1>2. CASE ProxyAside /\ LanesAside /\ StreamAside /\ TraceAside /\ OAuthAside /\ RegistriesAside /\ SettingsNext
  BY <1>2 DEF ProxyAside, LanesAside, StreamAside, TraceAside, OAuthAside, RegistriesAside
<1>3. CASE /\ ProxyAside /\ SettingsAside /\ StreamAside /\ TraceAside /\ OAuthAside /\ RegistriesAside
           /\ LanesNext /\ UNCHANGED question
  BY <1>3 DEF ProxyAside, SettingsAside, StreamAside, TraceAside, OAuthAside, RegistriesAside
<1>4. CASE /\ ProxyAside /\ SettingsAside /\ StreamAside /\ TraceAside /\ OAuthAside /\ RegistriesAside
           /\ Ask(LaneQuestions) /\ UNCHANGED recovery
  BY <1>4 DEF ProxyAside, SettingsAside, StreamAside, TraceAside, OAuthAside, RegistriesAside, Ask
<1>5. CASE ProxyAside /\ SettingsAside /\ LanesAside /\ TraceAside /\ OAuthAside /\ RegistriesAside /\ Next
  BY <1>5 DEF ProxyAside, SettingsAside, LanesAside, TraceAside, OAuthAside, RegistriesAside
<1>6. CASE ProxyAside /\ SettingsAside /\ LanesAside /\ StreamAside /\ OAuthAside /\ RegistriesAside /\ TraceNext
  BY <1>6 DEF ProxyAside, SettingsAside, LanesAside, StreamAside, OAuthAside, RegistriesAside
<1>7. CASE ProxyAside /\ SettingsAside /\ LanesAside /\ StreamAside /\ TraceAside /\ RegistriesAside /\ OAuthNext
  BY <1>7 DEF ProxyAside, SettingsAside, LanesAside, StreamAside, TraceAside, RegistriesAside
<1>8. CASE ProxyAside /\ SettingsAside /\ LanesAside /\ StreamAside /\ TraceAside /\ OAuthAside /\ RegistriesStep
  <2>1. RegistriesNext
    BY <1>8 DEF RegistriesStep, RegistriesNext
  <2> QED
    BY <1>8, <2>1 DEF ProxyAside, SettingsAside, LanesAside, StreamAside, TraceAside, OAuthAside
<1>9. CASE SettingsAside /\ LanesAside /\ StreamAside /\ TraceAside /\ OAuthAside /\ RegistriesAside /\ ProxyNext
  BY <1>9 DEF SettingsAside, LanesAside, StreamAside, TraceAside, OAuthAside, RegistriesAside
<1> QED
  BY <1>1, <1>2, <1>3, <1>4, <1>5, <1>6, <1>7, <1>8, <1>9 DEF PartsNext

\* The run of the parts is a run of each: what is proved of a part holds in it.
THEOREM PartsAreThemselves ==
    PartsSpec => /\ SettingsSpec /\ LanesSpec /\ Spec /\ TraceSpec /\ OAuthSpec /\ RegistriesSpec /\ ProxySpec
                 /\ [](question \in LaneQuestions \cup {NoQuestion})
<1>1. PartsInit => /\ SettingsInit /\ LanesInit /\ Init /\ TraceInit /\ OAuthInit /\ RegistriesInit /\ ProxyInit
                   /\ question \in LaneQuestions \cup {NoQuestion}
  BY DEF PartsInit, Unasked
<1>2. [PartsNext]_partsVars =>
         /\ [SettingsNext]_settingsVars /\ [LanesNext]_recovery /\ [Next]_vars /\ [TraceNext]_traceVars
         /\ [OAuthNext]_oauthVars /\ [RegistriesNext]_registryVars /\ [ProxyNext]_proxyVars
  BY PartsStep
<1>3. question \in LaneQuestions \cup {NoQuestion} /\ [PartsNext]_partsVars => (question \in LaneQuestions \cup {NoQuestion})'
  <2>1. ASSUME question \in LaneQuestions \cup {NoQuestion}, [PartsNext]_partsVars
        PROVE  question' \in LaneQuestions \cup {NoQuestion}
    BY <2>1, PartsStep
  <2> QED
    BY <2>1
<1> QED
  BY <1>1, <1>2, <1>3, PTL
     DEF PartsSpec, SettingsSpec, LanesSpec, Spec, TraceSpec, OAuthSpec, RegistriesSpec, ProxySpec

(***************************************************************************)
(* LanesHold: a recipe is run once for each scenario, and lanes, branches, *)
(* tests and directories are judged as the code of each promises.          *)
(* CollisionsReported, FreshHasMain and TestsAreHeld say the same for any  *)
(* lanes, modules, commits and commands.                                   *)
(***************************************************************************)
THEOREM LanesAreHeld == PartsSpec => []LanesHold
<1>1. RecoveryOnce /\ question \in LaneQuestions \cup {NoQuestion} => LanesHold
  BY LanesAnswered DEF LanesHold
<1> QED
  BY <1>1, PartsAreThemselves, RecoveredOnce, PTL

(***************************************************************************)
(* StreamKept: what a call of the model delivers is what the provider sent *)
(* for this request, for a bounded number of requests, and the trace tells *)
(* every attempt and how it and the turn ended; for any number of tool     *)
(* calls, pieces, retries, providers, clones of the tracer and records.    *)
(***************************************************************************)
THEOREM StreamIsKept == PartsSpec => []StreamKept
<1>1. StreamFaithful /\ RequestsBounded /\ TraceKept => StreamKept
  BY DEF StreamKept
<1> QED
  BY <1>1, PartsAreThemselves, StreamsAreFaithful, RequestsAreBounded, TraceIsKept, PTL
=============================================================================
