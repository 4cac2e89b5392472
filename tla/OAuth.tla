--------------------------------- MODULE OAuth ---------------------------------
(***************************************************************************)
(* Logging in and out and refreshing a saved token: oauth.rs of            *)
(* src/rust/crates/runtime/src, run_login and run_logout of                *)
(* rusty-claude-cli/src/main.rs and the start-up resolution of             *)
(* api/src/providers/anthropic.rs.  One process at a time runs a command   *)
(* and may end anywhere in it; the browser and the authorization server    *)
(* are outside and may answer anything.                                    *)
(***************************************************************************)
EXTENDS Integers

CONSTANTS
    Login,      \* attempts to log in; each has a state and a verifier of its own
    MaxTokens   \* bound: token sets the server issues

VARIABLES
    creds,      \* credentials.json
    temp,       \* credentials.json.tmp
    proc,       \* the running command: its step, its login, the token set it holds
    server,     \* token sets issued, and the last refresh token among them
    exchanged,  \* history: [login, whose state the callback had]
    auth,       \* what the last start-up goes on with: its kind and token set
    lost        \* history: a command ended with a token set it did not save

oauthVars == <<creds, temp, proc, server, exchanged, auth, lost>>

NoToken == [access |-> 0, refresh |-> 0, expires |-> "never"]
File(oauth, other) == [status |-> "ok", oauth |-> oauth, other |-> other]
NoFile == [status |-> "missing", oauth |-> NoToken, other |-> FALSE]
TornFile == [NoFile EXCEPT !.status = "torn"]
NoCommand == [pc |-> "idle", login |-> "none", token |-> NoToken]
NoAuth == [kind |-> "none", token |-> NoToken]

OAuthInit ==
    /\ creds \in {NoFile, File(NoToken, TRUE)} /\ temp = NoFile /\ proc = NoCommand
    /\ server = [issued |-> 0, refresh |-> 0] /\ exchanged = {} /\ auth = NoAuth /\ lost = FALSE

At(pc) == proc.pc = pc
Readable(f) == f.status # "torn"
Expired(token) == token.expires = "expired"
-----------------------------------------------------------------------------
(* run_login: the listener takes one connection, whoever makes it.         *)

StartLogin(l) ==
    /\ At("idle") /\ \A e \in exchanged : e.login # l
    /\ proc' = [NoCommand EXCEPT !.pc = "listen", !.login = l]
    /\ UNCHANGED <<creds, temp, server, exchanged, auth, lost>>

\* The target of a callback: its path, whether it decodes, and its parameters.
Callback == [path : {"/callback", "/other"}, decodes : BOOLEAN, error : BOOLEAN, code : BOOLEAN,
             state : Login \cup {"none"}]
\* Mutant: a callback without a state is taken for one's own.
AcceptsStateless(callback, l) ==
    /\ callback.path = "/callback" /\ callback.decodes
    /\ ~callback.error /\ callback.code
    /\ callback.state \in {l, "none"}
Accepts(callback, l) ==
    /\ callback.path = "/callback" /\ callback.decodes
    /\ ~callback.error /\ callback.code
    /\ callback.state = l
ReceiveCallback(callback) ==
    /\ At("listen")
    /\ IF Accepts(callback, proc.login)
       THEN /\ proc' = [proc EXCEPT !.pc = "exchange"]
            /\ exchanged' = exchanged \cup {[login |-> proc.login, state |-> callback.state]}
       ELSE proc' = NoCommand /\ UNCHANGED exchanged
    /\ UNCHANGED <<creds, temp, server, auth, lost>>

\* A token set as it comes: a refresh may leave out the refresh token.
Issued(rotates, expires) ==
    [access |-> server.issued + 1, refresh |-> IF rotates THEN server.issued + 1 ELSE 0, expires |-> expires]
Answers(token, refresh) ==
    /\ server.issued < MaxTokens
    /\ server' = [issued |-> server.issued + 1, refresh |-> refresh]
    /\ proc' = [proc EXCEPT !.pc = "write", !.token = token]
    /\ UNCHANGED <<creds, temp, exchanged, auth, lost>>
ExchangeCode(rotates, expires) ==
    /\ At("exchange")
    /\ LET token == Issued(rotates, expires) IN Answers(token, token.refresh)
-----------------------------------------------------------------------------
(* Start-up: keys of the environment first, then what is saved.            *)

ResolveStartupAuth(apiKey, bearer) ==
    LET saved == creds.oauth
        Source(kind, token) == auth' = [kind |-> kind, token |-> token] /\ UNCHANGED proc
    IN  /\ At("idle")
        /\ CASE apiKey /\ bearer -> Source("ApiKeyAndBearer", NoToken)
             [] apiKey /\ ~bearer -> Source("ApiKey", NoToken)
             [] ~apiKey /\ bearer -> Source("BearerToken", NoToken)
             [] OTHER ->
                  IF ~Readable(creds) \/ saved = NoToken \/ (Expired(saved) /\ saved.refresh = 0)
                  THEN Source("error", NoToken)
                  ELSE IF ~Expired(saved) THEN Source("saved", saved)
                  ELSE proc' = [NoCommand EXCEPT !.pc = "refresh", !.token = saved] /\ UNCHANGED auth
        /\ UNCHANGED <<creds, temp, server, exchanged, lost>>

\* resolve_saved_oauth_token_set: an answer without a refresh token keeps the old.
Resolved(answer, held) ==
    [answer EXCEPT !.refresh = IF @ # 0 THEN @ ELSE held.refresh]
RefreshToken(rotates, expires) ==
    /\ At("refresh")
    /\ LET token == Issued(rotates, expires)
       IN  Answers(Resolved(token, proc.token), IF rotates THEN token.refresh ELSE server.refresh)
-----------------------------------------------------------------------------
(* The file: read, changed, written beside itself and renamed.             *)

StartLogout ==
    /\ At("idle")
    /\ proc' = [NoCommand EXCEPT !.pc = "write"]
    /\ UNCHANGED <<creds, temp, server, exchanged, auth, lost>>
\* read_credentials_root: a torn file ends the command.
WriteTemp ==
    /\ At("write")
    /\ IF Readable(creds)
       THEN /\ temp' = File(proc.token, creds.other)
            /\ proc' = [proc EXCEPT !.pc = "rename"] /\ UNCHANGED lost
       ELSE proc' = NoCommand /\ lost' = TRUE /\ UNCHANGED temp
    /\ UNCHANGED <<creds, server, exchanged, auth>>
RenameTemp ==
    /\ At("rename")
    /\ creds' = temp /\ temp' = NoFile
    /\ proc' = NoCommand /\ lost' = (lost /\ proc.token.refresh # server.refresh)
    /\ auth' = IF proc.login = "none" /\ proc.token # NoToken
               THEN [kind |-> "saved", token |-> proc.token] ELSE NoAuth
    /\ UNCHANGED <<server, exchanged>>

\* Any call fails, or the process ends, also between the bytes of the temporary file.
CommandFails ==
    /\ ~At("idle")
    /\ proc' = NoCommand /\ auth' = NoAuth
    /\ lost' = (lost \/ (proc.pc \in {"write", "rename"} /\ proc.token # NoToken))
    /\ temp' \in {temp} \cup (IF At("write") THEN {TornFile} ELSE {})
    /\ UNCHANGED <<creds, server, exchanged>>

\* Time passes.
TokenExpires ==
    /\ At("idle") /\ creds.oauth.expires = "soon"
    /\ creds' = [creds EXCEPT !.oauth.expires = "expired"]
    /\ auth' = NoAuth
    /\ UNCHANGED <<temp, proc, server, exchanged, lost>>

OAuthNext ==
    \/ \E l \in Login : StartLogin(l)
    \/ \E callback \in Callback : ReceiveCallback(callback)
    \/ \E rotates \in BOOLEAN, expires \in {"never", "soon", "expired"} :
          ExchangeCode(rotates, expires) \/ RefreshToken(rotates, expires)
    \/ \E apiKey, bearer \in BOOLEAN : ResolveStartupAuth(apiKey, bearer)
    \/ StartLogout \/ WriteTemp \/ RenameTemp \/ CommandFails \/ TokenExpires

OAuthSpec == OAuthInit /\ [][OAuthNext]_oauthVars
-----------------------------------------------------------------------------
\* The saved tokens survive every way a command can end: the file is whole,
\* a saved set has the last refresh token the server gave
\* out, unless a command ended between the answer and the file, and what a start-up
\* goes on with is what the next one will find.  A code is exchanged only by the
\* login whose browser page it came from.
TokensKept ==
    /\ creds.status # "torn"
    /\ creds.oauth # NoToken /\ ~lost /\ proc.pc \notin {"write", "rename"} =>
          creds.oauth.refresh = server.refresh
    /\ auth.kind = "saved" => creds.oauth = auth.token
    /\ \A e \in exchanged : e.state = e.login
=============================================================================
