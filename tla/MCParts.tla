-------------------------------- MODULE MCParts --------------------------------
(***************************************************************************)
(* Parts of the program that share no state: settings, the tokens and the  *)
(* stream of the provider, the local proxy that stands in for it, the      *)
(* trace, lanes and their recovery, and the registries of tasks, teams,    *)
(* cron entries and LSP servers.  Each takes its steps while the others    *)
(* are where they start, so that TLC explores them side by side and not in *)
(* every combination.                                                      *)
(*                                                                         *)
(* The settings files offered cover, for each key that is merged, a weaker *)
(* and a stronger definition of it, and a missing and a torn file of the   *)
(* legacy and of the current kind.                                         *)
(***************************************************************************)
EXTENDS Settings, Lanes, ProviderStream, OAuth, ToolRegistries, Telemetry, LocalProxy

CONSTANTS k1, k2, l1, l2

MCKey == {k1, k2}
MCLogin == {l1, l2}

MCGivenFile ==
    << {Missing, Torn, Keys("permissionMode" :> "dontAsk")},
       {Missing, Keys(("model" :> "x") @@ ("mcpServers.x" :> "one"))},
       {Torn, Keys((DefaultMode :> "plan") @@ ("aliases.x" :> "m"))},
       {Missing, Keys(("model" :> "y") @@ ("mcpServers.x" :> "two") @@ ("permissionMode" :> "read-only"))},
       {Missing, Keys(DefaultMode :> "auto"), Keys(("aliases.x" :> "n") @@ (DefaultMode :> "plan"))} >>
MCConfigCall == { <<DefaultMode, "acceptEdits">>, <<DefaultMode, "bad">>, <<"theme", "dark">>, <<"model", "#7">> }
MCUserMode == {Unset, "plan", "auto"}
\* Settings start on many files; the others take their steps on one of them.
SettingsAtRest == SettingsInit /\ file = [i \in Entry |-> IF i = 3 THEN Torn ELSE Missing]

Paths == {<<"a">>, <<"a", "b">>, <<"b">>, <<"a", "b", "c">>}
Locked == {{}, {<<"a">>, <<"b">>}} \cup {{p} : p \in Paths}
Intents(lane) == [lane : {lane}, branch : {"x", "y"}, modules : Locked]
LaneQuestions ==
    {[about |-> "locks", intents |-> <<i, j>>, paths |-> Paths] : i \in Intents("l1"), j \in Intents("l2")}
    \cup [about : {"trust"}, cwd : Paths,
          config : [denied : {{}} \cup {{p} : p \in Paths}, allowlisted : {{}} \cup {{p} : p \in Paths}]]
    \cup [about : {"branch"}, main : SUBSET (1..3), branch : SUBSET (1..3), git : BOOLEAN,
          policy : {"warn_only", "block", "auto_rebase", "auto_merge_forward"}]
    \cup {q \in [about : {"test"}, git : BOOLEAN, name : {"main", "work", "detached"}, branch : SUBSET (1..2),
                 heads : UNION {[refs -> SUBSET (1..2)] : refs \in SUBSET {"main", "origin/main"}},
                 command : {<<"cargo", "test", "--workspace">>, <<"echo", "cargo", "nextest", "run", "--all">>,
                            <<"cargo", "test", "--all-features">>, <<"cargo", "test", "-q", "--workspace">>}] :
             q.name = "main" => "main" \in DOMAIN q.heads /\ q.heads["main"] = q.branch}
    \cup [about : {"output"}, green : BOOLEAN, pushed : BOOLEAN,
          output : [error : BOOLEAN, status : {"completed", "running"}, blocked : BOOLEAN]]

NoTasks == TasksInit /\ counter["task"] = 0 /\ counter["team"] = 0
NoCrons == CronsInit /\ counter["cron"] = 0
RegistriesStep ==
    \/ NoCrons /\ LspInit /\ TasksNext /\ UNCHANGED <<crons, lspVars>>
    \/ NoTasks /\ LspInit /\ CronsNext /\ UNCHANGED <<taskVars, lspVars>>
    \/ NoTasks /\ NoCrons /\ LspNext /\ UNCHANGED <<taskVars, crons>>

\* Asides: where a part is while another one takes its steps.
LanesAside == LanesInit /\ Unasked /\ UNCHANGED <<recovery, question>>
StreamAside == Init /\ UNCHANGED vars
TraceAside == TraceInit /\ UNCHANGED traceVars
OAuthAside == OAuthInit /\ creds = NoFile /\ UNCHANGED oauthVars
ProxyAside == ProxyInit /\ UNCHANGED proxyVars
RegistriesAside == RegistriesInit /\ UNCHANGED registryVars
SettingsAside == SettingsAtRest /\ UNCHANGED settingsVars

PartsInit ==
    SettingsInit /\ LanesInit /\ Unasked /\ Init /\ TraceInit /\ ProxyInit /\ OAuthInit /\ RegistriesInit
partsVars == <<settingsVars, recovery, question, vars, traceVars, proxyVars, oauthVars, registryVars>>
PartsNext ==
    \/ /\ ProxyAside
       /\ \/ LanesAside /\ StreamAside /\ TraceAside /\ OAuthAside /\ RegistriesAside /\ SettingsNext
          \/ /\ SettingsAside
             /\ \/ /\ StreamAside /\ TraceAside /\ OAuthAside /\ RegistriesAside
                   /\ \/ Unasked /\ LanesNext /\ UNCHANGED question
                      \/ LanesInit /\ Ask(LaneQuestions) /\ UNCHANGED recovery
                \/ LanesAside /\ TraceAside /\ OAuthAside /\ RegistriesAside /\ Next
                \/ LanesAside /\ StreamAside /\ OAuthAside /\ RegistriesAside /\ TraceNext
                \/ LanesAside /\ StreamAside /\ TraceAside /\ RegistriesAside /\ OAuthNext
                \/ LanesAside /\ StreamAside /\ TraceAside /\ OAuthAside /\ RegistriesStep
    \/ /\ SettingsAside /\ LanesAside /\ StreamAside /\ TraceAside /\ OAuthAside /\ RegistriesAside
       /\ ProxyNext
PartsSpec == PartsInit /\ [][PartsNext]_partsVars
-----------------------------------------------------------------------------
\* What a call of the model delivers is what the provider sent, for a bounded number of
\* requests, however attempts, nudges, providers and the second request combine, and the
\* trace tells every attempt and how it and the turn ended.
StreamKept == StreamFaithful /\ RequestsBounded /\ TraceKept
=============================================================================
