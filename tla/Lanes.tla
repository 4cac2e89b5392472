--------------------------------- MODULE Lanes ---------------------------------
(***************************************************************************)
(* How the runtime judges the lanes it works in                            *)
(* (src/rust/crates/runtime/src: recovery_recipes.rs, policy_engine.rs,    *)
(* stale_branch.rs, branch_lock.rs and trust_resolver.rs;                  *)
(* tools/src: lane_completion.rs, and lib.rs where bash asks for tests).   *)
(* All but the recovery context are functions of what they are asked       *)
(* about.                                                                  *)
(***************************************************************************)
EXTENDS Integers, Sequences, SequencesExt, FiniteSetsExt, Question

CONSTANTS
    MaxRecoveries   \* bound: calls of attempt_recovery

VARIABLE recovery   \* RecoveryContext: attempts and events

FailureScenario == {"trust_prompt_unresolved", "prompt_misdelivery", "stale_branch",
                    "compile_red_cross_crate", "mcp_handshake_failure",
                    "partial_plugin_startup", "provider_failure"}
LanesInit == recovery = [attempts |-> [s \in FailureScenario |-> 0], events |-> <<>>]
-----------------------------------------------------------------------------
(* recovery_recipes.rs.                                                    *)

Recipe(s) ==
    CASE s = "trust_prompt_unresolved" -> <<"accept_trust_prompt">>
      [] s = "prompt_misdelivery" -> <<"redirect_prompt_to_agent">>
      [] s = "stale_branch" -> <<"rebase_branch", "clean_build">>
      [] s = "compile_red_cross_crate" -> <<"clean_build">>
      [] s = "mcp_handshake_failure" -> <<"retry_mcp_handshake">>
      [] s = "partial_plugin_startup" -> <<"restart_plugin", "retry_mcp_handshake">>
      [] s = "provider_failure" -> <<"restart_worker">>
MaxAttempts == 1

Attempted(s, result) == [kind |-> "attempted", scenario |-> s, result |-> result]
Outcome(kind, s) == [kind |-> kind, scenario |-> s, result |-> ""]
\* The steps before failAt are taken; 0 is a context without a failing step.
RunRecipe(s, failAt) ==
    IF failAt \notin 1..Len(Recipe(s)) THEN "recovered"
    ELSE IF failAt = 1 THEN "escalation_required" ELSE "partial_recovery"
Counted(n, result) == n + 1
AttemptRecovery(s, failAt) ==
    LET spent == recovery.attempts[s] >= MaxAttempts
        result == IF spent THEN "escalation_required" ELSE RunRecipe(s, failAt)
        said == CASE result = "recovered" -> "succeeded" [] result = "partial_recovery" -> "failed"
                  [] OTHER -> "escalated"
    IN  /\ Len(recovery.events) < 2 * MaxRecoveries
        /\ recovery' =
              [attempts |-> [recovery.attempts EXCEPT ![s] = IF spent THEN @ ELSE Counted(@, result)],
               events |-> recovery.events \o
                 <<Attempted(s, IF spent THEN "refused" ELSE result), Outcome(said, s)>>]
-----------------------------------------------------------------------------
(* policy_engine.rs and lane_completion.rs.  A rule is a record with its   *)
(* condition's operator; ages are in hours.                                *)

Atom(c, lane) ==
    CASE c = "green" -> lane.green >= 3
      [] c = "stale" -> lane.age >= 1
      [] c = "startup_blocked" -> lane.blocker = "startup"
      [] c = "completed" -> lane.completed
      [] c = "reconciled" -> lane.reconciled
      [] c = "reviewed" -> lane.review = "approved"
      [] c = "scoped" -> lane.diff = "scoped"
      [] c = "timed_out" -> lane.age >= 2
Matches(rule, lane) ==
    IF rule.op = "and" THEN \A c \in rule.of : Atom(c, lane) ELSE \E c \in rule.of : Atom(c, lane)
\* PolicyEngine::new: sort_by_key is stable.
Rank(rules, i) ==
    LET Before(j) == \/ rules[j].priority < rules[i].priority
                     \/ rules[j].priority = rules[i].priority /\ j <= i
    IN  Cardinality({j \in DOMAIN rules : Before(j)})
ByPriority(rules) == [n \in DOMAIN rules |-> rules[CHOOSE i \in DOMAIN rules : Rank(rules, i) = n]]
Evaluate(rules, lane) ==
    LET sorted == ByPriority(rules)
        After[n \in 0..Len(rules)] ==
            IF n = 0 THEN <<>> ELSE After[n - 1] \o (IF Matches(sorted[n], lane) THEN sorted[n].action ELSE <<>>)
    IN  After[Len(rules)]

DetectLaneCompletion(output, green, pushed) ==
    ~output.error /\ output.status \in {"completed", "finished"} /\ ~output.blocked /\ green /\ pushed
CompletedLane == [green |-> 3, age |-> 0, blocker |-> "none", review |-> "approved", diff |-> "scoped",
                  completed |-> TRUE, reconciled |-> FALSE]
CompletionRules == << [op |-> "and", of |-> {"completed", "green"}, action |-> <<"closeout">>, priority |-> 10],
                      [op |-> "and", of |-> {"completed"}, action |-> <<"cleanup">>, priority |-> 5] >>
-----------------------------------------------------------------------------
(* stale_branch.rs; a branch is its set of commits.                        *)

\* rev_list_count: a git that fails counts nothing.
Behind(q) == IF q.git THEN Cardinality(q.main \ q.branch) ELSE 0
Ahead(q) == IF q.git THEN Cardinality(q.branch \ q.main) ELSE 0
Freshness(q) == IF Behind(q) = 0 THEN "fresh" ELSE IF Ahead(q) > 0 THEN "diverged" ELSE "stale"
ApplyPolicy(freshness, policy) ==
    IF freshness = "fresh" THEN "noop"
    ELSE CASE policy = "warn_only" -> "warn" [] policy = "block" -> "block"
           [] policy = "auto_rebase" -> "rebase" [] policy = "auto_merge_forward" -> "merge_forward"
(* run_bash of tools/src/lib.rs asks before the tests of a workspace; a    *)
(* command is its words, in lower case, heads the commits of the refs that *)
(* there are.                                                              *)

\* Any word that begins with --workspace or --all will do.
WorkspaceWords == {"--workspace", "--all", "--all-features"}
IsWorkspaceTestCommand(words) ==
    \E run \in {<<"cargo", "test">>, <<"cargo", "nextest", "run">>}, flag \in WorkspaceWords :
        \E i \in DOMAIN words : IsPrefix(Append(run, flag), SubSeq(words, i, Len(words)))
ResolveMainRef(name, refs) ==
    IF name = "main" /\ "origin/main" \in refs THEN <<"origin/main">>
    ELSE IF "main" \in refs THEN <<"main">>
    ELSE IF "origin/main" \in refs THEN <<"origin/main">> ELSE <<>>
\* The ref the branch lacks commits of, or nothing: then the tests run.
WorkspaceTestBranchPreflight(q) ==
    LET refs == ResolveMainRef(q.name, DOMAIN q.heads)
        freshness == Freshness([git |-> q.git, branch |-> q.branch, main |-> q.heads[refs[1]]])
    IN  IF ~IsWorkspaceTestCommand(q.command) \/ q.name = "detached" \/ refs = <<>> THEN <<>>
        ELSE IF freshness = "fresh" THEN <<>> ELSE <<refs[1], freshness>>
-----------------------------------------------------------------------------
(* branch_lock.rs; a module is the sequence of its path's parts.           *)

ModulesOverlap(l, r) == IsPrefix(l, r) \/ IsPrefix(r, l)
\* Mutant: the left module is always taken for the wider one.
SharedScopeLeft(l, r) == l
SharedScope(l, r) == IF IsPrefix(r, l) THEN r ELSE l
\* Every pair of intents, each once, in the order they are listed.
Colliding(left, right) ==
    IF left.branch # right.branch THEN {}
    ELSE { [branch |-> left.branch, module |-> SharedScope(m[1], m[2]), lanes |-> <<left.lane, right.lane>>] :
             m \in {p \in left.modules \X right.modules : ModulesOverlap(p[1], p[2])} }
Collisions(intents) ==
    UNION {UNION {Colliding(intents[i], intents[j]) : j \in (i + 1)..Len(intents)} : i \in DOMAIN intents}
-----------------------------------------------------------------------------
(* trust_resolver.rs; a root matches a directory that it is a prefix of.   *)

PathMatches(cwd, root) == IsPrefix(root, cwd)
Resolve(config, cwd, prompted) ==
    IF ~prompted THEN "not_required"
    ELSE IF \E root \in config.denied : PathMatches(cwd, root) THEN "deny"
    ELSE IF \E root \in config.allowlisted : PathMatches(cwd, root) THEN "auto_trust"
    ELSE "require_approval"
Trusts(config, cwd) == /\ \A root \in config.denied : ~PathMatches(cwd, root)
                       /\ \E root \in config.allowlisted : PathMatches(cwd, root)
-----------------------------------------------------------------------------
LanesNext == \E s \in FailureScenario, failAt \in 0..2 : AttemptRecovery(s, failAt)
LanesSpec == LanesInit /\ [][LanesNext]_recovery

\* However failures of different kinds take turns, a recipe is run once for each
\* scenario, and from then on the scenario is handed to a person each time it comes:
\* "enforces one automatic recovery attempt before escalation".
RecoveryOnce ==
    \A s \in FailureScenario :
        LET Of(i) == recovery.events[i].kind = "attempted" /\ recovery.events[i].scenario = s
            Indices == {i \in DOMAIN recovery.events : Of(i)}
        IN  \A i \in Indices :
              /\ (recovery.events[i].result # "refused") = (i = Min(Indices))
              /\ recovery.events[i].result = "refused" => recovery.events[i + 1].kind = "escalated"
\* Two lanes are reported for a branch exactly when some module lies within what
\* both of them lock, and the scope reported takes in what either of them locks
\* there (detect_branch_lock_collisions).
LocksReported(intents, paths) ==
    LET found == Collisions(intents)
        I == DOMAIN intents
        Locks(i, module) == \E m \in intents[i].modules : IsPrefix(m, module)
    IN  /\ \A i, j \in I : i < j =>
              ((\E c \in found : c.lanes = <<intents[i].lane, intents[j].lane>>)
               = (intents[i].branch = intents[j].branch /\ \E m \in paths : Locks(i, m) /\ Locks(j, m)))
        /\ \A c \in found : \E i, j \in I : \E l \in intents[i].modules, r \in intents[j].modules :
              i < j /\ IsPrefix(c.module, l) /\ IsPrefix(c.module, r)
\* A branch that is called fresh has all of main whenever git could be asked, and it
\* alone is left as it is (check_freshness, apply_policy).
BranchTold(q) ==
    /\ (Freshness(q) = "fresh" /\ q.git) => q.main \subseteq q.branch
    /\ (ApplyPolicy(Freshness(q), q.policy) = "noop") = (Freshness(q) = "fresh")
\* Of the commands only the tests of a workspace are held back, and only on a branch
\* that lacks a commit of the ref that is named; on main it is the remote's main that
\* counts (workspace_test_branch_preflight).
TestsHeld(q) ==
    LET held == WorkspaceTestBranchPreflight(q)
        Lacks(ref) == ref \in DOMAIN q.heads /\ ~(q.heads[ref] \subseteq q.branch)
    IN  /\ held # <<>> => /\ "cargo" \in ToSet(q.command) /\ Lacks(held[1])
                          /\ (held[2] = "stale") = (q.branch \subseteq q.heads[held[1]])
        /\ (/\ IsWorkspaceTestCommand(q.command) /\ q.git /\ q.name # "detached"
            /\ Lacks(IF q.name = "main" THEN "origin/main" ELSE "main")) => held # <<>>
\* Locks, branches and tests are judged as said above; of the trust questions the two
\* ways to ask give one answer; a lane that is complete is cleaned up, then closed out.
LanesJudged ==
    /\ Asked("locks") => LocksReported(question.intents, question.paths)
    /\ Asked("trust") =>
          Trusts(question.config, question.cwd) = (Resolve(question.config, question.cwd, TRUE) = "auto_trust")
    /\ Asked("branch") => BranchTold(question)
    /\ Asked("test") => TestsHeld(question)
    /\ Asked("output") =>
          LET done == DetectLaneCompletion(question.output, question.green, question.pushed)
          IN  done => /\ ~question.output.error
                      /\ Evaluate(CompletionRules, CompletedLane) = <<"cleanup", "closeout">>
\* Lanes are judged alike by whoever judges them, and recovered once.
LanesHold == RecoveryOnce /\ LanesJudged
=============================================================================
