---------------------------- MODULE HookContract ----------------------------
(***************************************************************************)
(* What a caller of HookRunner::run_pre_tool_use_with_context              *)
(* (src/rust/crates/runtime/src/hooks.rs) may be told.  ConversationTurn   *)
(* uses it as one step; HookRunner shows that the command loop keeps it.   *)
(***************************************************************************)
EXTENDS PermissionPolicy

CONSTANT Input   \* tool inputs, as far as hooks and rules tell them apart

\* HookRunResult, as far as run_turn reads it.
HookResult == [verdict : {"allow", "denied", "failed", "cancelled"},
               updated : Input, override : PermissionOverride]

\* The answers for an input x, with or without configured hooks and with the
\* abort signal raised or not when the run begins: without hooks it is allowed without a look at the
\* abort signal, a raised signal cancels.
HookAnswers(x, hooks, aborted) ==
    IF ~hooks
    THEN {[verdict |-> "allow", updated |-> x, override |-> "None"]}
    ELSE IF aborted
    THEN {[verdict |-> "cancelled", updated |-> x, override |-> "None"]}
    ELSE {h \in HookResult : h.verdict # "cancelled"}
=============================================================================
